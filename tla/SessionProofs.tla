---------------------------- MODULE SessionProofs ---------------------------
(* Proofs about how a session's events reach the window: Replay, for any   *)
(* number of sessions, events and reloads, and any limits; and, in the     *)
(* second half, about a pane in a window of its own: PopOut, for any       *)
(* number of messages, moves and clicks.                                   *)
EXTENDS Replay, PopOut, FiniteSetTheorems, WellFoundedInduction, TLAPS

-----------------------------------------------------------------------------
(* Sequences.  What a recursive function gives for every input is proved   *)
(* by the least input for which it does not.                               *)

\* A set of naturals has a least member.
LEMMA Least ==
    ASSUME NEW T, T \subseteq Nat, T # {}
    PROVE  \E n \in T : \A m \in T : n <= m
<1>1. IsWellFoundedOn(OpToRel(<, Nat), Nat)
  BY NatLessThanWellFounded
<1>2. PICK n \in T : \A m \in T : ~(<<m, n>> \in OpToRel(<, Nat))
  BY <1>1, WFMin
<1>3. \A m \in T : ~(m < n)
  BY <1>2 DEF OpToRel
<1> QED BY <1>3

\* f gives the places in s of what is kept of its first n entries, in their order.
Picks(f, t, s, S, n) ==
    /\ t \in Seq(S)
    /\ f \in [1 .. Len(t) -> 1 .. n]
    /\ \A k \in 1 .. Len(t) : t[k] = s[f[k]] /\ s[f[k]] \in S
    /\ \A j, k \in 1 .. Len(t) : j < k => f[j] < f[k]
    /\ \A i \in 1 .. n : s[i] \in S => \E k \in 1 .. Len(t) : f[k] = i

\* Among, entry by entry.
Step(s, S, n, h) == [i \in 0 .. n |-> IF i = 0 THEN <<>>
            ELSE IF s[i] \in S THEN Append(h[i - 1], s[i]) ELSE h[i - 1]]

\* A function that goes by such steps exists, as far as the sequence goes.
LEMMA StepExists ==
    ASSUME NEW A, NEW S, NEW s \in Seq(A), NEW n \in 0 .. Len(s)
    PROVE  \E h : h = Step(s, S, n, h)
<1> DEFINE Bad == {m \in 0 .. Len(s) : ~\E h : h = Step(s, S, m, h)}
<1>1. SUFFICES ASSUME Bad # {} PROVE FALSE
  OBVIOUS
<1>2. PICK m \in Bad : \A k \in Bad : m <= k
  <2>1. Bad \subseteq Nat
    OBVIOUS
  <2> QED BY <1>1, <2>1, Least
<1>3. CASE m = 0
  <2>1. [i \in 0 .. 0 |-> <<>>] = Step(s, S, 0, [i \in 0 .. 0 |-> <<>>])
    BY DEF Step
  <2> QED BY <1>2, <1>3, <2>1
<1>4. CASE m # 0
  <2>1. m - 1 \in 0 .. Len(s) /\ m - 1 \notin Bad
    BY <1>2, <1>4
  <2>2. PICK h : h = Step(s, S, m - 1, h)
    BY <2>1
  <2> DEFINE g == [i \in 0 .. m |-> IF i < m THEN h[i]
                     ELSE IF s[m] \in S THEN Append(h[m - 1], s[m]) ELSE h[m - 1]]
  <2>3. \A i \in 0 .. m - 1 : h[i] = IF i = 0 THEN <<>>
                                   ELSE IF s[i] \in S THEN Append(h[i - 1], s[i]) ELSE h[i - 1]
    BY <2>1, <2>2 DEF Step
  <2>5. \A i \in 0 .. m : g[i] = IF i = 0 THEN <<>>
                                 ELSE IF s[i] \in S THEN Append(g[i - 1], s[i]) ELSE g[i - 1]
    <3>1. ASSUME NEW i \in 0 .. m
          PROVE  g[i] = IF i = 0 THEN <<>>
                        ELSE IF s[i] \in S THEN Append(g[i - 1], s[i]) ELSE g[i - 1]
      <4>1. CASE i = m
        <5>1. g[m - 1] = h[m - 1] /\ m # 0
          BY <1>4, <2>1
        <5> QED BY <4>1, <5>1
      <4>2. CASE i # m /\ i # 0
        <5>1. g[i] = h[i] /\ g[i - 1] = h[i - 1] /\ i \in 0 .. m - 1
          BY <4>2, <2>1
        <5> HIDE DEF g
        <5> QED BY <2>3, <4>2, <5>1
      <4>3. CASE i # m /\ i = 0
        <5>1. g[i] = h[i] /\ i \in 0 .. m - 1
          BY <4>3, <2>1
        <5> HIDE DEF g
        <5> QED BY <2>3, <4>3, <5>1
      <4> QED BY <4>1, <4>2, <4>3
    <3> QED BY <3>1
  <2>6. g = [i \in 0 .. m |-> g[i]]
    OBVIOUS
  <2> HIDE DEF g
  <2>7. g = Step(s, S, m, g)
    BY <2>5, <2>6 DEF Step
  <2> QED BY <1>2, <2>7
<1> QED BY <1>3, <1>4

\* Among's recursive function picks the entries that are in S.
LEMMA AmongPicks ==
    ASSUME NEW A, NEW S, NEW s \in Seq(A)
    PROVE  \E f : Picks(f, Among(s, S), s, S, Len(s))
<1> DEFINE upTo[i \in 0 .. Len(s)] ==
            IF i = 0 THEN <<>>
            ELSE IF s[i] \in S THEN Append(upTo[i - 1], s[i]) ELSE upTo[i - 1]
<1>0. Len(s) \in Nat
  OBVIOUS
<1>1. upTo = [i \in 0 .. Len(s) |-> IF i = 0 THEN <<>>
            ELSE IF s[i] \in S THEN Append(upTo[i - 1], s[i]) ELSE upTo[i - 1]]
  <2>1. \E h : h = [i \in 0 .. Len(s) |-> IF i = 0 THEN <<>>
            ELSE IF s[i] \in S THEN Append(h[i - 1], s[i]) ELSE h[i - 1]]
    <3>1. PICK h : h = Step(s, S, Len(s), h)
      <4>1. Len(s) \in 0 .. Len(s)
        BY <1>0
      <4> QED BY <4>1, StepExists
    <3>2. h = [i \in 0 .. Len(s) |-> IF i = 0 THEN <<>>
                 ELSE IF s[i] \in S THEN Append(h[i - 1], s[i]) ELSE h[i - 1]]
      BY <3>1 DEF Step
    <3> QED BY <3>2
  <2> QED BY <2>1
<1>2. Among(s, S) = upTo[Len(s)]
  BY DEF Among
<1> HIDE DEF upTo
<1> DEFINE Bad == {m \in 0 .. Len(s) : ~\E f : Picks(f, upTo[m], s, S, m)}
<1>3. SUFFICES ASSUME Bad # {} PROVE FALSE
  BY <1>0, <1>2
<1>4. PICK m \in Bad : \A k \in Bad : m <= k
  <2>1. Bad \subseteq Nat
    OBVIOUS
  <2> QED BY <1>3, <2>1, Least
<1>5. CASE m = 0
  <2>1. upTo[0] = <<>>
    BY <1>0, <1>1
  <2>2. Picks([k \in 1 .. 0 |-> 0], <<>>, s, S, 0)
    BY DEF Picks
  <2> QED BY <1>4, <1>5, <2>1, <2>2
<1>6. CASE m # 0
  <2>1. m \in 1 .. Len(s) /\ m - 1 \in 0 .. Len(s) /\ m - 1 \notin Bad
    BY <1>4, <1>6
  <2>2. PICK f : Picks(f, upTo[m - 1], s, S, m - 1)
    BY <2>1
  <2> DEFINE t == upTo[m - 1]
  <2>3. upTo[m] = IF s[m] \in S THEN Append(t, s[m]) ELSE t
    <3>1. m \in 0 .. Len(s) /\ m # 0
      BY <1>6, <2>1
    <3> QED BY <1>1, <3>1
  <2>4. CASE s[m] \in S
    <3> DEFINE g == [k \in 1 .. Len(t) + 1 |-> IF k <= Len(t) THEN f[k] ELSE m]
    <3> HIDE DEF t
    <3>1. /\ t \in Seq(S) /\ Len(t) \in Nat /\ Append(t, s[m]) \in Seq(S)
          /\ Len(Append(t, s[m])) = Len(t) + 1
          /\ \A k \in 1 .. Len(t) : Append(t, s[m])[k] = t[k]
          /\ Append(t, s[m])[Len(t) + 1] = s[m]
      BY <2>2, <2>4 DEF Picks, t
    <3>2. /\ f \in [1 .. Len(t) -> 1 .. m - 1]
          /\ \A k \in 1 .. Len(t) : t[k] = s[f[k]] /\ s[f[k]] \in S
          /\ \A j, k \in 1 .. Len(t) : j < k => f[j] < f[k]
          /\ \A i \in 1 .. m - 1 : s[i] \in S => \E k \in 1 .. Len(t) : f[k] = i
      BY <2>2 DEF Picks, t
    <3>3. g \in [1 .. Len(t) + 1 -> 1 .. m]
      BY <2>1, <3>1, <3>2
    <3>4. \A i \in 1 .. m : s[i] \in S => \E k \in 1 .. Len(t) + 1 : g[k] = i
      BY <2>1, <3>1, <3>2
    <3>5. \A j, k \in 1 .. Len(t) + 1 : j < k => g[j] < g[k]
      BY <2>1, <3>1, <3>2, SMTT(30)
    <3>6. \A k \in 1 .. Len(t) + 1 : Append(t, s[m])[k] = s[g[k]] /\ s[g[k]] \in S
      BY <2>1, <2>4, <3>1, <3>2
    <3> HIDE DEF g
    <3>7. Picks(g, Append(t, s[m]), s, S, m)
      BY <3>1, <3>3, <3>4, <3>5, <3>6 DEF Picks
    <3> QED BY <1>4, <2>3, <2>4, <3>7 DEF t
  <2>5. CASE s[m] \notin S
    <3> HIDE DEF t
    <3>2. /\ t \in Seq(S) /\ f \in [1 .. Len(t) -> 1 .. m - 1]
          /\ \A k \in 1 .. Len(t) : t[k] = s[f[k]] /\ s[f[k]] \in S
          /\ \A j, k \in 1 .. Len(t) : j < k => f[j] < f[k]
          /\ \A i \in 1 .. m - 1 : s[i] \in S => \E k \in 1 .. Len(t) : f[k] = i
      BY <2>2 DEF Picks, t
    <3>3. f \in [1 .. Len(t) -> 1 .. m]
      BY <2>1, <3>2
    <3>4. \A i \in 1 .. m : s[i] \in S => \E k \in 1 .. Len(t) : f[k] = i
      BY <2>1, <2>5, <3>2
    <3>1. Picks(f, t, s, S, m)
      BY <3>2, <3>3, <3>4 DEF Picks
    <3> QED BY <1>4, <2>3, <2>5, <3>1 DEF t
  <2> QED BY <2>4, <2>5
<1> QED BY <1>5, <1>6

\* What is kept of a sequence, and in what order.
LEMMA AmongFacts ==
    ASSUME NEW A, NEW S, NEW s \in Seq(A)
    PROVE  /\ Among(s, S) \in Seq(A)
           /\ ToSet(Among(s, S)) = ToSet(s) \cap S
           /\ \E f \in [DOMAIN Among(s, S) -> DOMAIN s] :
                 /\ \A k \in DOMAIN Among(s, S) : Among(s, S)[k] = s[f[k]]
                 /\ \A j, k \in DOMAIN Among(s, S) : j < k => f[j] < f[k]
<1> DEFINE t == Among(s, S)
<1>1. PICK f : Picks(f, t, s, S, Len(s))
  BY AmongPicks
<1> HIDE DEF t
<1>2. /\ t \in Seq(S) /\ f \in [1 .. Len(t) -> 1 .. Len(s)]
      /\ \A k \in 1 .. Len(t) : t[k] = s[f[k]] /\ s[f[k]] \in S
      /\ \A j, k \in 1 .. Len(t) : j < k => f[j] < f[k]
      /\ \A i \in 1 .. Len(s) : s[i] \in S => \E k \in 1 .. Len(t) : f[k] = i
  BY <1>1 DEF Picks
<1>3. DOMAIN t = 1 .. Len(t) /\ DOMAIN s = 1 .. Len(s) /\ Len(t) \in Nat
  BY <1>2
<1>4. \A k \in 1 .. Len(t) : t[k] \in A
  <2>1. ASSUME NEW k \in 1 .. Len(t)
        PROVE  t[k] \in A
    <3>1. t[k] = s[f[k]] /\ f[k] \in 1 .. Len(s)
      BY <1>2
    <3> QED BY <3>1
  <2> QED BY <2>1
<1>5. t \in Seq(A)
  BY <1>2, <1>3, <1>4
<1>6. ToSet(t) = ToSet(s) \cap S
  <2>1. ASSUME NEW x \in ToSet(t)
        PROVE  x \in ToSet(s) \cap S
    <3>1. PICK k \in 1 .. Len(t) : x = t[k]
      BY <1>3 DEF ToSet
    <3>2. x = s[f[k]] /\ x \in S /\ f[k] \in 1 .. Len(s)
      BY <1>2, <3>1
    <3> QED BY <1>3, <3>2 DEF ToSet
  <2>2. ASSUME NEW x \in ToSet(s), x \in S
        PROVE  x \in ToSet(t)
    <3>1. PICK i \in 1 .. Len(s) : x = s[i]
      BY <1>3 DEF ToSet
    <3>2. PICK k \in 1 .. Len(t) : f[k] = i
      BY <1>2, <2>2, <3>1
    <3>3. x = t[k]
      BY <1>2, <3>1, <3>2
    <3> QED BY <1>3, <3>3 DEF ToSet
  <2> QED BY <2>1, <2>2
<1> QED BY <1>2, <1>3, <1>5, <1>6 DEF t

-----------------------------------------------------------------------------
(* The inductive invariant.                                                *)

Entry == [num : Nat, event : Nat \ {0}, by : Emitter, kind : {"said", "patch"}]

AppShape ==
    /\ life \in [Sid -> {"unborn", "opening", "listed", "closed"}]
    /\ over \subseteq Sid /\ early \subseteq Sid /\ cut \subseteq Sid
    /\ nextNum \in [Sid -> Nat] /\ emitted \in [Sid -> Nat]
    /\ kept \in [Sid -> Seq(Entry)]
    /\ wire \in [Sid -> [Emitter -> Entry \cup {Silent}]]

WindowShape ==
    /\ listening \in BOOLEAN
    /\ tile \in [Sid -> {"none", "asked", "answered", "claimed"}]
    /\ through \in [Sid -> Nat \cup {-1}]
    /\ snapshot \in [Sid -> Seq(Entry)] /\ held \in [Sid -> Seq(Entry)] /\ drawn \in [Sid -> Seq(Entry)]
    /\ heldOrder \in Seq(Sid)

\* The early buffers are those of sessions that are not listed, and the queues that are
\* held are on the list, once each.
EarlyInv ==
    /\ IsFiniteSet(early) /\ Cardinality(early) <= MaxEarly
    /\ ToSet(heldOrder) = {s \in Sid : held[s] # <<>>} /\ IsInjective(heldOrder)

\* How far a session has come, in the application and in the window.
StageInv(s) ==
    /\ s \in early => life[s] # "listed"
    /\ kept[s] # <<>> => s \in early \/ life[s] = "listed"
    /\ life[s] = "unborn" => emitted[s] = 0 /\ s \notin over /\ s \notin early
    /\ life[s] = "closed" => s \in cut
    /\ tile[s] # "none" => listening /\ life[s] \in {"listed", "closed"}
    /\ tile[s] # "answered" => snapshot[s] = <<>>
    /\ tile[s] # "claimed" => drawn[s] = <<>> /\ through[s] = -1
    /\ tile[s] = "claimed" \/ ~listening => held[s] = <<>>

Increasing(q) == \A i, j \in DOMAIN q : i < j => q[i].num < q[j].num
OnWire(s) == {wire[s][t] : t \in Emitter} \ {Silent}
Copies(s) == ToSet(kept[s]) \cup ToSet(snapshot[s]) \cup ToSet(held[s]) \cup ToSet(drawn[s]) \cup OnWire(s)

\* An event is one entry wherever it is copied, and is announced once.
OnceInv(s) ==
    /\ \A e \in Copies(s) : e.event <= emitted[s]
    /\ \A e, f \in Copies(s) : e.event = f.event => e = f
    /\ Increasing(kept[s]) /\ \A e \in ToSet(kept[s]) : e.num < nextNum[s]
    /\ Increasing(snapshot[s])
    /\ IsInjective(held[s]) /\ IsInjective(drawn[s])
    /\ \A t \in Emitter : wire[s][t] # Silent =>
          /\ wire[s][t].by = t /\ wire[s][t] \notin ToSet(held[s])
          /\ wire[s][t] \in ToSet(drawn[s]) => wire[s][t].num <= through[s]

InOrder(q) == \A i, j \in DOMAIN q : i < j /\ q[i].by = q[j].by => q[i].event < q[j].event

\* Of a session nothing of which was dropped, the number says which event it is, and
\* what a thread announces is after all it has announced.
OrderInv(s) ==
    /\ nextNum[s] = emitted[s]
    /\ \A e \in Copies(s) : e.num = e.event - 1
    /\ InOrder(held[s]) /\ InOrder(drawn[s])
    /\ \A t \in Emitter : wire[s][t] # Silent =>
          /\ \A e \in ToSet(held[s]) : e.by = t => e.event < wire[s][t].event
          /\ wire[s][t].num > through[s] =>
                \A e \in ToSet(drawn[s]) : e.by = t => e.event < wire[s][t].event

\* It is in q, or a newer value of the same state is.
Covers(q, n) == \E e \in ToSet(q) : e.event = n \/ (e.kind = "patch" /\ e.event > n)
\* From the first of q on nothing is missing up to n.
Whole(q, n) == \A e \in ToSet(q) : \A k \in Nat : e.event <= k /\ k <= n => Covers(q, k)
Newest(q) == IF q = <<>> THEN 0 ELSE q[Len(q)].event
ToCome(s, q, n) ==
    \A k \in Nat : n < k /\ k <= emitted[s] => \E e \in ToSet(q) \cup OnWire(s) : e.event = k

\* ... and what is kept, with what is yet to be announced, is whole.
WholeInv(s) ==
    /\ Newest(kept[s]) = emitted[s] /\ Whole(kept[s], emitted[s])
    /\ tile[s] = "answered" =>
          /\ Whole(snapshot[s], Newest(snapshot[s]))
          /\ ToCome(s, held[s], Newest(snapshot[s]))
    /\ tile[s] = "claimed" =>
          /\ Whole(drawn[s], through[s] + 1)
          /\ ToCome(s, drawn[s], through[s] + 1)

ThreadInv(s) == StageInv(s) /\ OnceInv(s) /\ (s \notin cut => OrderInv(s) /\ WholeInv(s))

ReplayInv == AppShape /\ WindowShape /\ EarlyInv /\ \A s \in Sid : ThreadInv(s)

-----------------------------------------------------------------------------
(* The buffer of a session.                                                *)

LEMMA LastOfFacts ==
    ASSUME NEW A, NEW all \in Seq(A), NEW n \in Nat \ {0}, all # <<>>
    PROVE  /\ LastOf(n, all) \in Seq(A) /\ LastOf(n, all) # <<>>
           /\ LastOf(n, all)[Len(LastOf(n, all))] = all[Len(all)]
           /\ \E d \in Nat :
                 /\ Len(all) = Len(LastOf(n, all)) + d
                 /\ \A i \in DOMAIN LastOf(n, all) : LastOf(n, all)[i] = all[i + d]
<1>1. CASE Len(all) <= n
  <2>1. LastOf(n, all) = all /\ Len(all) \in Nat
    BY <1>1 DEF LastOf
  <2>2. Len(all) = Len(all) + 0 /\ \A i \in DOMAIN all : all[i] = all[i + 0]
    BY <2>1
  <2> QED BY <2>1, <2>2
<1>2. CASE Len(all) > n
  <2>1. LastOf(n, all) = SubSeq(all, Len(all) - n + 1, Len(all))
    BY <1>2 DEF LastOf
  <2>2. /\ Len(all) \in Nat /\ Len(all) - n \in Nat
        /\ Len(all) - n + 1 \in 1 .. Len(all) + 1 /\ Len(all) \in Nat
    BY <1>2
  <2>3. /\ LastOf(n, all) \in Seq(A) /\ Len(LastOf(n, all)) = n
        /\ \A i \in 1 .. n : LastOf(n, all)[i] = all[i + (Len(all) - n)]
    BY <2>1, <2>2
  <2>4. n + (Len(all) - n) = Len(all) /\ n \in 1 .. n
    BY <2>2
  <2>5. LastOf(n, all)[n] = all[Len(all)] /\ DOMAIN LastOf(n, all) = 1 .. n /\ LastOf(n, all) # <<>>
    BY <2>3, <2>4
  <2> QED BY <2>2, <2>3, <2>4, <2>5
<1> QED BY <1>1, <1>2

LEMMA PushedFacts ==
    ASSUME NEW q \in Seq(Entry), NEW e \in Entry, Increasing(q), \A c \in ToSet(q) : c.num < e.num
    PROVE  /\ Pushed(q, e) \in Seq(Entry) /\ Pushed(q, e) # <<>>
           /\ Pushed(q, e)[Len(Pushed(q, e))] = e
           /\ ToSet(Pushed(q, e)) \subseteq ToSet(q) \cup {e} /\ e \in ToSet(Pushed(q, e))
           /\ Increasing(Pushed(q, e))
           /\ \A c \in ToSet(q) :
                 \/ c \in ToSet(Pushed(q, e))
                 \/ c.kind = "patch" /\ e.kind = "patch"
                 \/ \A o \in ToSet(Pushed(q, e)) : c.num < o.num
<1> DEFINE S == {c \in ToSet(q) : ~(c.kind = "patch" /\ e.kind = "patch")}
           o == Among(q, S)
           w == Append(o, e)
           r == LastOf(MaxReplay, w)
<1>1. Pushed(q, e) = r
  BY DEF Pushed
<1>2. /\ o \in Seq(Entry) /\ ToSet(o) = ToSet(q) \cap S
      /\ \E f \in [DOMAIN o -> DOMAIN q] :
            /\ \A k \in DOMAIN o : o[k] = q[f[k]]
            /\ \A j, k \in DOMAIN o : j < k => f[j] < f[k]
  BY AmongFacts
<1> HIDE DEF o
<1>3. Increasing(o) /\ \A c \in ToSet(o) : c.num < e.num
  BY <1>2 DEF Increasing
<1>4. /\ w \in Seq(Entry) /\ Len(w) = Len(o) + 1 /\ Len(o) \in Nat /\ w[Len(w)] = e /\ w # <<>>
      /\ \A i \in 1 .. Len(o) : w[i] = o[i]
  BY <1>2, SMTT(30)
<1> HIDE DEF w
<1>5. \A i, j \in 1 .. Len(w) : i < j => w[i].num < w[j].num
  <2>1. \A i \in 1 .. Len(o) : o[i] \in ToSet(o) /\ i \in DOMAIN o
    BY <1>2 DEF ToSet
  <2> QED BY <1>3, <1>4, <2>1 DEF Increasing
<1>6. ToSet(w) = ToSet(o) \cup {e}
  <2>1. DOMAIN w = 1 .. Len(w) /\ DOMAIN o = 1 .. Len(o)
    BY <1>2, <1>4
  <2> QED BY <1>4, <2>1 DEF ToSet
<1>7. /\ r \in Seq(Entry) /\ r # <<>> /\ r[Len(r)] = w[Len(w)]
      /\ \E d \in Nat : Len(w) = Len(r) + d /\ \A i \in DOMAIN r : r[i] = w[i + d]
  BY <1>4, LastOfFacts, ReplayAssumption, SMTT(30)
<1>8. PICK d \in Nat : Len(w) = Len(r) + d /\ \A i \in DOMAIN r : r[i] = w[i + d]
  BY <1>7
<1> HIDE DEF r
<1>9. DOMAIN r = 1 .. Len(r) /\ DOMAIN w = 1 .. Len(w) /\ Len(r) \in Nat /\ Len(w) \in Nat
  BY <1>4, <1>7
<1>10. Increasing(r) /\ ToSet(r) \subseteq ToSet(w)
  <2>1. \A i \in 1 .. Len(r) : i + d \in 1 .. Len(w) /\ r[i] = w[i + d]
    BY <1>8, <1>9
  <2>2. ToSet(r) \subseteq ToSet(w)
    BY <1>9, <2>1 DEF ToSet
  <2>3. ASSUME NEW i \in 1 .. Len(r), NEW j \in 1 .. Len(r), i < j
        PROVE  r[i].num < r[j].num
    <3>1. i + d < j + d
      BY <2>3
    <3> QED BY <1>5, <2>1, <3>1
  <2> QED BY <1>9, <2>2, <2>3 DEF Increasing
<1>11. e \in ToSet(r)
  BY <1>4, <1>7, <1>9 DEF ToSet
<1>12. ASSUME NEW c \in ToSet(w), c \notin ToSet(r), NEW x \in ToSet(r)
       PROVE  c.num < x.num
  <2>1. PICK i \in 1 .. Len(w) : c = w[i]
    BY <1>9 DEF ToSet
  <2>2. PICK j \in 1 .. Len(r) : x = r[j]
    BY <1>9 DEF ToSet
  <2>3. i <= d
    <3>1. CASE i > d
      <4>1. i - d \in 1 .. Len(r)
        BY <1>8, <1>9, <2>1, <3>1
      <4>2. r[i - d] = w[i - d + d] /\ i - d + d = i
        BY <1>8, <1>9, <4>1
      <4> QED BY <1>9, <1>12, <2>1, <4>1, <4>2 DEF ToSet
    <3> QED BY <1>9, <2>1, <3>1
  <2>4. j + d \in 1 .. Len(w) /\ i < j + d /\ x = w[j + d]
    BY <1>8, <1>9, <2>1, <2>2, <2>3
  <2> QED BY <1>5, <2>1, <2>4
<1> QED BY <1>1, <1>2, <1>4, <1>6, <1>7, <1>10, <1>11, <1>12

\* A buffer that misses nothing misses nothing with the next event either.
LEMMA PushedWhole ==
    ASSUME NEW q \in Seq(Entry), NEW e \in Entry, Increasing(q), \A c \in ToSet(q) : c.num < e.num,
           \A c \in ToSet(q) \cup {e} : c.num = c.event - 1,
           Whole(q, e.event - 1)
    PROVE  Whole(Pushed(q, e), e.event)
<1> DEFINE r == Pushed(q, e)
<1>1. /\ ToSet(r) \subseteq ToSet(q) \cup {e} /\ e \in ToSet(r)
      /\ \A c \in ToSet(q) :
            \/ c \in ToSet(r)
            \/ c.kind = "patch" /\ e.kind = "patch"
            \/ \A o \in ToSet(r) : c.num < o.num
  BY PushedFacts
<1> HIDE DEF r
<1>2. \A c \in ToSet(q) \cup {e} : c \in Entry
  BY DEF ToSet
<1>3. ASSUME NEW c \in ToSet(r), NEW k \in Nat, c.event <= k, k <= e.event
      PROVE  Covers(r, k)
  <2>1. CASE k = e.event
    BY <1>1, <2>1 DEF Covers
  <2>2. CASE k # e.event
    <3>1. c \in ToSet(q) /\ k <= e.event - 1 /\ k < e.event /\ e.event \in Nat
      BY <1>1, <1>2, <1>3, <2>2 DEF Entry
    <3>2. PICK b \in ToSet(q) : b.event = k \/ (b.kind = "patch" /\ b.event > k)
      BY <1>3, <3>1 DEF Whole, Covers
    <3>3. CASE b \in ToSet(r)
      BY <3>2, <3>3 DEF Covers
    <3>4. CASE e.kind = "patch"
      BY <1>1, <3>1, <3>4 DEF Covers
    <3>5. CASE \A o \in ToSet(r) : b.num < o.num
      <4>1. b.num < c.num /\ b.num = b.event - 1 /\ c.num = c.event - 1
        BY <1>1, <1>3, <3>1, <3>2, <3>5
      <4>2. b.event < c.event /\ b.event \in Nat /\ c.event \in Nat
        BY <1>2, <3>1, <3>2, <4>1 DEF Entry
      <4> QED BY <1>3, <3>2, <4>2
    <3> QED BY <1>1, <3>2, <3>3, <3>4, <3>5
  <2> QED BY <2>1, <2>2
<1> QED BY <1>3 DEF Whole, r

-----------------------------------------------------------------------------
(* What the steps have in common.                                          *)

\* A session whose entries stay where they are.
Same(v) ==
    /\ kept'[v] = kept[v] /\ nextNum'[v] = nextNum[v] /\ emitted'[v] = emitted[v]
    /\ wire'[v] = wire[v] /\ tile'[v] = tile[v] /\ snapshot'[v] = snapshot[v]
    /\ through'[v] = through[v] /\ held'[v] = held[v] /\ drawn'[v] = drawn[v]

LEMMA SameKeeps ==
    ASSUME NEW v \in Sid, ThreadInv(v), Same(v), cut \subseteq cut', StageInv(v)'
    PROVE  ThreadInv(v)'
<1> USE DEF Same
<1>1. Copies(v)' = Copies(v) /\ OnWire(v)' = OnWire(v)
  BY DEF Copies, OnWire
<1>2. OnceInv(v)'
  BY <1>1 DEF ThreadInv, OnceInv
<1>3. ASSUME v \notin cut'
      PROVE  OrderInv(v)' /\ WholeInv(v)'
  <2>1. OrderInv(v) /\ WholeInv(v)
    BY <1>3 DEF ThreadInv
  <2>2. OrderInv(v)'
    BY <1>1, <2>1 DEF OrderInv
  <2>3. WholeInv(v)'
    BY <1>1, <2>1 DEF WholeInv, ToCome
  <2> QED BY <2>2, <2>3
<1> QED BY <1>2, <1>3 DEF ThreadInv

\* A session whose buffer is dropped.
LEMMA DroppedKeeps ==
    ASSUME NEW v \in Sid, ThreadInv(v), v \in cut', StageInv(v)',
           kept'[v] = <<>>, nextNum'[v] = 0, emitted'[v] = emitted[v],
           wire'[v] = wire[v], tile'[v] = tile[v], snapshot'[v] = snapshot[v],
           through'[v] = through[v], held'[v] = held[v], drawn'[v] = drawn[v]
    PROVE  ThreadInv(v)'
<1>1. ToSet(kept'[v]) = {}
  BY DEF ToSet
<1>2. Copies(v)' \subseteq Copies(v)
  BY <1>1 DEF Copies, OnWire
<1>3. Increasing(kept[v])'
  BY DEF Increasing
<1>4. OnceInv(v)'
  BY <1>1, <1>2, <1>3 DEF ThreadInv, OnceInv
<1> QED BY <1>4 DEF ThreadInv

LEMMA EvictedFacts ==
    ASSUME ReplayInv, NEW s \in Sid
    PROVE  /\ Evicted(s) \subseteq early /\ s \notin Evicted(s)
           /\ Evicted(s) # {} => s \notin early /\ life[s] # "listed"
           /\ life[s] # "listed" =>
                 /\ IsFiniteSet((early \ Evicted(s)) \cup {s})
                 /\ Cardinality((early \ Evicted(s)) \cup {s}) <= MaxEarly
<1>1. IsFiniteSet(early) /\ Cardinality(early) \in Nat /\ Cardinality(early) <= MaxEarly
  BY FS_CardinalityType DEF ReplayInv, EarlyInv
<1>2. CASE life[s] # "listed" /\ s \notin early /\ Cardinality(early) >= MaxEarly
  <2> DEFINE v == CHOOSE v \in early : \A w \in early : v <= w
  <2>1. early \subseteq Nat /\ early # {}
    <3>1. Cardinality(early) # 0
      BY <1>1, <1>2, ReplayAssumption
    <3>2. early # {}
      BY <3>1, FS_EmptySet
    <3> QED BY <3>2 DEF ReplayInv, AppShape, Sid
  <2>2. \E w \in early : \A u \in early : w <= u
    BY <2>1, Least
  <2>3. v \in early
    BY <2>2
  <2>4. Evicted(s) = {v}
    BY <1>2 DEF Evicted
  <2> HIDE DEF v
  <2>5. IsFiniteSet(early \ {v}) /\ Cardinality(early \ {v}) = Cardinality(early) - 1
    BY <1>1, <2>3, FS_RemoveElement
  <2>6. /\ IsFiniteSet((early \ {v}) \cup {s})
        /\ Cardinality((early \ {v}) \cup {s}) = Cardinality(early \ {v}) + 1
    BY <1>2, <2>5, FS_AddElement
  <2> QED BY <1>1, <1>2, <2>3, <2>4, <2>5, <2>6
<1>3. CASE ~(life[s] # "listed" /\ s \notin early /\ Cardinality(early) >= MaxEarly)
  <2>1. Evicted(s) = {}
    BY <1>3 DEF Evicted
  <2>2. ASSUME life[s] # "listed"
        PROVE  IsFiniteSet(early \cup {s}) /\ Cardinality(early \cup {s}) <= MaxEarly
    <3>1. CASE s \in early
      <4>1. early \cup {s} = early
        BY <3>1
      <4> QED BY <1>1, <4>1
    <3>2. CASE s \notin early
      <4>1. IsFiniteSet(early \cup {s}) /\ Cardinality(early \cup {s}) = Cardinality(early) + 1
        BY <1>1, <3>2, FS_AddElement
      <4>2. Cardinality(early) < MaxEarly
        BY <1>1, <1>3, <2>2, <3>2, ReplayAssumption
      <4> QED BY <1>1, <4>1, <4>2, ReplayAssumption
    <3> QED BY <3>1, <3>2
  <2> QED BY <2>1, <2>2
<1> QED BY <1>2, <1>3

-----------------------------------------------------------------------------
(* The application.                                                        *)

LEMMA EmitFacts ==
    ASSUME ReplayInv, NEW s \in Sid, NEW t \in Emitter, NEW kind \in {"said", "patch"},
           Emit(s, t, kind), NEW e,
           e = [num |-> nextNum[s], event |-> emitted[s] + 1, by |-> t, kind |-> kind]
    PROVE  /\ e \in Entry /\ e # Silent /\ e.num = nextNum[s] /\ e.event = emitted[s] + 1 /\ e.by = t
           /\ life[s] # "unborn" /\ s \notin over /\ wire[s][t] = Silent
           /\ emitted' \in [Sid -> Nat] /\ emitted'[s] = emitted[s] + 1
           /\ \A v \in Sid \ {s} : emitted'[v] = emitted[v]
           /\ early' = IF life[s] = "listed" THEN early ELSE (early \ Evicted(s)) \cup {s}
           /\ kept' \in [Sid -> Seq(Entry)] /\ kept'[s] = Pushed(kept[s], e)
           /\ \A v \in Sid \ {s} : kept'[v] = IF v \in Evicted(s) THEN <<>> ELSE kept[v]
           /\ nextNum' \in [Sid -> Nat] /\ nextNum'[s] = nextNum[s] + 1
           /\ \A v \in Sid \ {s} : nextNum'[v] = IF v \in Evicted(s) THEN 0 ELSE nextNum[v]
           /\ cut' = cut \cup Evicted(s)
           /\ wire' \in [Sid -> [Emitter -> Entry \cup {Silent}]] /\ wire'[s][t] = e
           /\ \A u \in Emitter \ {t} : wire'[s][u] = wire[s][u]
           /\ \A v \in Sid \ {s} : wire'[v] = wire[v]
           /\ UNCHANGED <<life, over, window>>
<1> USE DEF ReplayInv
<1>1. nextNum[s] \in Nat /\ emitted[s] \in Nat /\ emitted[s] + 1 \in Nat \ {0}
  BY DEF AppShape
<1>2. e \in Entry /\ e.num = nextNum[s] /\ e.event = emitted[s] + 1 /\ e.by = t
  BY <1>1 DEF Entry
<1>3. e # Silent
  BY <1>1, <1>2 DEF Silent
<1>4. /\ life[s] # "unborn" /\ s \notin over /\ wire[s][t] = Silent
      /\ emitted' = [emitted EXCEPT ![s] = @ + 1]
      /\ early' = IF life[s] = "listed" THEN early ELSE (early \ Evicted(s)) \cup {s}
      /\ kept' = [v \in Sid |-> IF v = s THEN Pushed(kept[s], e)
                                ELSE IF v \in Evicted(s) THEN <<>> ELSE kept[v]]
      /\ nextNum' = [v \in Sid |-> IF v = s THEN nextNum[s] + 1
                                   ELSE IF v \in Evicted(s) THEN 0 ELSE nextNum[v]]
      /\ cut' = cut \cup Evicted(s)
      /\ wire' = [wire EXCEPT ![s][t] = e]
      /\ UNCHANGED <<life, over, window>>
  BY DEF Emit
<1>5. Pushed(kept[s], e) \in Seq(Entry)
  <2>1. kept[s] \in Seq(Entry) /\ Increasing(kept[s]) /\ \A c \in ToSet(kept[s]) : c.num < e.num
    BY <1>2 DEF AppShape, ThreadInv, OnceInv
  <2> QED BY <1>2, <2>1, PushedFacts
<1>6. kept' \in [Sid -> Seq(Entry)]
  <2>1. \A v \in Sid : kept'[v] \in Seq(Entry)
    BY <1>4, <1>5 DEF AppShape
  <2> QED BY <1>4, <2>1
<1>7. nextNum' \in [Sid -> Nat] /\ emitted' \in [Sid -> Nat]
  BY <1>1, <1>4 DEF AppShape
<1>8. /\ wire' \in [Sid -> [Emitter -> Entry \cup {Silent}]] /\ wire'[s][t] = e
      /\ \A u \in Emitter \ {t} : wire'[s][u] = wire[s][u]
      /\ \A v \in Sid \ {s} : wire'[v] = wire[v]
  BY <1>2, <1>4 DEF AppShape
<1> QED BY <1>1, <1>2, <1>3, <1>4, <1>6, <1>7, <1>8 DEF AppShape

LEMMA EmitOwn ==
    ASSUME ReplayInv, NEW s \in Sid, NEW t \in Emitter, NEW kind \in {"said", "patch"},
           Emit(s, t, kind)
    PROVE  ThreadInv(s)'
<1> DEFINE e == [num |-> nextNum[s], event |-> emitted[s] + 1, by |-> t, kind |-> kind]
<1>1. /\ e \in Entry /\ e # Silent /\ e.num = nextNum[s] /\ e.event = emitted[s] + 1 /\ e.by = t
      /\ life[s] # "unborn" /\ s \notin over /\ wire[s][t] = Silent
      /\ emitted'[s] = emitted[s] + 1
      /\ early' = IF life[s] = "listed" THEN early ELSE (early \ Evicted(s)) \cup {s}
      /\ kept'[s] = Pushed(kept[s], e)
      /\ nextNum'[s] = nextNum[s] + 1
      /\ cut' = cut \cup Evicted(s)
      /\ wire'[s][t] = e /\ \A u \in Emitter \ {t} : wire'[s][u] = wire[s][u]
      /\ UNCHANGED <<life, over, window>>
  BY EmitFacts
<1> HIDE DEF e
<1>2. /\ UNCHANGED <<tile, listening>> /\ snapshot'[s] = snapshot[s] /\ through'[s] = through[s]
      /\ held'[s] = held[s] /\ drawn'[s] = drawn[s]
  BY <1>1 DEF window
<1>3. /\ s \notin Evicted(s) /\ nextNum[s] \in Nat /\ emitted[s] \in Nat
      /\ kept[s] \in Seq(Entry) /\ ThreadInv(s) /\ StageInv(s) /\ OnceInv(s)
  BY EvictedFacts DEF ReplayInv, AppShape, ThreadInv
<1>4. /\ Pushed(kept[s], e) # <<>> /\ Pushed(kept[s], e)[Len(Pushed(kept[s], e))] = e
      /\ ToSet(Pushed(kept[s], e)) \subseteq ToSet(kept[s]) \cup {e}
      /\ Increasing(Pushed(kept[s], e))
  <2>1. Increasing(kept[s]) /\ \A c \in ToSet(kept[s]) : c.num < e.num
    BY <1>1, <1>3 DEF OnceInv
  <2> QED BY <1>1, <1>3, <2>1, PushedFacts
<1>5. OnWire(s)' = OnWire(s) \cup {e}
  BY <1>1 DEF OnWire
<1>6. Copies(s)' \subseteq Copies(s) \cup {e}
  BY <1>1, <1>2, <1>4, <1>5 DEF Copies
<1>7. \A c \in Copies(s) : c.event \in Nat /\ c.event <= emitted[s] /\ c.event < e.event /\ c # e
  <2>1. \A c \in Copies(s) : c \in Entry
    BY DEF Copies, OnWire, ReplayInv, AppShape, WindowShape, ToSet
  <2> QED BY <1>1, <1>3, <2>1 DEF OnceInv, Entry
<1>8. ToSet(kept[s]) \subseteq Copies(s) /\ ToSet(held[s]) \subseteq Copies(s)
      /\ ToSet(drawn[s]) \subseteq Copies(s)
  BY DEF Copies
<1>9. StageInv(s)'
  BY <1>1, <1>2, <1>3 DEF StageInv
<1>10. OnceInv(s)'
  <2>1. \A c \in Copies(s)' : c.event <= emitted'[s]
    BY <1>1, <1>3, <1>6, <1>7
  <2>2. \A c, f \in Copies(s)' : c.event = f.event => c = f
    BY <1>1, <1>3, <1>6, <1>7 DEF OnceInv
  <2>3. Increasing(kept[s])' /\ \A c \in ToSet(kept'[s]) : c.num < nextNum'[s]
    <3>0. \A c \in ToSet(kept[s]) : c \in Entry
      BY <1>3 DEF ToSet
    <3>1. \A c \in ToSet(kept[s]) : c.num \in Nat /\ c.num < nextNum[s]
      BY <1>3, <3>0 DEF OnceInv, Entry
    <3> QED BY <1>1, <1>3, <1>4, <3>1
  <2>4. Increasing(snapshot[s])' /\ IsInjective(held[s])' /\ IsInjective(drawn[s])'
    BY <1>2, <1>3 DEF OnceInv
  <2>5. ASSUME NEW u \in Emitter, wire'[s][u] # Silent
        PROVE  /\ wire'[s][u].by = u /\ wire'[s][u] \notin ToSet(held'[s])
               /\ wire'[s][u] \in ToSet(drawn'[s]) => wire'[s][u].num <= through'[s]
    <3>1. CASE u = t
      BY <1>1, <1>2, <1>7, <1>8, <3>1
    <3>2. CASE u # t
      BY <1>1, <1>2, <1>3, <2>5, <3>2 DEF OnceInv
    <3> QED BY <3>1, <3>2
  <2> QED BY <2>1, <2>2, <2>3, <2>4, <2>5 DEF OnceInv
<1>11. ASSUME s \notin cut'
       PROVE  OrderInv(s)' /\ WholeInv(s)'
  <2>1. OrderInv(s) /\ WholeInv(s)
    BY <1>1, <1>3, <1>11 DEF ThreadInv
  <2>2. nextNum[s] = emitted[s] /\ \A c \in Copies(s) \cup {e} : c.num = c.event - 1
    BY <1>1, <1>3, <2>1 DEF OrderInv
  <2>3. OrderInv(s)'
    <3>1. nextNum'[s] = emitted'[s] /\ \A c \in Copies(s)' : c.num = c.event - 1
      BY <1>1, <1>6, <2>2
    <3>2. InOrder(held[s])' /\ InOrder(drawn[s])'
      BY <1>2, <2>1 DEF OrderInv
    <3>3. ASSUME NEW u \in Emitter, wire'[s][u] # Silent
          PROVE  /\ \A c \in ToSet(held'[s]) : c.by = u => c.event < wire'[s][u].event
                 /\ wire'[s][u].num > through'[s] =>
                       \A c \in ToSet(drawn'[s]) : c.by = u => c.event < wire'[s][u].event
      <4>1. CASE u = t
        BY <1>1, <1>2, <1>7, <1>8, <4>1
      <4>2. CASE u # t
        BY <1>1, <1>2, <2>1, <3>3, <4>2 DEF OrderInv
      <4> QED BY <4>1, <4>2
    <3> QED BY <3>1, <3>2, <3>3 DEF OrderInv
  <2>4. Newest(kept[s])' = emitted'[s]
    BY <1>1, <1>4 DEF Newest
  <2>5. Whole(kept[s], emitted[s])'
    <3>1. Whole(kept[s], e.event - 1)
      <4>1. e.event - 1 = emitted[s]
        BY <1>1, <1>3
      <4> QED BY <2>1, <4>1 DEF WholeInv
    <3>2. Increasing(kept[s]) /\ \A c \in ToSet(kept[s]) : c.num < e.num
      BY <1>1, <1>3 DEF OnceInv
    <3>3. \A c \in ToSet(kept[s]) \cup {e} : c.num = c.event - 1
      BY <1>8, <2>2
    <3>4. Whole(Pushed(kept[s], e), e.event)
      BY <1>1, <1>3, <3>1, <3>2, <3>3, PushedWhole
    <3> QED BY <1>1, <3>4
  <2>6. ASSUME NEW q, NEW n, ToCome(s, q, n)
        PROVE  \A k \in Nat : n < k /\ k <= emitted'[s] =>
                   \E c \in ToSet(q) \cup OnWire(s)' : c.event = k
    <3>1. ASSUME NEW k \in Nat, n < k, k <= emitted'[s]
          PROVE  \E c \in ToSet(q) \cup OnWire(s)' : c.event = k
      <4>1. CASE k = emitted[s] + 1
        BY <1>1, <1>5, <4>1
      <4>2. CASE k # emitted[s] + 1
        <5>1. k <= emitted[s]
          BY <1>1, <1>3, <3>1, <4>2
        <5> QED BY <1>5, <2>6, <3>1, <5>1 DEF ToCome
      <4> QED BY <4>1, <4>2
    <3> QED BY <3>1
  <2>7. tile[s] = "answered" => ToCome(s, held[s], Newest(snapshot[s]))'
    BY <1>2, <2>1, <2>6 DEF WholeInv, ToCome
  <2>8. tile[s] = "claimed" => ToCome(s, drawn[s], through[s] + 1)'
    BY <1>2, <2>1, <2>6 DEF WholeInv, ToCome
  <2>9. WholeInv(s)'
    BY <1>2, <2>1, <2>4, <2>5, <2>7, <2>8 DEF WholeInv
  <2> QED BY <2>3, <2>9
<1> QED BY <1>9, <1>10, <1>11 DEF ThreadInv

LEMMA EmitKeeps ==
    ASSUME ReplayInv, NEW s \in Sid, NEW t \in Emitter, NEW kind \in {"said", "patch"},
           Emit(s, t, kind)
    PROVE  ReplayInv'
<1> DEFINE e == [num |-> nextNum[s], event |-> emitted[s] + 1, by |-> t, kind |-> kind]
<1>1. /\ e \in Entry /\ life[s] # "unborn" /\ s \notin over
      /\ emitted' \in [Sid -> Nat] /\ \A v \in Sid \ {s} : emitted'[v] = emitted[v]
      /\ early' = IF life[s] = "listed" THEN early ELSE (early \ Evicted(s)) \cup {s}
      /\ kept' \in [Sid -> Seq(Entry)]
      /\ \A v \in Sid \ {s} : kept'[v] = IF v \in Evicted(s) THEN <<>> ELSE kept[v]
      /\ nextNum' \in [Sid -> Nat]
      /\ \A v \in Sid \ {s} : nextNum'[v] = IF v \in Evicted(s) THEN 0 ELSE nextNum[v]
      /\ cut' = cut \cup Evicted(s)
      /\ wire' \in [Sid -> [Emitter -> Entry \cup {Silent}]]
      /\ \A v \in Sid \ {s} : wire'[v] = wire[v]
      /\ UNCHANGED <<life, over, window>>
  BY EmitFacts
<1>2. /\ Evicted(s) \subseteq early /\ s \notin Evicted(s)
      /\ Evicted(s) # {} => s \notin early /\ life[s] # "listed"
      /\ life[s] # "listed" =>
            /\ IsFiniteSet((early \ Evicted(s)) \cup {s})
            /\ Cardinality((early \ Evicted(s)) \cup {s}) <= MaxEarly
  BY EvictedFacts
<1>3. UNCHANGED <<life, over, listening, tile, snapshot, through, held, heldOrder, drawn, reloads>>
  BY <1>1 DEF window
<1>4. AppShape /\ WindowShape /\ EarlyInv /\ early \subseteq Sid /\ cut \subseteq Sid
  BY DEF ReplayInv, AppShape
<1>5. AppShape'
  BY <1>1, <1>2, <1>3, <1>4 DEF AppShape
<1>6. WindowShape'
  BY <1>3, <1>4 DEF WindowShape
<1>7. EarlyInv'
  <2>1. (ToSet(heldOrder) = {v \in Sid : held[v] # <<>>} /\ IsInjective(heldOrder))'
    BY <1>3, <1>4 DEF EarlyInv
  <2>2. IsFiniteSet(early') /\ Cardinality(early') <= MaxEarly
    BY <1>1, <1>2, <1>4 DEF EarlyInv
  <2> QED BY <2>1, <2>2 DEF EarlyInv
<1>8. ASSUME NEW v \in Sid
      PROVE  ThreadInv(v)'
  <2>1. CASE v = s
    BY <2>1, EmitOwn
  <2>2. ThreadInv(v) /\ StageInv(v)
    BY DEF ReplayInv, ThreadInv
  <2>3. CASE v # s /\ v \in Evicted(s)
    <3>1. /\ kept'[v] = <<>> /\ nextNum'[v] = 0 /\ emitted'[v] = emitted[v] /\ wire'[v] = wire[v]
          /\ v \in cut' /\ v \notin early'
      BY <1>1, <1>2, <2>3
    <3>2. StageInv(v)'
      BY <1>2, <1>3, <2>2, <2>3, <3>1 DEF StageInv
    <3> QED BY <1>3, <2>2, <3>1, <3>2, DroppedKeeps
  <2>4. CASE v # s /\ v \notin Evicted(s)
    <3>1. /\ kept'[v] = kept[v] /\ nextNum'[v] = nextNum[v] /\ emitted'[v] = emitted[v]
          /\ wire'[v] = wire[v] /\ (v \in early' <=> v \in early) /\ cut \subseteq cut'
      BY <1>1, <1>2, <2>4
    <3>2. StageInv(v)'
      BY <1>3, <2>2, <3>1 DEF StageInv
    <3>3. Same(v)
      BY <1>3, <3>1 DEF Same
    <3> QED BY <2>2, <3>1, <3>2, <3>3, SameKeeps
  <2> QED BY <2>1, <2>3, <2>4
<1> QED BY <1>5, <1>6, <1>7, <1>8 DEF ReplayInv

LEMMA OpensKeep ==
    ASSUME ReplayInv, NEW s \in Sid, BeginOpen(s) \/ Exit(s) \/ DropEntry(s)
    PROVE  ReplayInv'
<1>1. UNCHANGED <<emitted, wire, early, listening, tile, snapshot, through, held, heldOrder, drawn>>
  BY DEF BeginOpen, Exit, DropEntry, window
<1>2. /\ AppShape /\ WindowShape /\ EarlyInv
      /\ \A v \in Sid : ThreadInv(v) /\ StageInv(v)
  BY DEF ReplayInv, ThreadInv
<1>3. WindowShape' /\ EarlyInv'
  BY <1>1, <1>2 DEF WindowShape, EarlyInv
<1>4. CASE DropEntry(s)
  <2>1. /\ life[s] = "listed" /\ life' \in [Sid -> {"unborn", "opening", "listed", "closed"}]
        /\ life'[s] = "closed" /\ \A v \in Sid \ {s} : life'[v] = life[v]
        /\ kept' \in [Sid -> Seq(Entry)] /\ kept'[s] = <<>>
        /\ \A v \in Sid \ {s} : kept'[v] = kept[v]
        /\ nextNum' \in [Sid -> Nat] /\ nextNum'[s] = 0
        /\ \A v \in Sid \ {s} : nextNum'[v] = nextNum[v]
        /\ cut' = cut \cup {s} /\ over' = over
    BY <1>2, <1>4 DEF DropEntry, AppShape
  <2>2. AppShape'
    BY <1>1, <1>2, <2>1 DEF AppShape
  <2>3. ASSUME NEW v \in Sid
        PROVE  ThreadInv(v)'
    <3>1. CASE v = s
      <4>1. StageInv(v)'
        BY <1>1, <1>2, <2>1, <3>1 DEF StageInv
      <4>2. v \in cut'
        BY <2>1, <3>1
      <4> QED BY <1>1, <1>2, <2>1, <3>1, <4>1, <4>2, DroppedKeeps
    <3>2. CASE v # s
      <4>1. StageInv(v)'
        BY <1>1, <1>2, <2>1, <3>2 DEF StageInv
      <4>2. Same(v)
        BY <1>1, <2>1, <3>2 DEF Same
      <4> QED BY <1>2, <2>1, <4>1, <4>2, SameKeeps
    <3> QED BY <3>1, <3>2
  <2> QED BY <1>3, <2>2, <2>3 DEF ReplayInv
<1>5. CASE BeginOpen(s) \/ Exit(s)
  <2>1. /\ UNCHANGED <<kept, nextNum, cut>>
        /\ life' \in [Sid -> {"unborn", "opening", "listed", "closed"}]
        /\ over' \subseteq Sid
    BY <1>2, <1>5 DEF BeginOpen, Exit, AppShape
  <2>2. AppShape'
    BY <1>1, <1>2, <2>1 DEF AppShape
  <2>3. ASSUME NEW v \in Sid
        PROVE  ThreadInv(v)'
    <3>1. StageInv(v)'
      <4>1. StageInv(v) /\ life \in [Sid -> {"unborn", "opening", "listed", "closed"}]
        BY <1>2 DEF AppShape
      <4>2. CASE Exit(s)
        <5>1. life' = life /\ life[s] # "unborn" /\ over' = over \cup {s}
          BY <4>2 DEF Exit
        <5> QED BY <1>1, <2>1, <4>1, <5>1 DEF StageInv
      <4>3. CASE BeginOpen(s)
        <5>1. /\ over' = over /\ life[s] = "unborn" /\ life'[s] = "opening"
              /\ \A u \in Sid \ {s} : life'[u] = life[u]
          BY <4>1, <4>3 DEF BeginOpen
        <5>2. CASE v = s
          BY <1>1, <2>1, <4>1, <5>1, <5>2 DEF StageInv
        <5>3. CASE v # s
          BY <1>1, <2>1, <4>1, <5>1, <5>3 DEF StageInv
        <5> QED BY <5>2, <5>3
      <4> QED BY <1>5, <4>2, <4>3
    <3>2. Same(v)
      BY <1>1, <2>1 DEF Same
    <3> QED BY <1>2, <2>1, <3>1, <3>2, SameKeeps
  <2> QED BY <1>3, <2>2, <2>3 DEF ReplayInv
<1> QED BY <1>4, <1>5

LEMMA FinishOpenKeeps ==
    ASSUME ReplayInv, NEW s \in Sid, FinishOpen(s)
    PROVE  ReplayInv'
<1>1. /\ life[s] = "opening"
      /\ life' = [v \in Sid |-> IF v = s THEN "listed"
                                ELSE IF v \in Pruned(s) /\ life[v] = "listed" THEN "closed"
                                ELSE life[v]]
      /\ early' = early \ (Pruned(s) \cup {s})
      /\ kept' = [v \in Sid |-> IF v \in Pruned(s) THEN <<>> ELSE kept[v]]
      /\ nextNum' = [v \in Sid |-> IF v \in Pruned(s) THEN 0 ELSE nextNum[v]]
      /\ cut' = cut \cup Pruned(s)
      /\ UNCHANGED <<over, emitted, wire, listening, tile, snapshot, through, held, heldOrder, drawn>>
  BY DEF FinishOpen, Forgotten, window
<1>2. /\ AppShape /\ WindowShape /\ EarlyInv
      /\ \A v \in Sid : ThreadInv(v) /\ StageInv(v)
  BY DEF ReplayInv, ThreadInv
<1>3. /\ Pruned(s) \subseteq Sid /\ s \notin Pruned(s)
      /\ \A v \in Pruned(s) : v \in over /\ (v \in early \/ life[v] = "listed")
  BY <1>2 DEF Pruned, AppShape
<1>4. AppShape'
  <2>1. /\ \A v \in Sid : life[v] \in {"unborn", "opening", "listed", "closed"}
        /\ \A v \in Sid : kept[v] \in Seq(Entry) /\ nextNum[v] \in Nat
    BY <1>2 DEF AppShape
  <2>2. life' \in [Sid -> {"unborn", "opening", "listed", "closed"}]
    BY <1>1, <2>1
  <2>3. nextNum' \in [Sid -> Nat]
    BY <1>1, <2>1
  <2>4. <<>> \in Seq(Entry)
    OBVIOUS
  <2>5. kept' \in [Sid -> Seq(Entry)]
    BY <1>1, <2>1, <2>4
  <2> QED BY <1>1, <1>2, <1>3, <2>2, <2>3, <2>5 DEF AppShape
<1>5. WindowShape'
  BY <1>1, <1>2 DEF WindowShape
<1>6. EarlyInv'
  <2>1. IsFiniteSet(early) /\ Cardinality(early) <= MaxEarly
    BY <1>2 DEF EarlyInv
  <2>2. IsFiniteSet(early') /\ Cardinality(early') <= Cardinality(early)
    BY <1>1, <2>1, FS_Subset
  <2>3. Cardinality(early') \in Nat /\ Cardinality(early) \in Nat
    BY <2>1, <2>2, FS_CardinalityType
  <2> QED BY <1>1, <1>2, <2>1, <2>2, <2>3, ReplayAssumption DEF EarlyInv
<1>7. ASSUME NEW v \in Sid
      PROVE  ThreadInv(v)'
  <2>1. CASE v \in Pruned(s)
    <3>1. /\ kept'[v] = <<>> /\ nextNum'[v] = 0 /\ v \in cut' /\ v # s /\ v \notin early'
          /\ life'[v] = IF life[v] = "listed" THEN "closed" ELSE life[v]
      BY <1>1, <1>3, <2>1
    <3>2. StageInv(v)'
      BY <1>1, <1>2, <1>3, <2>1, <3>1 DEF StageInv
    <3> QED BY <1>1, <1>2, <3>1, <3>2, DroppedKeeps
  <2>2. CASE v \notin Pruned(s)
    <3>1. /\ kept'[v] = kept[v] /\ nextNum'[v] = nextNum[v]
          /\ life'[v] = (IF v = s THEN "listed" ELSE life[v])
          /\ v \in early' <=> v \in early /\ v # s
          /\ cut \subseteq cut'
      BY <1>1, <2>2
    <3>2. Same(v)
      BY <1>1, <3>1 DEF Same
    <3>3. StageInv(v)'
      <4>1. CASE v = s
        BY <1>1, <1>2, <3>1, <4>1 DEF StageInv
      <4>2. CASE v # s
        <5>1. v \in cut => v \in cut'
          BY <3>1
        <5> QED BY <1>1, <1>2, <3>1, <4>2, <5>1 DEF StageInv
      <4> QED BY <4>1, <4>2
    <3> QED BY <1>2, <3>1, <3>2, <3>3, SameKeeps
  <2> QED BY <2>1, <2>2
<1> QED BY <1>4, <1>5, <1>6, <1>7 DEF ReplayInv

-----------------------------------------------------------------------------
(* The window.                                                             *)

LEMMA CopiesFacts ==
    ASSUME ReplayInv, NEW s \in Sid
    PROVE  /\ \A c \in Copies(s) : c \in Entry /\ c.num \in Nat /\ c.event \in Nat \ {0}
           /\ ToSet(kept[s]) \subseteq Copies(s) /\ ToSet(snapshot[s]) \subseteq Copies(s)
           /\ ToSet(held[s]) \subseteq Copies(s) /\ ToSet(drawn[s]) \subseteq Copies(s)
           /\ OnWire(s) \subseteq Copies(s)
<1>1. \A c \in Copies(s) : c \in Entry
  BY DEF Copies, OnWire, ReplayInv, AppShape, WindowShape, ToSet
<1>2. \A c \in Entry : c.num \in Nat /\ c.event \in Nat \ {0}
  BY DEF Entry
<1> QED BY <1>1, <1>2 DEF Copies

\* The window lets go of what it had of a session.
LEMMA LetGoKeeps ==
    ASSUME ReplayInv, NEW v \in Sid, StageInv(v)', cut' = cut,
           kept'[v] = kept[v], nextNum'[v] = nextNum[v], emitted'[v] = emitted[v], wire'[v] = wire[v],
           tile'[v] \notin {"answered", "claimed"},
           snapshot'[v] = <<>>, held'[v] = <<>>, drawn'[v] = <<>>
    PROVE  ThreadInv(v)'
<1>1. ThreadInv(v) /\ OnceInv(v)
  BY DEF ReplayInv, ThreadInv
<1>2. ToSet(<<>>) = {}
  BY DEF ToSet
<1>3. Copies(v)' \subseteq Copies(v) /\ OnWire(v)' = OnWire(v)
  BY <1>2 DEF Copies, OnWire
<1>4. Increasing(<<>>) /\ IsInjective(<<>>) /\ InOrder(<<>>)
  BY DEF Increasing, IsInjective, InOrder
<1>5. OnceInv(v)'
  BY <1>1, <1>2, <1>3, <1>4 DEF OnceInv
<1>6. ASSUME v \notin cut'
      PROVE  OrderInv(v)' /\ WholeInv(v)'
  <2>1. OrderInv(v) /\ WholeInv(v)
    BY <1>1, <1>6 DEF ThreadInv
  <2>2. OrderInv(v)'
    BY <1>2, <1>3, <1>4, <2>1 DEF OrderInv
  <2>3. WholeInv(v)'
    BY <2>1 DEF WholeInv
  <2> QED BY <2>2, <2>3
<1> QED BY <1>5, <1>6 DEF ThreadInv

LEMMA ReloadKeeps ==
    ASSUME ReplayInv, Reload
    PROVE  ReplayInv'
<1>1. /\ listening' = FALSE
      /\ tile' = [v \in Sid |-> "none"] /\ through' = [v \in Sid |-> -1]
      /\ snapshot' = [v \in Sid |-> <<>>] /\ held' = [v \in Sid |-> <<>>]
      /\ drawn' = [v \in Sid |-> <<>>] /\ heldOrder' = <<>>
      /\ UNCHANGED <<life, over, early, kept, nextNum, emitted, wire, cut>>
  BY DEF Reload
<1>2. AppShape /\ WindowShape /\ EarlyInv /\ \A v \in Sid : StageInv(v)
  BY DEF ReplayInv, ThreadInv
<1>3. AppShape'
  BY <1>1, <1>2 DEF AppShape
<1>4. WindowShape'
  <2>1. <<>> \in Seq(Entry) /\ <<>> \in Seq(Sid)
    OBVIOUS
  <2>2. snapshot' \in [Sid -> Seq(Entry)] /\ held' \in [Sid -> Seq(Entry)] /\ drawn' \in [Sid -> Seq(Entry)]
    BY <1>1, <2>1
  <2>3. through' \in [Sid -> Nat \cup {-1}] /\ tile' \in [Sid -> {"none", "asked", "answered", "claimed"}]
    BY <1>1
  <2> QED BY <1>1, <2>1, <2>2, <2>3 DEF WindowShape
<1>5. EarlyInv'
  <2>1. ToSet(<<>>) = {} /\ IsInjective(<<>>)
    BY DEF ToSet, IsInjective
  <2>2. ToSet(heldOrder') = {v \in Sid : held'[v] # <<>>}
    BY <1>1, <2>1
  <2> QED BY <1>1, <1>2, <2>1, <2>2 DEF EarlyInv
<1>6. ASSUME NEW v \in Sid
      PROVE  ThreadInv(v)'
  <2>1. StageInv(v)'
    BY <1>1, <1>2 DEF StageInv
  <2> QED BY <1>1, <2>1, LetGoKeeps
<1> QED BY <1>3, <1>4, <1>5, <1>6 DEF ReplayInv

LEMMA AsksKeep ==
    ASSUME ReplayInv, Listen \/ \E s \in Sid : Ask(s)
    PROVE  ReplayInv'
<1>1. /\ UNCHANGED <<life, over, early, kept, nextNum, emitted, wire, cut, snapshot, through, held,
                     heldOrder, drawn>>
      /\ listening' = TRUE /\ tile' \in [Sid -> {"none", "asked", "answered", "claimed"}]
      /\ \A v \in Sid : \/ tile'[v] = tile[v]
                        \/ tile'[v] = "asked" /\ tile[v] = "none" /\ life[v] = "listed"
  BY DEF Listen, Ask, ReplayInv, WindowShape
<1>2. AppShape /\ WindowShape /\ EarlyInv /\ \A v \in Sid : ThreadInv(v) /\ StageInv(v)
  BY DEF ReplayInv, ThreadInv
<1>3. AppShape' /\ WindowShape'
  BY <1>1, <1>2 DEF AppShape, WindowShape
<1>4. EarlyInv'
  BY <1>1, <1>2 DEF EarlyInv
<1>5. ASSUME NEW v \in Sid
      PROVE  ThreadInv(v)'
  <2>1. ~listening => held[v] = <<>>
    BY <1>2 DEF StageInv
  <2>2. StageInv(v)'
    BY <1>1, <1>2, <2>1 DEF StageInv
  <2>3. CASE tile'[v] = tile[v]
    <3>1. Same(v)
      BY <1>1, <2>3 DEF Same
    <3> QED BY <1>1, <1>2, <2>2, <3>1, SameKeeps
  <2>4. CASE tile'[v] = "asked"
    <3>1. Copies(v)' = Copies(v)
      BY <1>1 DEF Copies, OnWire
    <3>2. OnceInv(v)'
      BY <1>1, <1>2, <3>1 DEF ThreadInv, OnceInv
    <3>3. v \notin cut' => OrderInv(v)' /\ WholeInv(v)'
      BY <1>1, <1>2, <2>4, <3>1 DEF ThreadInv, OrderInv, WholeInv
    <3> QED BY <2>2, <3>2, <3>3 DEF ThreadInv
  <2> QED BY <1>1, <2>3, <2>4
<1> QED BY <1>3, <1>4, <1>5 DEF ReplayInv

LEMMA AgentReplayKeeps ==
    ASSUME ReplayInv, NEW s \in Sid, AgentReplay(s)
    PROVE  ReplayInv'
<1>1. AppShape /\ WindowShape /\ EarlyInv /\ \A v \in Sid : ThreadInv(v) /\ StageInv(v)
  BY DEF ReplayInv, ThreadInv
<1>2. /\ UNCHANGED <<life, over, early, kept, nextNum, emitted, wire, cut, listening, through, held,
                     heldOrder, drawn>>
      /\ tile[s] = "asked" /\ tile' = [tile EXCEPT ![s] = "answered"]
      /\ snapshot' = [snapshot EXCEPT ![s] = IF life[s] = "listed" THEN kept[s] ELSE <<>>]
  BY DEF AgentReplay
<1>3. /\ tile' \in [Sid -> {"none", "asked", "answered", "claimed"}]
      /\ tile'[s] = "answered" /\ \A v \in Sid \ {s} : tile'[v] = tile[v]
  BY <1>1, <1>2 DEF WindowShape
<1>4. kept[s] \in Seq(Entry) /\ <<>> \in Seq(Entry) /\ snapshot \in [Sid -> Seq(Entry)]
  BY <1>1 DEF AppShape, WindowShape
<1>5. /\ snapshot' \in [Sid -> Seq(Entry)] /\ \A v \in Sid \ {s} : snapshot'[v] = snapshot[v]
      /\ snapshot'[s] = IF life[s] = "listed" THEN kept[s] ELSE <<>>
  BY <1>2, <1>4
<1>6. AppShape' /\ WindowShape'
  BY <1>1, <1>2, <1>3, <1>5 DEF AppShape, WindowShape
<1>7. EarlyInv'
  BY <1>1, <1>2 DEF EarlyInv
<1>8. ASSUME NEW v \in Sid
      PROVE  ThreadInv(v)'
  <2>1. StageInv(v)'
    BY <1>1, <1>2, <1>3, <1>5 DEF StageInv
  <2>2. CASE v # s
    <3>1. Same(v)
      BY <1>2, <1>3, <1>5, <2>2 DEF Same
    <3> QED BY <1>1, <1>2, <2>1, <3>1, SameKeeps
  <2>3. CASE v = s
    <3>1. ToSet(snapshot'[s]) \subseteq ToSet(kept[s]) /\ Increasing(snapshot[s])'
      <4>1. ToSet(<<>>) = {} /\ Increasing(<<>>)
        BY DEF ToSet, Increasing
      <4>2. Increasing(kept[s])
        BY <1>1 DEF ThreadInv, OnceInv
      <4> QED BY <1>5, <4>1, <4>2
    <3>2. Copies(s)' \subseteq Copies(s) /\ OnWire(s)' = OnWire(s)
      BY <1>2, <3>1 DEF Copies, OnWire
    <3>3. OnceInv(s)'
      BY <1>1, <1>2, <3>1, <3>2 DEF ThreadInv, OnceInv
    <3>4. ASSUME s \notin cut'
          PROVE  OrderInv(s)' /\ WholeInv(s)'
      <4>1. OrderInv(s) /\ WholeInv(s) /\ emitted[s] \in Nat
        BY <1>1, <1>2, <3>4 DEF ThreadInv, AppShape
      <4>2. OrderInv(s)'
        BY <1>2, <3>2, <4>1 DEF OrderInv
      <4>3. life[s] = "listed"
        BY <1>1, <1>2, <3>4 DEF StageInv
      <4>4. snapshot'[s] = kept[s] /\ Newest(snapshot[s])' = emitted[s]
        BY <1>5, <4>1, <4>3 DEF WholeInv, Newest
      <4>5. Whole(snapshot[s], Newest(snapshot[s]))'
        BY <4>1, <4>4 DEF WholeInv
      <4>6. ToCome(s, held[s], Newest(snapshot[s]))'
        BY <1>2, <4>1, <4>4 DEF ToCome
      <4> QED BY <1>2, <1>3, <4>1, <4>2, <4>5, <4>6 DEF WholeInv
    <3> QED BY <2>1, <2>3, <3>3, <3>4 DEF ThreadInv
  <2> QED BY <2>2, <2>3
<1> QED BY <1>6, <1>7, <1>8 DEF ReplayInv

LEMMA ConcatFacts ==
    ASSUME NEW A, NEW p \in Seq(A), NEW q \in Seq(A)
    PROVE  /\ p \o q \in Seq(A) /\ ToSet(p \o q) = ToSet(p) \cup ToSet(q)
           /\ IsInjective(p) /\ IsInjective(q) /\ ToSet(p) \cap ToSet(q) = {} => IsInjective(p \o q)
           /\ (InOrder(p) /\ InOrder(q)
                 /\ \A a \in ToSet(p), b \in ToSet(q) : a.by = b.by => a.event < b.event)
                 => InOrder(p \o q)
<1> DEFINE r == p \o q
<1>1. /\ r \in Seq(A) /\ Len(p) \in Nat /\ Len(q) \in Nat /\ Len(r) = Len(p) + Len(q)
      /\ \A i \in 1 .. Len(p) : r[i] = p[i]
      /\ \A i \in 1 .. Len(q) : r[Len(p) + i] = q[i]
  OBVIOUS
<1>2. DOMAIN p = 1 .. Len(p) /\ DOMAIN q = 1 .. Len(q) /\ DOMAIN r = 1 .. Len(p) + Len(q)
  BY <1>1
<1> HIDE DEF r
<1>3. \A i \in 1 .. Len(p) + Len(q) : i \in 1 .. Len(p) \/ (i - Len(p) \in 1 .. Len(q) /\ i = Len(p) + (i - Len(p)))
  BY <1>1
<1>4. \A i \in DOMAIN r : \/ i \in DOMAIN p /\ r[i] = p[i]
                          \/ i - Len(p) \in DOMAIN q /\ r[i] = q[i - Len(p)]
  BY <1>1, <1>2, <1>3
<1>5. ToSet(r) = ToSet(p) \cup ToSet(q)
  <2>1. ToSet(r) \subseteq ToSet(p) \cup ToSet(q)
    BY <1>4 DEF ToSet
  <2>2. ToSet(p) \subseteq ToSet(r)
    <3>1. \A i \in 1 .. Len(p) : i \in 1 .. Len(p) + Len(q)
      BY <1>1
    <3> QED BY <1>1, <1>2, <3>1 DEF ToSet
  <2>3. ToSet(q) \subseteq ToSet(r)
    <3>1. \A i \in 1 .. Len(q) : Len(p) + i \in 1 .. Len(p) + Len(q)
      BY <1>1
    <3> QED BY <1>1, <1>2, <3>1 DEF ToSet
  <2> QED BY <2>1, <2>2, <2>3
<1>6. ASSUME NEW i \in DOMAIN r, NEW j \in DOMAIN r, i < j
      PROVE  \/ i \in DOMAIN p /\ j \in DOMAIN p /\ r[i] = p[i] /\ r[j] = p[j]
             \/ i \in DOMAIN p /\ r[i] = p[i] /\ r[j] \in ToSet(q) /\ p[i] \in ToSet(p)
             \/ /\ i - Len(p) \in DOMAIN q /\ r[i] = q[i - Len(p)] /\ j - Len(p) \in DOMAIN q
                /\ r[j] = q[j - Len(p)] /\ i - Len(p) < j - Len(p)
  <2>1. i \in Nat /\ j \in Nat
    BY <1>1, <1>2
  <2>2. CASE i \in DOMAIN p /\ r[i] = p[i]
    BY <1>4, <2>2 DEF ToSet
  <2>3. CASE i - Len(p) \in DOMAIN q /\ r[i] = q[i - Len(p)]
    <3>1. j \notin DOMAIN p /\ i - Len(p) < j - Len(p)
      BY <1>1, <1>2, <1>6, <2>1, <2>3
    <3>2. j - Len(p) \in DOMAIN q /\ r[j] = q[j - Len(p)]
      BY <1>4, <3>1
    <3> QED BY <2>3, <3>1, <3>2
  <2> QED BY <1>4, <2>2, <2>3
<1>7. ASSUME IsInjective(p), IsInjective(q), ToSet(p) \cap ToSet(q) = {}
      PROVE  IsInjective(r)
  <2>1. ASSUME NEW i \in DOMAIN r, NEW j \in DOMAIN r, i < j
        PROVE  r[i] # r[j]
    <3>1. CASE i \in DOMAIN p /\ j \in DOMAIN p /\ r[i] = p[i] /\ r[j] = p[j]
      <4>1. i # j
        BY <1>1, <1>2, <2>1
      <4> QED BY <1>7, <3>1, <4>1 DEF IsInjective
    <3>2. CASE r[i] = p[i] /\ r[j] \in ToSet(q) /\ p[i] \in ToSet(p)
      BY <1>7, <3>2
    <3>3. CASE /\ i - Len(p) \in DOMAIN q /\ r[i] = q[i - Len(p)] /\ j - Len(p) \in DOMAIN q
               /\ r[j] = q[j - Len(p)] /\ i - Len(p) < j - Len(p)
      <4>1. i - Len(p) # j - Len(p)
        BY <1>1, <1>2, <2>1
      <4> QED BY <1>7, <3>3, <4>1 DEF IsInjective
    <3> QED BY <1>6, <2>1, <3>1, <3>2, <3>3
  <2>2. \A i, j \in DOMAIN r : i < j \/ j < i \/ i = j
    BY <1>1, <1>2
  <2>3. \A i, j \in DOMAIN r : r[i] = r[j] => i = j
    BY <2>1, <2>2
  <2> QED BY <2>3 DEF IsInjective
<1>8. ASSUME InOrder(p), InOrder(q),
             \A a \in ToSet(p), b \in ToSet(q) : a.by = b.by => a.event < b.event
      PROVE  InOrder(r)
  <2>1. ASSUME NEW i \in DOMAIN r, NEW j \in DOMAIN r, i < j, r[i].by = r[j].by
        PROVE  r[i].event < r[j].event
    BY <1>6, <1>8, <2>1 DEF InOrder
  <2> QED BY <2>1 DEF InOrder
<1> QED BY <1>1, <1>5, <1>7, <1>8 DEF r

LEMMA ConcatSet ==
    ASSUME NEW A, NEW p \in Seq(A), NEW q \in Seq(A)
    PROVE  \A c : c \in ToSet(p \o q) <=> c \in ToSet(p) \/ c \in ToSet(q)
<1>1. ToSet(p \o q) = ToSet(p) \cup ToSet(q)
  BY ConcatFacts, Zenon, SMTT(30)
<1> QED BY <1>1

LEMMA AmongOrder ==
    ASSUME NEW A, NEW S, NEW q \in Seq(A)
    PROVE  /\ IsInjective(q) => IsInjective(Among(q, S))
           /\ InOrder(q) => InOrder(Among(q, S))
<1> DEFINE t == Among(q, S)
<1>1. t \in Seq(A)
  BY AmongFacts
<1>2. PICK f \in [DOMAIN t -> DOMAIN q] :
         /\ \A k \in DOMAIN t : t[k] = q[f[k]]
         /\ \A j, k \in DOMAIN t : j < k => f[j] < f[k]
  BY AmongFacts
<1> HIDE DEF t
<1>3. DOMAIN t = 1 .. Len(t) /\ DOMAIN q = 1 .. Len(q)
  BY <1>1
<1>4. ASSUME IsInjective(q)
      PROVE  IsInjective(t)
  <2>1. ASSUME NEW i \in DOMAIN t, NEW j \in DOMAIN t, t[i] = t[j]
        PROVE  i = j
    <3>1. f[i] = f[j]
      BY <1>2, <1>4, <2>1 DEF IsInjective
    <3>2. ~(i < j) /\ ~(j < i)
      BY <1>2, <1>3, <3>1
    <3> QED BY <1>3, <3>2
  <2> QED BY <2>1 DEF IsInjective
<1>5. ASSUME InOrder(q)
      PROVE  InOrder(t)
  <2>1. ASSUME NEW i \in DOMAIN t, NEW j \in DOMAIN t, i < j, t[i].by = t[j].by
        PROVE  t[i].event < t[j].event
    BY <1>2, <1>5, <2>1 DEF InOrder
  <2> QED BY <2>1 DEF InOrder
<1> QED BY <1>4, <1>5 DEF t

LEMMA AmongOne ==
    ASSUME NEW e, NEW S
    PROVE  /\ e \in S => Among(<<e>>, S) = <<e>>
           /\ e \notin S => Among(<<e>>, S) = <<>>
<1> DEFINE q == <<e>>
           t == Among(q, S)
<1>1. /\ q \in Seq({e}) /\ DOMAIN q = {1} /\ q[1] = e /\ ToSet(q) = {e}
  BY DEF ToSet
<1>2. /\ t \in Seq({e}) /\ ToSet(t) = ToSet(q) \cap S
  BY <1>1, AmongFacts, ZenonT(60)
<1>3. PICK f \in [DOMAIN t -> DOMAIN q] : \A j, k \in DOMAIN t : j < k => f[j] < f[k]
  BY <1>1, AmongFacts
<1> HIDE DEF t, q
<1>4. DOMAIN t = 1 .. Len(t) /\ Len(t) \in Nat /\ \A i \in 1 .. Len(t) : t[i] = e
  BY <1>2
<1>5. Len(t) <= 1
  <2>1. CASE Len(t) > 1
    <3>1. 1 \in DOMAIN t /\ 2 \in DOMAIN t
      BY <1>4, <2>1
    <3>2. f[1] = 1 /\ f[2] = 1
      BY <1>1, <1>3, <3>1
    <3> QED BY <1>3, <3>1, <3>2
  <2> QED BY <1>4, <2>1
<1>6. ASSUME e \in S
      PROVE  t = q
  <2>1. Len(t) # 0
    BY <1>1, <1>2, <1>4, <1>6 DEF ToSet
  <2>2. Len(t) = 1
    BY <1>4, <1>5, <2>1
  <2>3. Len(q) = 1
    BY <1>1
  <2> QED BY <1>1, <1>2, <1>4, <2>2, <2>3
<1>7. ASSUME e \notin S
      PROVE  t = <<>>
  <2>1. ToSet(t) = {}
    BY <1>1, <1>2, <1>7
  <2>2. Len(t) = 0
    BY <1>4, <1>5, <2>1 DEF ToSet
  <2> QED BY <1>2, <2>2
<1> QED BY <1>6, <1>7 DEF t, q

LEMMA IncreasingFacts ==
    ASSUME NEW q \in Seq(Entry), Increasing(q)
    PROVE  /\ IsInjective(q)
           /\ \A c \in ToSet(q) : c.num <= q[Len(q)].num
           /\ q # <<>> => q[Len(q)] \in ToSet(q)
           /\ (\A c \in ToSet(q) : c.num = c.event - 1) => InOrder(q)
<1>1. DOMAIN q = 1 .. Len(q) /\ Len(q) \in Nat
  OBVIOUS
<1>2. \A i \in DOMAIN q : q[i] \in Entry
  BY <1>1
<1>3. \A i \in DOMAIN q : q[i].num \in Nat /\ q[i].event \in Nat
  BY <1>2 DEF Entry
<1>4. IsInjective(q)
  <2>1. ASSUME NEW i \in DOMAIN q, NEW j \in DOMAIN q, q[i] = q[j]
        PROVE  i = j
    <3>1. ~(i < j) /\ ~(j < i)
      BY <1>3, <2>1 DEF Increasing
    <3> QED BY <1>1, <3>1
  <2> QED BY <2>1 DEF IsInjective
<1>5. ASSUME NEW c \in ToSet(q)
      PROVE  c.num <= q[Len(q)].num
  <2>1. PICK i \in DOMAIN q : c = q[i]
    BY DEF ToSet
  <2>2. Len(q) \in DOMAIN q /\ (i < Len(q) \/ i = Len(q))
    BY <1>1
  <2> QED BY <1>3, <2>1, <2>2 DEF Increasing
<1>6. ASSUME q # <<>>
      PROVE  q[Len(q)] \in ToSet(q)
  <2>1. Len(q) \in DOMAIN q
    BY <1>1, <1>6
  <2> QED BY <2>1 DEF ToSet
<1>7. ASSUME \A c \in ToSet(q) : c.num = c.event - 1
      PROVE  InOrder(q)
  <2>1. \A i \in DOMAIN q : q[i].num = q[i].event - 1
    BY <1>7 DEF ToSet
  <2>2. ASSUME NEW i \in DOMAIN q, NEW j \in DOMAIN q, i < j
        PROVE  q[i].event < q[j].event
    BY <1>3, <2>1, <2>2 DEF Increasing
  <2> QED BY <2>2 DEF InOrder
<1> QED BY <1>4, <1>5, <1>6, <1>7

LEMMA ClaimOwn ==
    ASSUME ReplayInv, NEW s \in Sid, Claim(s), NEW p, p \in Nat \cup {-1}, NEW u,
           p = IF snapshot[s] = <<>> THEN -1 ELSE Last(snapshot[s]).num,
           u = Among(held[s], {e \in ToSet(held[s]) : e.num > p}),
           tile'[s] = "claimed", through'[s] = p, drawn'[s] = snapshot[s] \o u,
           held'[s] = <<>>, snapshot'[s] = <<>>
    PROVE  ThreadInv(s)'
<1> DEFINE snap == snapshot[s]
<1>1. /\ ThreadInv(s) /\ StageInv(s) /\ OnceInv(s) /\ tile[s] = "answered"
      /\ snap \in Seq(Entry) /\ held[s] \in Seq(Entry)
      /\ UNCHANGED <<life, over, early, kept, nextNum, emitted, wire, cut, listening>>
  BY DEF ReplayInv, ThreadInv, WindowShape, Claim
<1>2. StageInv(s)'
  BY <1>1 DEF StageInv
<1>3. u \in Seq(Entry) /\ ToSet(u) = {e \in ToSet(held[s]) : e.num > p}
  <2>1. u \in Seq(Entry) /\ ToSet(u) = ToSet(held[s]) \cap {e \in ToSet(held[s]) : e.num > p}
    BY <1>1, AmongFacts
  <2> QED BY <2>1
<1>4. ToSet(<<>>) = {} /\ Increasing(<<>>) /\ IsInjective(<<>>) /\ InOrder(<<>>)
  BY DEF ToSet, Increasing, IsInjective, InOrder
<1>5. ToSet(drawn'[s]) = ToSet(snap) \cup ToSet(u)
  <2>1. \A c : c \in ToSet(snap \o u) <=> c \in ToSet(snap) \/ c \in ToSet(u)
    BY <1>1, <1>3, ConcatSet
  <2> QED BY <2>1
<1>6. Increasing(snap)
  BY <1>1 DEF OnceInv
<1>7. /\ \A c \in Copies(s) : c.num \in Nat /\ c.event \in Nat \ {0}
      /\ ToSet(snap) \subseteq Copies(s) /\ ToSet(held[s]) \subseteq Copies(s) /\ OnWire(s) \subseteq Copies(s)
  BY CopiesFacts
<1>8. \A c \in ToSet(snap) : c.num <= p
  <2>1. snap # <<>> => p = snap[Len(snap)].num
    BY DEF Last
  <2>2. snap = <<>> => ToSet(snap) = {}
    BY <1>4
  <2>3. \A c \in ToSet(snap) : c.num <= snap[Len(snap)].num
    BY <1>1, <1>6, IncreasingFacts
  <2> QED BY <2>1, <2>2, <2>3
<1>9. Copies(s)' \subseteq Copies(s) /\ OnWire(s)' = OnWire(s)
  BY <1>1, <1>3, <1>4, <1>5 DEF Copies, OnWire
<1>10. IsInjective(drawn'[s])
  <2>1. ToSet(snap) \cap ToSet(u) = {}
    BY <1>3, <1>7, <1>8
  <2>2. IsInjective(snap)
    BY <1>1, <1>6, IncreasingFacts
  <2>3. IsInjective(u)
    BY <1>1, AmongOrder DEF OnceInv
  <2> QED BY <1>1, <1>3, <2>1, <2>2, <2>3, ConcatFacts
<1>11. OnceInv(s)'
  <2>1. ASSUME NEW t \in Emitter, wire'[s][t] # Silent
        PROVE  /\ wire'[s][t].by = t /\ wire'[s][t] \notin ToSet(held'[s])
               /\ wire'[s][t] \in ToSet(drawn'[s]) => wire'[s][t].num <= through'[s]
    BY <1>1, <1>3, <1>4, <1>5, <1>8, <2>1 DEF OnceInv
  <2> QED BY <1>1, <1>4, <1>9, <1>10, <2>1 DEF OnceInv
<1>12. ASSUME s \notin cut'
       PROVE  OrderInv(s)' /\ WholeInv(s)'
  <2>1. OrderInv(s) /\ WholeInv(s) /\ \A c \in Copies(s) : c.num = c.event - 1
    BY <1>1, <1>12 DEF ThreadInv, OrderInv
  <2>2. InOrder(drawn'[s])
    <3>1. InOrder(snap)
      BY <1>1, <1>6, <1>7, <2>1, IncreasingFacts
    <3>2. InOrder(u)
      BY <1>1, <2>1, AmongOrder DEF OrderInv
    <3>3. \A a \in ToSet(snap), b \in ToSet(u) : a.event < b.event
      BY <1>3, <1>7, <1>8, <2>1
    <3> QED BY <1>1, <1>3, <3>1, <3>2, <3>3, ConcatFacts
  <2>3. ASSUME NEW t \in Emitter, wire'[s][t] # Silent, wire'[s][t].num > p,
               NEW e \in ToSet(drawn'[s]), e.by = t
        PROVE  e.event < wire'[s][t].event
    <3>1. wire'[s][t] = wire[s][t] /\ wire[s][t] \in Copies(s)
      BY <1>1, <1>7, <2>3 DEF OnWire
    <3>2. CASE e \in ToSet(snap)
      BY <1>7, <1>8, <2>1, <2>3, <3>1, <3>2
    <3>3. CASE e \in ToSet(u)
      BY <1>3, <2>1, <2>3, <3>1, <3>3 DEF OrderInv
    <3> QED BY <1>5, <2>3, <3>2, <3>3
  <2>4. OrderInv(s)'
    BY <1>1, <1>4, <1>9, <2>1, <2>2, <2>3 DEF OrderInv
  <2>5. Newest(snap) = p + 1
    <3>1. CASE snap = <<>>
      BY <3>1 DEF Newest
    <3>2. CASE snap # <<>>
      <4>1. snap[Len(snap)] \in Copies(s)
        BY <1>1, <1>6, <1>7, <3>2, IncreasingFacts
      <4> QED BY <1>7, <2>1, <3>2, <4>1 DEF Newest, Last
    <3> QED BY <3>1, <3>2
  <2>6. ASSUME NEW e \in ToSet(drawn'[s]), NEW k \in Nat, e.event <= k, k <= p + 1
        PROVE  Covers(drawn'[s], k)
    <3>1. e \in Copies(s) /\ (e \in ToSet(u) => e.num > p)
      BY <1>3, <1>5, <1>7, <2>6
    <3>2. e \notin ToSet(u)
      BY <1>7, <2>1, <2>6, <3>1
    <3>3. Covers(snap, k)
      BY <1>1, <1>5, <2>1, <2>5, <2>6, <3>2 DEF WholeInv, Whole
    <3> QED BY <1>5, <3>3 DEF Covers
  <2>7. ASSUME NEW k \in Nat, p + 1 < k, k <= emitted'[s]
        PROVE  \E e \in ToSet(drawn'[s]) \cup OnWire(s)' : e.event = k
    <3>1. PICK e \in ToSet(held[s]) \cup OnWire(s) : e.event = k
      BY <1>1, <2>1, <2>5, <2>7 DEF WholeInv, ToCome
    <3>2. e \in Copies(s) /\ e.num = k - 1 /\ e.num > p
      BY <1>7, <2>1, <2>7, <3>1
    <3> QED BY <1>3, <1>5, <1>9, <3>1, <3>2
  <2>8. Whole(drawn[s], through[s] + 1)'
    BY <2>6 DEF Whole
  <2>9. ToCome(s, drawn[s], through[s] + 1)'
    BY <2>7 DEF ToCome
  <2>10. WholeInv(s)'
    BY <1>1, <2>1, <2>8, <2>9 DEF WholeInv
  <2> QED BY <2>4, <2>10
<1> QED BY <1>2, <1>11, <1>12 DEF ThreadInv

LEMMA ClaimKeeps ==
    ASSUME ReplayInv, NEW s \in Sid, Claim(s)
    PROVE  ReplayInv'
<1> DEFINE p == IF snapshot[s] = <<>> THEN -1 ELSE Last(snapshot[s]).num
           u == Among(held[s], {e \in ToSet(held[s]) : e.num > p})
<1>1. AppShape /\ WindowShape /\ EarlyInv /\ \A v \in Sid : ThreadInv(v) /\ StageInv(v)
  BY DEF ReplayInv, ThreadInv
<1>2. /\ tile[s] = "answered" /\ tile' = [tile EXCEPT ![s] = "claimed"]
      /\ through' = [through EXCEPT ![s] = p]
      /\ drawn' = [drawn EXCEPT ![s] = @ \o (snapshot[s] \o Unseen(s, held[s]))]
      /\ held' = [held EXCEPT ![s] = <<>>] /\ snapshot' = [snapshot EXCEPT ![s] = <<>>]
      /\ heldOrder' = Among(heldOrder, Sid \ {s})
      /\ UNCHANGED <<life, over, early, kept, nextNum, emitted, wire, cut, listening, reloads>>
  BY DEF Claim, Draw
<1>3. p \in Nat \cup {-1}
  <2>1. CASE snapshot[s] # <<>>
    <3>1. snapshot[s] \in Seq(Entry) /\ Len(snapshot[s]) \in 1 .. Len(snapshot[s])
      BY <1>1, <2>1 DEF WindowShape
    <3>2. Last(snapshot[s]) \in Entry
      BY <3>1 DEF Last
    <3>3. Last(snapshot[s]).num \in Nat
      BY <3>2 DEF Entry
    <3> QED BY <2>1, <3>3
  <2> QED BY <2>1
<1>4. through' \in [Sid -> Nat \cup {-1}] /\ through'[s] = p /\ \A v \in Sid \ {s} : through'[v] = through[v]
  <2> HIDE DEF p
  <2> QED BY <1>1, <1>2, <1>3 DEF WindowShape
<1>5. Unseen(s, held[s]) = u
  BY <1>4 DEF Unseen
<1>6. held[s] \in Seq(Entry) /\ snapshot[s] \in Seq(Entry) /\ drawn[s] = <<>>
  BY <1>1, <1>2 DEF WindowShape, StageInv
<1>7. u \in Seq(Entry)
  BY <1>6, AmongFacts
<1> HIDE DEF p, u
<1>8. /\ drawn' \in [Sid -> Seq(Entry)] /\ drawn'[s] = snapshot[s] \o u
      /\ \A v \in Sid \ {s} : drawn'[v] = drawn[v]
  <2>1. <<>> \o (snapshot[s] \o u) = snapshot[s] \o u /\ snapshot[s] \o u \in Seq(Entry)
    BY <1>6, <1>7
  <2>2. drawn' = [drawn EXCEPT ![s] = snapshot[s] \o u]
    BY <1>2, <1>5, <1>6, <2>1
  <2>3. drawn \in [Sid -> Seq(Entry)]
    BY <1>1 DEF WindowShape
  <2> QED BY <2>1, <2>2, <2>3
<1>9. /\ held' \in [Sid -> Seq(Entry)] /\ snapshot' \in [Sid -> Seq(Entry)]
      /\ held'[s] = <<>> /\ snapshot'[s] = <<>>
      /\ \A v \in Sid \ {s} : held'[v] = held[v] /\ snapshot'[v] = snapshot[v]
  <2>1. <<>> \in Seq(Entry)
    OBVIOUS
  <2> QED BY <1>1, <1>2, <2>1 DEF WindowShape
<1>10. /\ tile' \in [Sid -> {"none", "asked", "answered", "claimed"}] /\ tile'[s] = "claimed"
       /\ \A v \in Sid \ {s} : tile'[v] = tile[v]
  BY <1>1, <1>2 DEF WindowShape
<1>11. /\ heldOrder' \in Seq(Sid) /\ ToSet(heldOrder') = ToSet(heldOrder) \cap (Sid \ {s})
       /\ IsInjective(heldOrder')
  <2>1. heldOrder \in Seq(Sid) /\ IsInjective(heldOrder)
    BY <1>1 DEF WindowShape, EarlyInv
  <2> QED BY <1>2, <2>1, AmongFacts, AmongOrder
<1>12. AppShape'
  BY <1>1, <1>2 DEF AppShape
<1>13. WindowShape'
  BY <1>1, <1>2, <1>4, <1>8, <1>9, <1>10, <1>11 DEF WindowShape
<1>14. EarlyInv'
  BY <1>1, <1>2, <1>9, <1>11 DEF EarlyInv
<1>15. ASSUME NEW v \in Sid
       PROVE  ThreadInv(v)'
  <2>1. CASE v = s
    BY <1>3, <1>8, <1>9, <1>10, <1>4, <2>1, ClaimOwn, ZenonT(60) DEF p, u
  <2>2. CASE v # s
    <3>1. Same(v)
      BY <1>2, <1>4, <1>8, <1>9, <1>10, <2>2 DEF Same
    <3>2. StageInv(v)'
      BY <1>1, <1>2, <1>4, <1>8, <1>9, <1>10, <2>2 DEF StageInv
    <3> QED BY <1>1, <1>2, <3>1, <3>2, SameKeeps
  <2> QED BY <2>1, <2>2
<1> QED BY <1>12, <1>13, <1>14, <1>15 DEF ReplayInv

\* What is on its way once one thread has announced.
LEMMA WireFacts ==
    ASSUME ReplayInv, NEW s \in Sid, NEW t \in Emitter, Announce(s, t)
    PROVE  /\ wire[s][t] \in Entry /\ wire[s][t] # Silent /\ wire[s][t].by = t
           /\ wire[s][t] \in OnWire(s) /\ wire[s][t] \in Copies(s)
           /\ wire' \in [Sid -> [Emitter -> Entry \cup {Silent}]]
           /\ wire'[s][t] = Silent /\ \A v \in Sid \ {s} : wire'[v] = wire[v]
           /\ \A o \in Emitter \ {t} : wire'[s][o] = wire[s][o]
           /\ \A o \in Emitter \ {t} : wire[s][o] # wire[s][t]
           /\ OnWire(s)' \subseteq OnWire(s) /\ OnWire(s) \subseteq OnWire(s)' \cup {wire[s][t]}
           /\ UNCHANGED <<life, over, early, kept, nextNum, emitted, listening, tile, snapshot, through>>
<1>1. /\ wire[s][t] # Silent /\ wire' = [wire EXCEPT ![s][t] = Silent]
      /\ UNCHANGED <<life, over, early, kept, nextNum, emitted, listening, tile, snapshot, through>>
  BY DEF Announce
<1>2. wire \in [Sid -> [Emitter -> Entry \cup {Silent}]]
  BY DEF ReplayInv, AppShape
<1>3. /\ wire' \in [Sid -> [Emitter -> Entry \cup {Silent}]]
      /\ wire'[s][t] = Silent /\ \A v \in Sid \ {s} : wire'[v] = wire[v]
      /\ \A o \in Emitter \ {t} : wire'[s][o] = wire[s][o]
  BY <1>1, <1>2
<1>4. wire[s][t] \in Entry /\ wire[s][t] \in OnWire(s) /\ wire[s][t] \in Copies(s)
  BY <1>1, <1>2 DEF OnWire, Copies
<1>5. \A o \in Emitter : wire[s][o] # Silent => wire[s][o].by = o
  BY DEF ReplayInv, ThreadInv, OnceInv
<1>6. OnWire(s)' \subseteq OnWire(s) /\ OnWire(s) \subseteq OnWire(s)' \cup {wire[s][t]}
  BY <1>1, <1>3 DEF OnWire
<1>7. \A o \in Emitter \ {t} : wire[s][o] # wire[s][t]
  BY <1>1, <1>5
<1> QED BY <1>1, <1>3, <1>4, <1>5, <1>6, <1>7

\* Nothing that is announced arrives anywhere.
LEMMA UnheardOwn ==
    ASSUME ReplayInv, NEW s \in Sid, NEW t \in Emitter, Announce(s, t),
           drawn'[s] = drawn[s], held'[s] = held[s], cut' = cut,
           tile[s] = "answered" => FALSE,
           tile[s] = "claimed" => wire[s][t].num <= through[s]
    PROVE  ThreadInv(s)'
<1> DEFINE w == wire[s][t]
<1>1. /\ w \in Entry /\ w \in Copies(s)
      /\ wire'[s][t] = Silent /\ \A o \in Emitter \ {t} : wire'[s][o] = wire[s][o]
      /\ OnWire(s)' \subseteq OnWire(s) /\ OnWire(s) \subseteq OnWire(s)' \cup {w}
      /\ UNCHANGED <<life, over, early, kept, nextNum, emitted, listening, tile, snapshot, through>>
  BY WireFacts
<1>2. ThreadInv(s) /\ StageInv(s) /\ OnceInv(s) /\ through[s] \in Nat \cup {-1}
  BY DEF ReplayInv, ThreadInv, WindowShape
<1>3. StageInv(s)'
  BY <1>1, <1>2 DEF StageInv
<1>4. Copies(s)' \subseteq Copies(s)
  BY <1>1 DEF Copies
<1>5. OnceInv(s)'
  BY <1>1, <1>2, <1>4 DEF OnceInv
<1>6. ASSUME s \notin cut'
      PROVE  OrderInv(s)' /\ WholeInv(s)'
  <2>1. OrderInv(s) /\ WholeInv(s) /\ w.num = w.event - 1
    BY <1>1, <1>2, <1>6 DEF ThreadInv, OrderInv
  <2>2. OrderInv(s)'
    BY <1>1, <1>4, <2>1 DEF OrderInv
  <2>3. ASSUME tile[s] = "claimed"
        PROVE  ToCome(s, drawn[s], through[s] + 1)'
    <3>1. w.event \in Nat
      BY <1>1 DEF Entry
    <3>2. w.event <= through[s] + 1
      BY <1>2, <2>1, <2>3, <3>1
    <3>3. ToCome(s, drawn[s], through[s] + 1)
      BY <2>1, <2>3 DEF WholeInv
    <3>4. ASSUME NEW k \in Nat, through[s] + 1 < k, k <= emitted[s]
          PROVE  \E e \in ToSet(drawn[s]) \cup OnWire(s)' : e.event = k
      <4>1. PICK e \in ToSet(drawn[s]) \cup OnWire(s) : e.event = k
        BY <3>3, <3>4 DEF ToCome
      <4>2. e # w
        BY <1>2, <3>1, <3>2, <3>4, <4>1
      <4> QED BY <1>1, <4>1, <4>2
    <3> QED BY <1>1, <3>4 DEF ToCome
  <2>4. WholeInv(s)'
    BY <1>1, <2>1, <2>3 DEF WholeInv
  <2> QED BY <2>2, <2>4
<1> QED BY <1>3, <1>5, <1>6 DEF ThreadInv

\* What is announced is drawn.
LEMMA DrawnOwn ==
    ASSUME ReplayInv, NEW s \in Sid, NEW t \in Emitter, Announce(s, t),
           tile[s] = "claimed", wire[s][t].num > through[s],
           drawn'[s] = drawn[s] \o <<wire[s][t]>>, held'[s] = held[s], cut' = cut
    PROVE  ThreadInv(s)'
<1> DEFINE w == wire[s][t]
<1>1. /\ w \in Entry /\ w \in Copies(s) /\ w.by = t /\ w # Silent
      /\ wire'[s][t] = Silent /\ \A o \in Emitter \ {t} : wire'[s][o] = wire[s][o]
      /\ \A o \in Emitter \ {t} : wire[s][o] # w
      /\ OnWire(s)' \subseteq OnWire(s) /\ OnWire(s) \subseteq OnWire(s)' \cup {w}
      /\ UNCHANGED <<life, over, early, kept, nextNum, emitted, listening, tile, snapshot, through>>
  BY WireFacts
<1>2. /\ ThreadInv(s) /\ StageInv(s) /\ OnceInv(s) /\ through[s] \in Nat \cup {-1}
      /\ drawn[s] \in Seq(Entry)
  BY DEF ReplayInv, ThreadInv, WindowShape
<1>3. <<w>> \in Seq(Entry) /\ ToSet(<<w>>) = {w} /\ IsInjective(<<w>>) /\ InOrder(<<w>>)
  <2>1. <<w>> \in Seq(Entry) /\ DOMAIN <<w>> = {1} /\ <<w>>[1] = w
    BY <1>1
  <2> QED BY <2>1 DEF ToSet, IsInjective, InOrder
<1> HIDE DEF w
<1>4. ToSet(drawn'[s]) = ToSet(drawn[s]) \cup {w}
  <2>1. \A c : c \in ToSet(drawn[s] \o <<w>>) <=> c \in ToSet(drawn[s]) \/ c \in ToSet(<<w>>)
    BY <1>2, <1>3, ConcatSet
  <2> QED BY <1>3, <2>1 DEF w
<1>5. \A c \in Copies(s) : c.num \in Nat /\ c.event \in Nat \ {0}
  BY CopiesFacts
<1>6. StageInv(s)'
  BY <1>1, <1>2 DEF StageInv
<1>7. Copies(s)' \subseteq Copies(s)
  BY <1>1, <1>4 DEF Copies
<1>8. w \notin ToSet(drawn[s])
  BY <1>1, <1>2, <1>5 DEF OnceInv, w
<1>9. IsInjective(drawn'[s])
  <2>1. IsInjective(drawn[s] \o <<w>>)
    <3>1. IsInjective(drawn[s]) /\ ToSet(drawn[s]) \cap ToSet(<<w>>) = {}
      BY <1>2, <1>3, <1>8 DEF OnceInv
    <3> QED BY <1>2, <1>3, <3>1, ConcatFacts
  <2> QED BY <2>1 DEF w
<1>10. OnceInv(s)'
  <2>1. ASSUME NEW o \in Emitter, wire'[s][o] # Silent
        PROVE  /\ wire'[s][o].by = o /\ wire'[s][o] \notin ToSet(held'[s])
               /\ wire'[s][o] \in ToSet(drawn'[s]) => wire'[s][o].num <= through'[s]
    <3>1. o # t /\ wire'[s][o] = wire[s][o] /\ wire[s][o] # w
      BY <1>1, <2>1
    <3> QED BY <1>1, <1>2, <1>4, <2>1, <3>1 DEF OnceInv
  <2> QED BY <1>1, <1>2, <1>7, <1>9, <2>1 DEF OnceInv
<1>11. ASSUME s \notin cut'
       PROVE  OrderInv(s)' /\ WholeInv(s)'
  <2>1. OrderInv(s) /\ WholeInv(s) /\ w.num = w.event - 1
    BY <1>1, <1>2, <1>11 DEF ThreadInv, OrderInv
  <2>2. InOrder(drawn'[s])
    <3>1. InOrder(drawn[s] \o <<w>>)
      <4>1. InOrder(drawn[s]) /\ \A a \in ToSet(drawn[s]) : a.by = w.by => a.event < w.event
        BY <1>1, <2>1 DEF OrderInv, w
      <4> QED BY <1>2, <1>3, <4>1, ConcatFacts
    <3> QED BY <3>1 DEF w
  <2>3. ASSUME NEW o \in Emitter, wire'[s][o] # Silent, wire'[s][o].num > through'[s],
               NEW e \in ToSet(drawn'[s]), e.by = o
        PROVE  e.event < wire'[s][o].event
    <3>1. o # t /\ wire'[s][o] = wire[s][o] /\ e # w
      BY <1>1, <2>3
    <3> QED BY <1>1, <1>4, <2>1, <2>3, <3>1 DEF OrderInv
  <2>4. OrderInv(s)'
    BY <1>1, <1>7, <2>1, <2>2, <2>3 DEF OrderInv
  <2>5. w.event > through[s] + 1 /\ w.event \in Nat
    BY <1>1, <1>2, <1>5, <2>1 DEF w
  <2>6. ASSUME NEW e \in ToSet(drawn'[s]), NEW k \in Nat, e.event <= k, k <= through[s] + 1
        PROVE  Covers(drawn'[s], k)
    <3>1. e # w
      BY <1>2, <2>5, <2>6
    <3>2. Covers(drawn[s], k)
      BY <1>4, <2>1, <2>6, <3>1 DEF WholeInv, Whole
    <3> QED BY <1>4, <3>2 DEF Covers
  <2>7. ASSUME NEW k \in Nat, through[s] + 1 < k, k <= emitted[s]
        PROVE  \E e \in ToSet(drawn'[s]) \cup OnWire(s)' : e.event = k
    <3>1. \E e \in ToSet(drawn[s]) \cup OnWire(s) : e.event = k
      BY <2>1, <2>7 DEF WholeInv, ToCome
    <3> QED BY <1>1, <1>4, <3>1
  <2>8. Whole(drawn[s], through[s] + 1)'
    BY <1>1, <2>6 DEF Whole
  <2>9. ToCome(s, drawn[s], through[s] + 1)'
    BY <1>1, <2>7 DEF ToCome
  <2>10. WholeInv(s)'
    BY <1>1, <2>1, <2>8, <2>9 DEF WholeInv
  <2> QED BY <2>4, <2>10
<1> QED BY <1>6, <1>10, <1>11 DEF ThreadInv

LEMMA AppendFacts ==
    ASSUME NEW A, NEW q \in Seq(A), NEW e \in A
    PROVE  /\ Append(q, e) \in Seq(A) /\ Append(q, e) # <<>> /\ Len(Append(q, e)) = Len(q) + 1
           /\ \A c : c \in ToSet(Append(q, e)) <=> c \in ToSet(q) \/ c = e
           /\ IsInjective(q) /\ e \notin ToSet(q) => IsInjective(Append(q, e))
           /\ InOrder(q) /\ (\A c \in ToSet(q) : c.by = e.by => c.event < e.event)
                => InOrder(Append(q, e))
<1>1. /\ Append(q, e) \in Seq(A) /\ Append(q, e) # <<>> /\ Len(Append(q, e)) = Len(q) + 1
      /\ Append(q, e) = q \o <<e>> /\ <<e>> \in Seq(A)
  <2>1. /\ Append(q, e) \in Seq(A) /\ Append(q, e) # <<>> /\ Len(Append(q, e)) = Len(q) + 1
        /\ \A i \in 1 .. Len(q) : Append(q, e)[i] = q[i]
        /\ Append(q, e)[Len(q) + 1] = e
    OBVIOUS
  <2>2. /\ <<e>> \in Seq(A) /\ q \o <<e>> \in Seq(A) /\ Len(q \o <<e>>) = Len(q) + 1
        /\ \A i \in 1 .. Len(q) : (q \o <<e>>)[i] = q[i]
        /\ (q \o <<e>>)[Len(q) + 1] = e
    OBVIOUS
  <2>3. Append(q, e) = q \o <<e>>
    <3> DEFINE a == Append(q, e)
               b == q \o <<e>>
    <3>1. /\ a \in Seq(A) /\ b \in Seq(A) /\ Len(q) \in Nat /\ Len(a) = Len(q) + 1 /\ Len(b) = Len(q) + 1
          /\ \A i \in 1 .. Len(q) : a[i] = b[i]
          /\ a[Len(q) + 1] = b[Len(q) + 1]
      BY <2>1, <2>2
    <3> HIDE DEF a, b
    <3>2. \A i \in 1 .. Len(q) + 1 : a[i] = b[i]
      BY <3>1
    <3>3. a = b
      BY <3>1, <3>2
    <3> QED BY <3>3 DEF a, b
  <2> QED BY <2>1, <2>2, <2>3
<1>2. ToSet(<<e>>) = {e} /\ IsInjective(<<e>>) /\ InOrder(<<e>>)
  <2>1. DOMAIN <<e>> = {1} /\ <<e>>[1] = e
    OBVIOUS
  <2> QED BY <2>1 DEF ToSet, IsInjective, InOrder
<1>3. \A c : c \in ToSet(Append(q, e)) <=> c \in ToSet(q) \/ c = e
  BY <1>1, <1>2, ConcatSet
<1>4. ASSUME IsInjective(q), e \notin ToSet(q)
      PROVE  IsInjective(Append(q, e))
  <2>1. ToSet(q) \cap ToSet(<<e>>) = {}
    BY <1>2, <1>4
  <2>2. IsInjective(q \o <<e>>)
    <3>1. <<e>> \in Seq(A) /\ IsInjective(<<e>>) /\ IsInjective(q)
      BY <1>1, <1>2, <1>4
    <3> QED BY <2>1, <3>1, ConcatFacts
  <2> QED BY <1>1, <2>2
<1>5. ASSUME InOrder(q), \A c \in ToSet(q) : c.by = e.by => c.event < e.event
      PROVE  InOrder(Append(q, e))
  <2>1. \A a \in ToSet(q), b \in ToSet(<<e>>) : a.by = b.by => a.event < b.event
    BY <1>2, <1>5
  <2> QED BY <1>1, <1>2, <1>5, <2>1, ConcatFacts
<1> QED BY <1>1, <1>3, <1>4, <1>5

LEMMA TailFacts ==
    ASSUME NEW A, NEW q \in Seq(A), q # <<>>, IsInjective(q)
    PROVE  /\ Tail(q) \in Seq(A) /\ Head(q) \in ToSet(q) /\ Len(Tail(q)) = Len(q) - 1
           /\ IsInjective(Tail(q))
           /\ \A c : c \in ToSet(Tail(q)) <=> c \in ToSet(q) /\ c # Head(q)
<1> DEFINE t == Tail(q)
<1>1. /\ t \in Seq(A) /\ Len(q) \in Nat \ {0} /\ Len(t) = Len(q) - 1 /\ Head(q) = q[1]
      /\ \A i \in 1 .. Len(q) - 1 : t[i] = q[i + 1]
  OBVIOUS
<1>2. DOMAIN t = 1 .. Len(q) - 1 /\ DOMAIN q = 1 .. Len(q)
  BY <1>1
<1> HIDE DEF t
<1>3. Head(q) \in ToSet(q)
  BY <1>1, <1>2 DEF ToSet
<1>4. IsInjective(t)
  <2>1. ASSUME NEW i \in 1 .. Len(q) - 1, NEW j \in 1 .. Len(q) - 1, t[i] = t[j]
        PROVE  i = j
    <3>1. i + 1 \in DOMAIN q /\ j + 1 \in DOMAIN q /\ q[i + 1] = q[j + 1]
      BY <1>1, <1>2, <2>1
    <3>2. i + 1 = j + 1
      BY <3>1 DEF IsInjective
    <3> QED BY <3>2
  <2> QED BY <1>2, <2>1 DEF IsInjective
<1>5. ASSUME NEW c \in ToSet(t)
      PROVE  c \in ToSet(q) /\ c # Head(q)
  <2>1. PICK i \in 1 .. Len(q) - 1 : c = q[i + 1]
    BY <1>1, <1>2 DEF ToSet
  <2>2. i + 1 \in DOMAIN q /\ 1 \in DOMAIN q /\ i + 1 # 1
    BY <1>1, <1>2
  <2> QED BY <1>1, <2>1, <2>2 DEF ToSet, IsInjective
<1>6. ASSUME NEW c \in ToSet(q), c # Head(q)
      PROVE  c \in ToSet(t)
  <2>1. PICK i \in 1 .. Len(q) : c = q[i]
    BY <1>2 DEF ToSet
  <2>2. i # 1
    BY <1>1, <1>6, <2>1
  <2>3. i - 1 \in 1 .. Len(q) - 1 /\ i = (i - 1) + 1
    BY <1>1, <2>2
  <2>4. c = t[i - 1]
    BY <1>1, <2>1, <2>3
  <2> QED BY <1>2, <2>3, <2>4 DEF ToSet
<1> QED BY <1>1, <1>3, <1>4, <1>5, <1>6 DEF t

LEMMA HoldFacts ==
    ASSUME ReplayInv, NEW s \in Sid, NEW w \in Entry, w \notin ToSet(held[s]), Hold(s, w),
           cut \subseteq Sid
    PROVE  /\ heldOrder' \in Seq(Sid) /\ held' \in [Sid -> Seq(Entry)]
           /\ ToSet(heldOrder') = {v \in Sid : held'[v] # <<>>} /\ IsInjective(heldOrder')
           /\ cut \subseteq cut' /\ cut' \subseteq Sid
           /\ \A v \in Sid \ {s} : held'[v] = held[v] \/ (held'[v] = <<>> /\ v \in cut')
           /\ IsInjective(held'[s]) /\ ToSet(held'[s]) \subseteq ToSet(held[s]) \cup {w}
           /\ s \notin cut' => held'[s] = Append(held[s], w)
<1> DEFINE full == s \notin ToSet(heldOrder) /\ Len(heldOrder) >= MaxHeldSids
           order == IF full THEN Tail(heldOrder) ELSE heldOrder
           waiting == Append(held[s], w)
           spilt == Len(waiting) > MaxHeld
           q == IF spilt THEN Tail(waiting) ELSE waiting
<1>1. /\ heldOrder' = IF s \in ToSet(order) THEN order ELSE Append(order, s)
      /\ held' = [v \in Sid |-> IF v = s THEN q
                                ELSE IF full /\ v = Head(heldOrder) THEN <<>> ELSE held[v]]
      /\ cut' = cut \cup (IF full THEN {Head(heldOrder)} ELSE {}) \cup (IF spilt THEN {s} ELSE {})
  BY DEF Hold
<1>2. /\ heldOrder \in Seq(Sid) /\ IsInjective(heldOrder) /\ held \in [Sid -> Seq(Entry)]
      /\ ToSet(heldOrder) = {v \in Sid : held[v] # <<>>}
      /\ IsInjective(held[s])
  BY DEF ReplayInv, WindowShape, EarlyInv, ThreadInv, OnceInv
<1>3. MaxHeld \in Nat \ {0} /\ MaxHeldSids \in Nat \ {0}
  BY ReplayAssumption
<1>4. /\ order \in Seq(Sid) /\ IsInjective(order)
      /\ \A c : c \in ToSet(order) <=> c \in ToSet(heldOrder) /\ ~(full /\ c = Head(heldOrder))
      /\ full => Head(heldOrder) \in Sid \ {s}
  <2>1. CASE full
    <3>1. heldOrder # <<>>
      BY <1>2, <1>3, <2>1
    <3>2. /\ Tail(heldOrder) \in Seq(Sid) /\ Head(heldOrder) \in ToSet(heldOrder)
          /\ IsInjective(Tail(heldOrder))
          /\ \A c : c \in ToSet(Tail(heldOrder)) <=> c \in ToSet(heldOrder) /\ c # Head(heldOrder)
      BY <1>2, <3>1, TailFacts
    <3>3. order = Tail(heldOrder)
      BY <2>1
    <3> QED BY <1>2, <2>1, <3>2, <3>3
  <2>2. CASE ~full
    <3>1. order = heldOrder
      BY <2>2
    <3> QED BY <1>2, <2>2, <3>1
  <2> QED BY <2>1, <2>2
<1>5. /\ waiting \in Seq(Entry) /\ waiting # <<>> /\ Len(waiting) \in Nat
      /\ \A c : c \in ToSet(waiting) <=> c \in ToSet(held[s]) \/ c = w
      /\ IsInjective(waiting)
  <2>1. held[s] \in Seq(Entry)
    BY <1>2
  <2> QED BY <1>2, <2>1, AppendFacts
<1>6. /\ q \in Seq(Entry) /\ q # <<>> /\ IsInjective(q) /\ ToSet(q) \subseteq ToSet(waiting)
      /\ ~spilt => q = waiting
  <2>1. CASE spilt
    <3>1. /\ Tail(waiting) \in Seq(Entry) /\ Len(Tail(waiting)) = Len(waiting) - 1
          /\ IsInjective(Tail(waiting))
          /\ \A c : c \in ToSet(Tail(waiting)) <=> c \in ToSet(waiting) /\ c # Head(waiting)
      <4> HIDE DEF waiting
      <4> QED BY <1>5, TailFacts
    <3>2. Len(Tail(waiting)) # 0
      <4> HIDE DEF waiting
      <4> QED BY <1>3, <1>5, <2>1, <3>1
    <3>3. q = Tail(waiting)
      BY <2>1
    <3>4. Len(<<>>) = 0
      OBVIOUS
    <3> HIDE DEF q, waiting, spilt
    <3>5. Tail(waiting) # <<>>
      BY <3>2, <3>4
    <3>6. ToSet(Tail(waiting)) \subseteq ToSet(waiting)
      BY <3>1
    <3> QED BY <2>1, <3>1, <3>3, <3>5, <3>6
  <2>2. CASE ~spilt
    <3>1. q = waiting
      BY <2>2
    <3> QED BY <1>5, <3>1
  <2> QED BY <2>1, <2>2
<1>7. spilt => s \in cut'
  BY <1>1
<1> HIDE DEF order, q, waiting, spilt, full
<1>8. held'[s] = q /\ \A v \in Sid \ {s} : held'[v] = IF full /\ v = Head(heldOrder) THEN <<>> ELSE held[v]
  BY <1>1
<1>9. held' \in [Sid -> Seq(Entry)]
  <2>1. <<>> \in Seq(Entry)
    OBVIOUS
  <2> QED BY <1>1, <1>2, <1>6, <2>1
<1>10. /\ heldOrder' \in Seq(Sid) /\ IsInjective(heldOrder')
       /\ \A c : c \in ToSet(heldOrder') <=> c \in ToSet(order) \/ c = s
  <2>1. CASE s \in ToSet(order)
    BY <1>1, <1>4, <2>1
  <2>2. CASE s \notin ToSet(order)
    <3>1. heldOrder' = Append(order, s)
      BY <1>1, <2>2
    <3>2. /\ Append(order, s) \in Seq(Sid)
          /\ \A c : c \in ToSet(Append(order, s)) <=> c \in ToSet(order) \/ c = s
          /\ IsInjective(Append(order, s))
      BY <1>4, <2>2, AppendFacts
    <3> QED BY <3>1, <3>2
  <2> QED BY <2>1, <2>2
<1>11. ToSet(heldOrder') = {v \in Sid : held'[v] # <<>>}
  <2>1. \A v \in Sid : v \in ToSet(heldOrder') <=> held'[v] # <<>>
    BY <1>2, <1>4, <1>6, <1>8, <1>10
  <2>2. \A c : c \in ToSet(heldOrder') => c \in Sid
    BY <1>2, <1>4, <1>10
  <2> QED BY <2>1, <2>2
<1>12. cut \subseteq cut' /\ cut' \subseteq Sid
  BY <1>1, <1>4
<1>13. \A v \in Sid \ {s} : held'[v] = held[v] \/ (held'[v] = <<>> /\ v \in cut')
  BY <1>1, <1>8
<1>14. s \notin cut' => held'[s] = Append(held[s], w)
  BY <1>6, <1>7, <1>8 DEF waiting
<1>15. ToSet(held'[s]) \subseteq ToSet(held[s]) \cup {w}
  BY <1>5, <1>6, <1>8
<1> QED BY <1>6, <1>8, <1>9, <1>10, <1>11, <1>12, <1>13, <1>14, <1>15

\* What is announced is held.
LEMMA HeldOwn ==
    ASSUME ReplayInv, NEW s \in Sid, NEW t \in Emitter, Announce(s, t),
           listening, tile[s] # "claimed", drawn'[s] = drawn[s],
           IsInjective(held'[s]), ToSet(held'[s]) \subseteq ToSet(held[s]) \cup {wire[s][t]},
           cut \subseteq cut', s \notin cut' => held'[s] = Append(held[s], wire[s][t])
    PROVE  ThreadInv(s)'
<1> DEFINE w == wire[s][t]
<1>1. /\ w \in Entry /\ w \in Copies(s) /\ w.by = t /\ w # Silent
      /\ wire'[s][t] = Silent /\ \A o \in Emitter \ {t} : wire'[s][o] = wire[s][o]
      /\ \A o \in Emitter \ {t} : wire[s][o] # w
      /\ OnWire(s)' \subseteq OnWire(s) /\ OnWire(s) \subseteq OnWire(s)' \cup {w}
      /\ UNCHANGED <<life, over, early, kept, nextNum, emitted, listening, tile, snapshot, through>>
  BY WireFacts, ZenonT(60)
<1>2. /\ ThreadInv(s) /\ StageInv(s) /\ OnceInv(s) /\ held[s] \in Seq(Entry)
  BY DEF ReplayInv, ThreadInv, WindowShape
<1> HIDE DEF w
<1>3. ToSet(held'[s]) \subseteq ToSet(held[s]) \cup {w}
  BY DEF w
<1>4. StageInv(s)'
  BY <1>1, <1>2 DEF StageInv
<1>5. ToSet(drawn[s]) = {}
  BY <1>2 DEF StageInv, ToSet
<1>6. Copies(s)' \subseteq Copies(s)
  BY <1>1, <1>3 DEF Copies
<1>7. OnceInv(s)'
  <2>1. ASSUME NEW o \in Emitter, wire'[s][o] # Silent
        PROVE  /\ wire'[s][o].by = o /\ wire'[s][o] \notin ToSet(held'[s])
               /\ wire'[s][o] \in ToSet(drawn'[s]) => wire'[s][o].num <= through'[s]
    <3>1. o # t /\ wire'[s][o] = wire[s][o] /\ wire[s][o] # w
      BY <1>1, <2>1
    <3> QED BY <1>2, <1>3, <1>5, <2>1, <3>1 DEF OnceInv
  <2> QED BY <1>1, <1>2, <1>6, <2>1 DEF OnceInv
<1>8. ASSUME s \notin cut'
      PROVE  OrderInv(s)' /\ WholeInv(s)'
  <2>1. OrderInv(s) /\ WholeInv(s)
    BY <1>2, <1>8 DEF ThreadInv
  <2>2. /\ held'[s] = Append(held[s], w)
        /\ \A c : c \in ToSet(held'[s]) <=> c \in ToSet(held[s]) \/ c = w
    <3>1. held'[s] = Append(held[s], w)
      BY <1>8 DEF w
    <3>2. \A c : c \in ToSet(Append(held[s], w)) <=> c \in ToSet(held[s]) \/ c = w
      BY <1>1, <1>2, AppendFacts
    <3> QED BY <3>1, <3>2
  <2>3. InOrder(held'[s])
    <3>1. InOrder(held[s]) /\ \A c \in ToSet(held[s]) : c.by = w.by => c.event < w.event
      BY <1>1, <2>1 DEF OrderInv, w
    <3>2. InOrder(Append(held[s], w))
      BY <1>1, <1>2, <3>1, AppendFacts
    <3> QED BY <2>2, <3>2
  <2>4. ASSUME NEW o \in Emitter, wire'[s][o] # Silent
        PROVE  /\ \A e \in ToSet(held'[s]) : e.by = o => e.event < wire'[s][o].event
               /\ wire'[s][o].num > through'[s] =>
                     \A e \in ToSet(drawn'[s]) : e.by = o => e.event < wire'[s][o].event
    <3>1. o # t /\ wire'[s][o] = wire[s][o]
      BY <1>1, <2>4
    <3> QED BY <1>1, <1>3, <1>5, <2>1, <2>4, <3>1 DEF OrderInv
  <2>5. OrderInv(s)'
    BY <1>1, <1>6, <2>1, <2>3, <2>4 DEF OrderInv
  <2>6. ASSUME tile[s] = "answered"
        PROVE  ToCome(s, held[s], Newest(snapshot[s]))'
    <3>1. ASSUME NEW k \in Nat, Newest(snapshot[s]) < k, k <= emitted[s]
          PROVE  \E e \in ToSet(held'[s]) \cup OnWire(s)' : e.event = k
      <4>1. \E e \in ToSet(held[s]) \cup OnWire(s) : e.event = k
        BY <2>1, <2>6, <3>1 DEF WholeInv, ToCome
      <4> QED BY <1>1, <2>2, <4>1
    <3> QED BY <1>1, <3>1 DEF ToCome
  <2>7. WholeInv(s)'
    BY <1>1, <2>1, <2>6 DEF WholeInv
  <2> QED BY <2>5, <2>7
<1> QED BY <1>4, <1>7, <1>8 DEF ThreadInv

\* What was held of a session is dropped for a newcomer's.
LEMMA OustedKeeps ==
    ASSUME NEW v \in Sid, ThreadInv(v), v \in cut', held'[v] = <<>>,
           UNCHANGED <<life, over, early, listening>>, kept'[v] = kept[v], nextNum'[v] = nextNum[v],
           emitted'[v] = emitted[v], wire'[v] = wire[v], tile'[v] = tile[v],
           snapshot'[v] = snapshot[v], through'[v] = through[v], drawn'[v] = drawn[v]
    PROVE  ThreadInv(v)'
<1>1. ToSet(<<>>) = {} /\ IsInjective(<<>>)
  BY DEF ToSet, IsInjective
<1>2. Copies(v)' \subseteq Copies(v)
  BY <1>1 DEF Copies, OnWire
<1>3. OnceInv(v)'
  BY <1>1, <1>2 DEF ThreadInv, OnceInv
<1>4. StageInv(v)'
  BY DEF ThreadInv, StageInv
<1> QED BY <1>3, <1>4 DEF ThreadInv

LEMMA AnnounceKeeps ==
    ASSUME ReplayInv, NEW s \in Sid, NEW t \in Emitter, Announce(s, t)
    PROVE  ReplayInv'
<1> DEFINE w == wire[s][t]
<1>1. AppShape /\ WindowShape /\ EarlyInv /\ \A v \in Sid : ThreadInv(v) /\ StageInv(v)
  BY DEF ReplayInv, ThreadInv
<1>2. /\ w \in Entry /\ w \in OnWire(s)
      /\ wire' \in [Sid -> [Emitter -> Entry \cup {Silent}]]
      /\ \A v \in Sid \ {s} : wire'[v] = wire[v]
      /\ UNCHANGED <<life, over, early, kept, nextNum, emitted, listening, tile, snapshot, through>>
  BY WireFacts
<1>3. \/ ~listening /\ UNCHANGED <<drawn, held, heldOrder, cut>>
      \/ listening /\ tile[s] = "claimed" /\ Draw(s, Unseen(s, <<w>>)) /\ UNCHANGED <<held, heldOrder, cut>>
      \/ listening /\ tile[s] # "claimed" /\ Hold(s, w) /\ UNCHANGED drawn
  BY DEF Announce
<1> HIDE DEF w
<1>4. SUFFICES /\ cut \subseteq cut' /\ cut' \subseteq Sid
               /\ heldOrder' \in Seq(Sid) /\ held' \in [Sid -> Seq(Entry)] /\ drawn' \in [Sid -> Seq(Entry)]
               /\ ToSet(heldOrder') = {v \in Sid : held'[v] # <<>>} /\ IsInjective(heldOrder')
               /\ \A v \in Sid \ {s} : /\ drawn'[v] = drawn[v]
                                       /\ held'[v] = held[v] \/ (held'[v] = <<>> /\ v \in cut')
               /\ ThreadInv(s)'
  <2>1. AppShape'
    BY <1>1, <1>2, <1>4 DEF AppShape
  <2>2. WindowShape'
    BY <1>1, <1>2, <1>4 DEF WindowShape
  <2>3. EarlyInv'
    BY <1>1, <1>2, <1>4 DEF EarlyInv
  <2>4. ASSUME NEW v \in Sid
        PROVE  ThreadInv(v)'
    <3>1. CASE v = s
      BY <1>4, <3>1
    <3>2. CASE v # s /\ held'[v] = held[v]
      <4>1. Same(v)
        BY <1>2, <1>4, <3>2 DEF Same
      <4>2. StageInv(v)'
        BY <1>1, <1>2, <1>4, <3>2 DEF StageInv
      <4> QED BY <1>1, <1>4, <4>1, <4>2, SameKeeps
    <3>3. CASE v # s /\ held'[v] = <<>> /\ v \in cut'
      BY <1>1, <1>2, <1>4, <3>3, OustedKeeps
    <3> QED BY <1>4, <3>1, <3>2, <3>3
  <2> QED BY <2>1, <2>2, <2>3, <2>4 DEF ReplayInv
<1>5. /\ heldOrder \in Seq(Sid) /\ held \in [Sid -> Seq(Entry)] /\ drawn \in [Sid -> Seq(Entry)]
      /\ ToSet(heldOrder) = {v \in Sid : held[v] # <<>>} /\ IsInjective(heldOrder)
      /\ cut \subseteq Sid /\ through[s] \in Nat \cup {-1}
  BY <1>1 DEF AppShape, WindowShape, EarlyInv
<1>6. CASE ~listening
  <2>1. tile[s] \notin {"answered", "claimed"}
    BY <1>1, <1>6 DEF StageInv
  <2>2. UNCHANGED <<drawn, held, heldOrder, cut>>
    BY <1>3, <1>6
  <2>3. ThreadInv(s)'
    BY <2>1, <2>2, UnheardOwn
  <2> QED BY <1>5, <2>2, <2>3
<1>7. CASE listening /\ tile[s] = "claimed"
  <2>1. drawn' = [drawn EXCEPT ![s] = @ \o Unseen(s, <<w>>)] /\ UNCHANGED <<held, heldOrder, cut>>
    BY <1>3, <1>7 DEF Draw
  <2>2. w.num \in Nat
    BY <1>2 DEF Entry
  <2>3. <<w>> \in Seq(Entry) /\ ToSet(<<w>>) = {w}
    <3>1. DOMAIN <<w>> = {1} /\ <<w>>[1] = w
      OBVIOUS
    <3> QED BY <1>2, <3>1 DEF ToSet
  <2>4. drawn[s] \in Seq(Entry)
    BY <1>5
  <2>5. CASE w.num > through[s]
    <3>1. w \in {e \in ToSet(<<w>>) : e.num > through'[s]}
      BY <1>2, <2>3, <2>5
    <3>2. Unseen(s, <<w>>) = <<w>>
      BY <3>1, AmongOne DEF Unseen
    <3>3. drawn[s] \o <<w>> \in Seq(Entry)
      BY <2>3, <2>4
    <3>4. /\ drawn' \in [Sid -> Seq(Entry)] /\ drawn'[s] = drawn[s] \o <<w>>
          /\ \A v \in Sid \ {s} : drawn'[v] = drawn[v]
      BY <1>5, <2>1, <3>2, <3>3
    <3>5. ThreadInv(s)'
      BY <1>7, <2>1, <2>5, <3>4, DrawnOwn DEF w
    <3> QED BY <1>5, <2>1, <3>4, <3>5
  <2>6. CASE w.num <= through[s]
    <3>1. w \notin {e \in ToSet(<<w>>) : e.num > through'[s]}
      BY <1>2, <1>5, <2>2, <2>6
    <3>2. Unseen(s, <<w>>) = <<>>
      BY <3>1, AmongOne DEF Unseen
    <3>3. drawn[s] \o <<>> = drawn[s]
      BY <2>4
    <3>4. drawn' = drawn
      BY <1>5, <2>1, <3>2, <3>3
    <3>5. ThreadInv(s)'
      BY <1>7, <2>1, <2>6, <3>4, UnheardOwn DEF w
    <3> QED BY <1>5, <2>1, <3>4, <3>5
  <2> QED BY <1>5, <2>2, <2>5, <2>6
<1>8. CASE listening /\ tile[s] # "claimed"
  <2>1. Hold(s, w) /\ drawn' = drawn
    BY <1>3, <1>8
  <2>2. w \notin ToSet(held[s])
    BY <1>1, <1>2 DEF ThreadInv, OnceInv, OnWire, w
  <2>3. /\ heldOrder' \in Seq(Sid) /\ held' \in [Sid -> Seq(Entry)]
        /\ ToSet(heldOrder') = {v \in Sid : held'[v] # <<>>} /\ IsInjective(heldOrder')
        /\ cut \subseteq cut' /\ cut' \subseteq Sid
        /\ \A v \in Sid \ {s} : held'[v] = held[v] \/ (held'[v] = <<>> /\ v \in cut')
        /\ IsInjective(held'[s]) /\ ToSet(held'[s]) \subseteq ToSet(held[s]) \cup {w}
        /\ s \notin cut' => held'[s] = Append(held[s], w)
    BY <1>2, <1>5, <2>1, <2>2, HoldFacts
  <2>4. ThreadInv(s)'
    BY <1>8, <2>1, <2>3, HeldOwn DEF w
  <2> QED BY <1>5, <2>1, <2>3, <2>4
<1> QED BY <1>3, <1>6, <1>7, <1>8

-----------------------------------------------------------------------------
(* The theorem.                                                            *)

LEMMA ReplayInitInv == ReplayInit => ReplayInv
<1> SUFFICES ASSUME ReplayInit PROVE ReplayInv
  OBVIOUS
<1> USE DEF ReplayInit
<1>1. <<>> \in Seq(Entry) /\ <<>> \in Seq(Sid) /\ ToSet(<<>>) = {} /\ IsInjective(<<>>)
      /\ InOrder(<<>>) /\ Increasing(<<>>)
  BY DEF ToSet, IsInjective, InOrder, Increasing
<1>2. AppShape
  <2>1. kept \in [Sid -> Seq(Entry)]
    BY <1>1
  <2>2. wire \in [Sid -> [Emitter -> Entry \cup {Silent}]]
    <3>1. [t \in Emitter |-> Silent] \in [Emitter -> Entry \cup {Silent}]
      OBVIOUS
    <3> QED BY <3>1
  <2> QED BY <2>1, <2>2 DEF AppShape
<1>3. WindowShape
  <2>1. snapshot \in [Sid -> Seq(Entry)] /\ held \in [Sid -> Seq(Entry)] /\ drawn \in [Sid -> Seq(Entry)]
    BY <1>1
  <2> QED BY <1>1, <2>1 DEF WindowShape
<1>4. EarlyInv
  <2>1. IsFiniteSet({}) /\ Cardinality({}) = 0
    BY FS_EmptySet
  <2> QED BY <1>1, <2>1, ReplayAssumption DEF EarlyInv
<1>5. ASSUME NEW s \in Sid
      PROVE  ThreadInv(s)
  <2>1. /\ kept[s] = <<>> /\ snapshot[s] = <<>> /\ held[s] = <<>> /\ drawn[s] = <<>>
        /\ \A t \in Emitter : wire[s][t] = Silent
        /\ emitted[s] = 0 /\ nextNum[s] = 0 /\ tile[s] = "none" /\ through[s] = -1 /\ listening
        /\ life[s] = "unborn" /\ s \notin early /\ s \notin over
    OBVIOUS
  <2> HIDE DEF ReplayInit
  <2>2. StageInv(s)
    BY <2>1 DEF StageInv
  <2>3. Copies(s) = {}
    BY <1>1, <2>1 DEF Copies, OnWire
  <2>4. OnceInv(s)
    BY <1>1, <2>1, <2>3 DEF OnceInv
  <2>5. OrderInv(s)
    BY <1>1, <2>1, <2>3 DEF OrderInv
  <2>6. Newest(kept[s]) = emitted[s]
    BY <2>1 DEF Newest
  <2>7. Whole(kept[s], emitted[s])
    BY <1>1, <2>1 DEF Whole
  <2>8. WholeInv(s)
    BY <2>1, <2>6, <2>7 DEF WholeInv
  <2> QED BY <2>2, <2>4, <2>5, <2>8 DEF ThreadInv
<1> QED BY <1>2, <1>3, <1>4, <1>5 DEF ReplayInv

LEMMA ReplayStep == ReplayInv /\ [ReplayNext]_replayVars => ReplayInv'
<1> SUFFICES ASSUME ReplayInv, [ReplayNext]_replayVars PROVE ReplayInv'
  OBVIOUS
<1>1. CASE UNCHANGED replayVars
  <2> USE <1>1 DEF replayVars
  <2>1. AppShape' /\ WindowShape' /\ EarlyInv'
    BY DEF ReplayInv, AppShape, WindowShape, EarlyInv
  <2>2. ASSUME NEW v \in Sid
        PROVE  ThreadInv(v)'
    <3>1. Same(v) /\ cut' = cut
      BY DEF Same
    <3>2. ThreadInv(v)
      BY DEF ReplayInv
    <3>3. StageInv(v)'
      BY <3>2 DEF ThreadInv, StageInv
    <3> QED BY <3>1, <3>2, <3>3, SameKeeps
  <2> QED BY <2>1, <2>2 DEF ReplayInv
<1>2. ASSUME NEW s \in Sid, \/ BeginOpen(s) \/ Exit(s) \/ FinishOpen(s) \/ DropEntry(s)
                            \/ Ask(s) \/ AgentReplay(s) \/ Claim(s)
      PROVE  ReplayInv'
  BY <1>2, OpensKeep, FinishOpenKeeps, AsksKeep, AgentReplayKeeps, ClaimKeeps
<1>3. ASSUME NEW s \in Shown, Emit(s, "caller", "said") \/ Emit(s, "reader", "patch")
      PROVE  ReplayInv'
  <2>1. s \in Sid
    BY ReplayAssumption DEF Sid
  <2>2. "caller" \in Emitter /\ "reader" \in Emitter
    BY DEF Emitter
  <2> QED BY <1>3, <2>1, <2>2, EmitKeeps
<1>4. ASSUME NEW s \in Sid, Emit(s, "reader", "said")
      PROVE  ReplayInv'
  <2>1. "reader" \in Emitter
    BY DEF Emitter
  <2> QED BY <1>4, <2>1, EmitKeeps
<1>5. ASSUME NEW s \in Sid, NEW t \in Emitter, Announce(s, t)
      PROVE  ReplayInv'
  BY <1>5, AnnounceKeeps
<1>6. CASE Reload
  BY <1>6, ReloadKeeps
<1>7. CASE Listen
  BY <1>7, AsksKeep
<1> QED BY <1>1, <1>2, <1>3, <1>4, <1>5, <1>6, <1>7 DEF ReplayNext

LEMMA InvDrawn ==
    ASSUME ReplayInv
    PROVE  DrawnWhole
<1>1. \A s \in Sid : /\ OnceInv(s) /\ drawn[s] \in Seq(Entry)
                     /\ s \notin cut => OrderInv(s) /\ WholeInv(s)
                     /\ through[s] \in Nat \cup {-1} /\ emitted[s] \in Nat
  BY DEF ReplayInv, ThreadInv, WindowShape, AppShape
<1>2. DrawnOnce
  BY <1>1 DEF DrawnOnce, OnceInv
<1>3. ThreadOrder
  BY <1>1 DEF ThreadOrder, OrderInv, InOrder
<1>4. NoHole
  <2>1. SUFFICES ASSUME NEW s \in Sid \ cut, tile[s] = "claimed", drawn[s] # <<>>,
                        NEW first, first = CHOOSE n \in Events(drawn[s]) : \A m \in Events(drawn[s]) : n <= m,
                        NEW n \in first .. emitted[s]
                 PROVE  \/ n \in Events(drawn[s]) \cup {wire[s][t].event : t \in Emitter}
                        \/ \E i \in DOMAIN drawn[s] : drawn[s][i].kind = "patch" /\ drawn[s][i].event > n
    BY DEF NoHole
  <2>2. DOMAIN drawn[s] = 1 .. Len(drawn[s]) /\ Len(drawn[s]) \in Nat \ {0}
    BY <1>1, <2>1
  <2>3. \A i \in DOMAIN drawn[s] : drawn[s][i].event \in Nat
    <3>1. \A i \in DOMAIN drawn[s] : drawn[s][i] \in Entry
      BY <1>1, <2>2
    <3> QED BY <3>1 DEF Entry
  <2>4. Events(drawn[s]) \subseteq Nat /\ Events(drawn[s]) # {}
    <3>1. 1 \in DOMAIN drawn[s]
      BY <2>2
    <3>2. drawn[s][1].event \in Events(drawn[s])
      BY <3>1 DEF Events
    <3>3. \A m \in Events(drawn[s]) : m \in Nat
      BY <2>3 DEF Events
    <3> QED BY <3>2, <3>3
  <2>5. first \in Events(drawn[s])
    <3>1. \E m \in Events(drawn[s]) : \A k \in Events(drawn[s]) : m <= k
      BY <2>4, Least
    <3> QED BY <2>1, <3>1
  <2>6. PICK e \in ToSet(drawn[s]) : e.event = first
    BY <2>5 DEF Events, ToSet
  <2>7. first \in Nat /\ n \in Nat /\ first <= n /\ n <= emitted[s]
    BY <1>1, <2>1, <2>4, <2>5
  <2>8. WholeInv(s)
    BY <1>1, <2>1
  <2>9. CASE n <= through[s] + 1
    <3>1. PICK c \in ToSet(drawn[s]) : c.event = n \/ (c.kind = "patch" /\ c.event > n)
      BY <2>1, <2>6, <2>7, <2>8, <2>9 DEF WholeInv, Whole, Covers
    <3>2. PICK i \in DOMAIN drawn[s] : c = drawn[s][i]
      BY DEF ToSet
    <3> QED BY <3>1, <3>2 DEF Events
  <2>10. CASE n > through[s] + 1
    <3>1. PICK c \in ToSet(drawn[s]) \cup OnWire(s) : c.event = n
      BY <2>1, <2>7, <2>8, <2>10 DEF WholeInv, ToCome
    <3>2. CASE c \in ToSet(drawn[s])
      BY <3>1, <3>2 DEF Events, ToSet
    <3>3. CASE c \in OnWire(s)
      BY <3>1, <3>3 DEF OnWire
    <3> QED BY <3>1, <3>2, <3>3
  <2> QED BY <1>1, <2>1, <2>7, <2>9, <2>10
<1> QED BY <1>2, <1>3, <1>4 DEF DrawnWhole

LEMMA InvBuffers ==
    ASSUME ReplayInv
    PROVE  BuffersOK
<1>1. ReplayTypeOK
  BY DEF ReplayInv, AppShape, WindowShape, EarlyInv, ThreadInv, StageInv, ReplayTypeOK
<1>2. NumbersGrow
  <2>1. ASSUME NEW s \in Sid, NEW i \in DOMAIN kept[s]
        PROVE  /\ kept[s][i].num < nextNum[s]
               /\ i > 1 => kept[s][i - 1].num < kept[s][i].num
    <3>1. kept[s] \in Seq(Entry) /\ Increasing(kept[s]) /\ \A e \in ToSet(kept[s]) : e.num < nextNum[s]
      BY DEF ReplayInv, AppShape, ThreadInv, OnceInv
    <3>2. kept[s][i].num < nextNum[s]
      BY <3>1 DEF ToSet
    <3>3. i > 1 => i - 1 \in DOMAIN kept[s] /\ i - 1 < i
      BY <3>1
    <3> QED BY <3>1, <3>2, <3>3 DEF Increasing
  <2> QED BY <2>1 DEF NumbersGrow
<1>3. EarlyBounded
  BY DEF ReplayInv, EarlyInv, EarlyBounded
<1> QED BY <1>1, <1>2, <1>3 DEF BuffersOK

\* Replay: whatever is evicted, dropped or reloaded, and whichever thread announces
\* first, the window draws each event once, each thread's in its order and none missing
\* below the first, and what is kept is numbered upwards and bounded (app.rs,
\* sessions.svelte.ts).
THEOREM ReplaySafe == ReplaySpec => []ReplayOK
<1>1. ReplayInit => ReplayInv
  BY ReplayInitInv
<1>2. ReplayInv /\ [ReplayNext]_replayVars => ReplayInv'
  BY ReplayStep
<1>3. ReplayInv => ReplayOK
  BY InvDrawn, InvBuffers DEF ReplayOK
<1> QED BY <1>1, <1>2, <1>3, PTL DEF ReplaySpec

-----------------------------------------------------------------------------
(* Panes in windows of their own (PopOut): queues.                         *)

\* What is kept of a queue.
LEMMA OnlyFacts ==
    ASSUME NEW A, NEW S, NEW s \in Seq(A)
    PROVE  /\ Only(s, S) \in Seq(A)
           /\ ToSet(Only(s, S)) = ToSet(s) \cap S
<1>1. Only(s, S) = Among(s, S)
  BY DEF Only, Among
<1> QED BY <1>1, AmongFacts

\* The message is in a queue, and waits; is there, and was steered; is there.
Plain(q, m) == [word |-> m, steered |-> FALSE] \in ToSet(q)
Marked(q, m) == [word |-> m, steered |-> TRUE] \in ToSet(q)
InQueue(q, m) == Plain(q, m) \/ Marked(q, m)

\* One queue holds what another does.
Alike(q, r) == \A m \in Words : (Plain(q, m) <=> Plain(r, m)) /\ (Marked(q, m) <=> Marked(r, m))

\* The entries of a queue, by their message.
LEMMA QueueItems ==
    ASSUME NEW q \in Seq(Item)
    PROVE  /\ \A e \in ToSet(q) : /\ e.word \in Words
                                  /\ e = [word |-> e.word, steered |-> e.steered]
                                  /\ e.steered \in BOOLEAN
                                  /\ ~e.steered => Plain(q, e.word)
                                  /\ e.steered => Marked(q, e.word)
           /\ \A m \in Words : InQueue(q, m) <=> \E i \in DOMAIN q : q[i].word = m
           /\ \A i \in DOMAIN q : q[i] \in Item /\ q[i] \in ToSet(q)
           /\ ToSet(q) \subseteq Item
<1>1. \A i \in DOMAIN q : q[i] \in Item /\ q[i] \in ToSet(q)
  BY DEF ToSet
<1>2. ToSet(q) \subseteq Item
  BY <1>1 DEF ToSet
<1>3. \A e \in Item : e.word \in Words /\ e.steered \in BOOLEAN
                      /\ e = [word |-> e.word, steered |-> e.steered]
  BY DEF Item
<1>4. \A e \in ToSet(q) : /\ ~e.steered => Plain(q, e.word)
                          /\ e.steered => Marked(q, e.word)
  <2>1. ASSUME NEW e \in ToSet(q)
        PROVE  /\ ~e.steered => Plain(q, e.word)
               /\ e.steered => Marked(q, e.word)
    <3>1. e \in Item
      BY <1>2
    <3>2. e = [word |-> e.word, steered |-> e.steered] /\ e.steered \in BOOLEAN
      BY <1>3, <3>1
    <3>3. CASE e.steered
      <4>1. e.steered = TRUE
        BY <3>2, <3>3
      <4>2. e = [word |-> e.word, steered |-> TRUE]
        BY <3>2, <4>1
      <4> QED BY <3>3, <4>2 DEF Marked
    <3>4. CASE ~e.steered
      <4>1. e.steered = FALSE
        BY <3>2, <3>4
      <4>2. e = [word |-> e.word, steered |-> FALSE]
        BY <3>2, <4>1
      <4> QED BY <3>4, <4>2 DEF Plain
    <3> QED BY <3>3, <3>4
  <2> QED BY <2>1
<1>5. ASSUME NEW m \in Words
      PROVE  InQueue(q, m) <=> \E i \in DOMAIN q : q[i].word = m
  <2>1. ASSUME InQueue(q, m) PROVE \E i \in DOMAIN q : q[i].word = m
    <3>1. PICK e \in ToSet(q) : e.word = m
      BY <2>1 DEF InQueue, Plain, Marked
    <3>2. PICK i \in DOMAIN q : q[i] = e
      BY <3>1 DEF ToSet
    <3> QED BY <3>1, <3>2
  <2>2. ASSUME NEW i \in DOMAIN q, q[i].word = m PROVE InQueue(q, m)
    <3>1. q[i] \in ToSet(q) /\ q[i].steered \in BOOLEAN
      BY <1>1, <1>3
    <3> QED BY <1>4, <2>2, <3>1 DEF InQueue
  <2> QED BY <2>1, <2>2
<1> QED BY <1>1, <1>2, <1>3, <1>4, <1>5

\* A queue of which some entries are kept.
LEMMA OnlyItems ==
    ASSUME NEW q \in Seq(Item), NEW S
    PROVE  /\ Only(q, S) \in Seq(Item)
           /\ \A m \in Words :
                 /\ Plain(Only(q, S), m) <=> Plain(q, m) /\ [word |-> m, steered |-> FALSE] \in S
                 /\ Marked(Only(q, S), m) <=> Marked(q, m) /\ [word |-> m, steered |-> TRUE] \in S
  BY OnlyFacts DEF Plain, Marked

\* What waits.
LEMMA WaitingItems ==
    ASSUME NEW q \in Seq(Item)
    PROVE  /\ Waiting(q) \in Seq(Item)
           /\ \A m \in Words : (Plain(Waiting(q), m) <=> Plain(q, m)) /\ ~Marked(Waiting(q), m)
           /\ Waiting(q) # <<>> <=> \E m \in Words : Plain(q, m)
           /\ Waiting(q) # <<>> => Head(Waiting(q)).word \in Words /\ Plain(q, Head(Waiting(q)).word)
<1> DEFINE t == Waiting(q)
<1>1. t \in Seq(Item) /\ ToSet(t) = ToSet(q) \cap [word : Words, steered : {FALSE}]
  BY OnlyFacts DEF Waiting
<1>2. \A m \in Words : (Plain(t, m) <=> Plain(q, m)) /\ ~Marked(t, m)
  BY <1>1 DEF Plain, Marked
<1> HIDE DEF t
<1>3. ASSUME t # <<>>
      PROVE  Head(t).word \in Words /\ Plain(q, Head(t).word)
  <2>1. Head(t) \in ToSet(t)
    <3>1. Len(t) \in Nat /\ Len(t) # 0 /\ DOMAIN t = 1 .. Len(t) /\ Head(t) = t[1]
      BY <1>1, <1>3
    <3>2. 1 \in DOMAIN t
      BY <3>1
    <3> QED BY <3>1, <3>2 DEF ToSet
  <2>2. Head(t) \in ToSet(q) /\ Head(t) \in [word : Words, steered : {FALSE}]
    BY <1>1, <2>1
  <2>3. Head(t) = [word |-> Head(t).word, steered |-> FALSE] /\ Head(t).word \in Words
    BY <2>2
  <2> QED BY <2>2, <2>3 DEF Plain
<1>4. ASSUME NEW m \in Words, Plain(q, m)
      PROVE  t # <<>>
  <2>1. Plain(t, m)
    BY <1>2, <1>4
  <2>2. PICK i \in DOMAIN t : t[i] = [word |-> m, steered |-> FALSE]
    BY <2>1 DEF Plain, ToSet
  <2> QED BY <1>1, <2>2
<1> QED BY <1>1, <1>2, <1>3, <1>4 DEF t

\* An empty queue has nothing.
LEMMA EmptyItems == \A m \in Words : ~InQueue(<<>>, m)
  BY DEF InQueue, Plain, Marked, ToSet

\* One more message.
LEMMA AppendItems ==
    ASSUME NEW q \in Seq(Item), NEW m \in Words
    PROVE  /\ Append(q, [word |-> m, steered |-> FALSE]) \in Seq(Item)
           /\ \A x \in Words :
                 /\ Plain(Append(q, [word |-> m, steered |-> FALSE]), x) <=> Plain(q, x) \/ x = m
                 /\ Marked(Append(q, [word |-> m, steered |-> FALSE]), x) <=> Marked(q, x)
<1> DEFINE e == [word |-> m, steered |-> FALSE]
           t == Append(q, e)
<1>1. e \in Item
  BY DEF Item
<1> HIDE DEF e
<1>2. /\ t \in Seq(Item) /\ Len(t) = Len(q) + 1 /\ DOMAIN t = 1 .. Len(q) + 1
      /\ DOMAIN q = 1 .. Len(q) /\ Len(q) \in Nat
      /\ \A i \in 1 .. Len(q) : t[i] = q[i]
      /\ t[Len(q) + 1] = e
  BY <1>1
<1> HIDE DEF t
<1>3. ToSet(t) = ToSet(q) \cup {e}
  <2>1. \A i \in DOMAIN t : t[i] \in ToSet(q) \cup {e}
    <3>1. ASSUME NEW i \in DOMAIN t PROVE t[i] \in ToSet(q) \cup {e}
      <4>1. CASE i \in 1 .. Len(q)
        BY <1>2, <4>1 DEF ToSet
      <4>2. CASE i \notin 1 .. Len(q)
        <5>1. i = Len(q) + 1
          BY <1>2, <4>2
        <5> QED BY <1>2, <5>1
      <4> QED BY <4>1, <4>2
    <3> QED BY <3>1
  <2>2. \A i \in DOMAIN q : q[i] \in ToSet(t)
    <3>1. ASSUME NEW i \in DOMAIN q PROVE q[i] \in ToSet(t)
      <4>1. i \in DOMAIN t /\ t[i] = q[i]
        BY <1>2
      <4> QED BY <4>1 DEF ToSet
    <3> QED BY <3>1
  <2>3. e \in ToSet(t)
    <3>1. Len(q) + 1 \in DOMAIN t
      BY <1>2
    <3> QED BY <1>2, <3>1 DEF ToSet
  <2> QED BY <2>1, <2>2, <2>3 DEF ToSet
<1> QED BY <1>2, <1>3 DEF Plain, Marked, e, t

\* One message in front.
LEMMA FrontItems ==
    ASSUME NEW q \in Seq(Item), NEW m \in Words
    PROVE  /\ <<[word |-> m, steered |-> FALSE]>> \o q \in Seq(Item)
           /\ \A x \in Words :
                 /\ Plain(<<[word |-> m, steered |-> FALSE]>> \o q, x) <=> Plain(q, x) \/ x = m
                 /\ Marked(<<[word |-> m, steered |-> FALSE]>> \o q, x) <=> Marked(q, x)
<1> DEFINE e == [word |-> m, steered |-> FALSE]
           t == <<e>> \o q
<1>1. e \in Item
  BY DEF Item
<1> HIDE DEF e
<1>2. /\ t \in Seq(Item) /\ Len(t) = Len(q) + 1 /\ DOMAIN t = 1 .. Len(q) + 1
      /\ DOMAIN q = 1 .. Len(q) /\ Len(q) \in Nat
      /\ \A i \in 1 .. Len(q) : t[i + 1] = q[i]
      /\ t[1] = e
  <2>1. <<e>> \in Seq(Item) /\ Len(<<e>>) = 1 /\ <<e>>[1] = e
    BY <1>1
  <2> QED BY <2>1
<1> HIDE DEF t
<1>3. ToSet(t) = ToSet(q) \cup {e}
  <2>1. \A i \in DOMAIN t : t[i] \in ToSet(q) \cup {e}
    <3>1. ASSUME NEW i \in DOMAIN t PROVE t[i] \in ToSet(q) \cup {e}
      <4>1. CASE i # 1
        <5>1. i - 1 \in 1 .. Len(q) /\ i = (i - 1) + 1
          BY <1>2, <4>1
        <5>2. t[i] = q[i - 1]
          BY <1>2, <5>1
        <5> QED BY <1>2, <5>1, <5>2 DEF ToSet
      <4>2. CASE i = 1
        BY <1>2, <4>2
      <4> QED BY <4>1, <4>2
    <3> QED BY <3>1
  <2>2. \A i \in DOMAIN q : q[i] \in ToSet(t)
    <3>1. ASSUME NEW i \in DOMAIN q PROVE q[i] \in ToSet(t)
      <4>1. i + 1 \in DOMAIN t /\ t[i + 1] = q[i]
        BY <1>2
      <4> QED BY <4>1 DEF ToSet
    <3> QED BY <3>1
  <2>3. e \in ToSet(t)
    <3>1. 1 \in DOMAIN t
      BY <1>2
    <3> QED BY <1>2, <3>1 DEF ToSet
  <2> QED BY <2>1, <2>2, <2>3 DEF ToSet
<1> QED BY <1>2, <1>3 DEF Plain, Marked, e, t

\* Some messages are marked, or no longer.
LEMMA MarkItems ==
    ASSUME NEW q \in Seq(Item), NEW M, NEW is \in BOOLEAN
    PROVE  /\ Mark(q, M, is) \in Seq(Item)
           /\ \A x \in Words :
                 /\ Plain(Mark(q, M, is), x) <=> IF x \in M THEN ~is /\ InQueue(q, x) ELSE Plain(q, x)
                 /\ Marked(Mark(q, M, is), x) <=> IF x \in M THEN is /\ InQueue(q, x) ELSE Marked(q, x)
<1> DEFINE t == Mark(q, M, is)
<1>1. /\ DOMAIN q = 1 .. Len(q) /\ Len(q) \in Nat /\ DOMAIN t = DOMAIN q
      /\ \A i \in DOMAIN q : t[i] = IF q[i].word \in M THEN [q[i] EXCEPT !.steered = is] ELSE q[i]
  BY DEF Mark
<1>2. /\ \A i \in DOMAIN q : q[i] \in Item
      /\ \A e \in Item : /\ e.word \in Words /\ e.steered \in BOOLEAN
                         /\ e = [word |-> e.word, steered |-> e.steered]
                         /\ [e EXCEPT !.steered = is] = [word |-> e.word, steered |-> is]
                         /\ [word |-> e.word, steered |-> is] \in Item
  <2>1. \A i \in DOMAIN q : q[i] \in Item
    BY QueueItems
  <2>2. \A e \in Item : /\ e.word \in Words /\ e.steered \in BOOLEAN
                        /\ e = [word |-> e.word, steered |-> e.steered]
                        /\ [e EXCEPT !.steered = is] = [word |-> e.word, steered |-> is]
                        /\ [word |-> e.word, steered |-> is] \in Item
    BY DEF Item
  <2> QED BY <2>1, <2>2
<1>3. \A i \in DOMAIN q : t[i] = [word |-> q[i].word,
                                  steered |-> IF q[i].word \in M THEN is ELSE q[i].steered]
  BY <1>1, <1>2
<1> HIDE DEF t
<1>4. t \in Seq(Item)
  <2>1. ASSUME NEW i \in 1 .. Len(q) PROVE t[i] \in Item
    <3>1. i \in DOMAIN q /\ q[i] \in Item
      BY <1>1, <1>2
    <3>2. CASE q[i].word \in M
      <4>1. t[i] = [word |-> q[i].word, steered |-> is]
        BY <1>3, <3>1, <3>2
      <4> QED BY <1>2, <3>1, <4>1
    <3>3. CASE q[i].word \notin M
      BY <1>1, <3>1, <3>3
    <3> QED BY <3>2, <3>3
  <2>2. t = [i \in 1 .. Len(q) |-> t[i]]
    BY <1>1 DEF t, Mark
  <2> QED BY <1>1, <2>1, <2>2
<1>5. ASSUME NEW x \in Words, NEW f \in BOOLEAN
      PROVE  [word |-> x, steered |-> f] \in ToSet(t)
                <=> IF x \in M THEN f = is /\ InQueue(q, x) ELSE [word |-> x, steered |-> f] \in ToSet(q)
  <2>1. [word |-> x, steered |-> f] \in ToSet(t)
           <=> \E i \in DOMAIN q : t[i] = [word |-> x, steered |-> f]
    BY <1>1 DEF ToSet
  <2>2. ASSUME NEW i \in DOMAIN q
        PROVE  t[i] = [word |-> x, steered |-> f]
                 <=> q[i].word = x /\ (IF x \in M THEN is ELSE q[i].steered) = f
    <3> DEFINE a == q[i].word
               b == IF a \in M THEN is ELSE q[i].steered
    <3>1. t[i] = [word |-> a, steered |-> b]
      BY <1>3
    <3> HIDE DEF a, b
    <3>2. t[i] = [word |-> x, steered |-> f] <=> a = x /\ b = f
      BY <3>1
    <3> QED BY <3>2 DEF a, b
  <2>3. CASE x \in M
    <3>1. InQueue(q, x) <=> \E i \in DOMAIN q : q[i].word = x
      BY QueueItems
    <3> QED BY <2>1, <2>2, <2>3, <3>1
  <2>4. CASE x \notin M
    <3>1. [word |-> x, steered |-> f] \in ToSet(q)
             <=> \E i \in DOMAIN q : q[i] = [word |-> x, steered |-> f]
      BY DEF ToSet
    <3>2. ASSUME NEW i \in DOMAIN q
          PROVE  q[i] = [word |-> x, steered |-> f] <=> q[i].word = x /\ q[i].steered = f
      BY <1>2
    <3> QED BY <2>1, <2>2, <2>4, <3>1, <3>2
  <2> QED BY <2>3, <2>4
<1> QED BY <1>4, <1>5 DEF Plain, Marked, t

-----------------------------------------------------------------------------
(* The types of what PopOut keeps.                                         *)

PaneCopies == [session : BOOLEAN, queue : Seq(Item), held : BOOLEAN, working : BOOLEAN,
           ended : BOOLEAN]
Signals == [is : {"started", "finished", "failed", "exit"}, word : {NoState}]
              \cup [is : {"echo"}, word : Words]
Letters == [is : {"synced", "closed"}, state : State]

Goes(i) == popped[i].stage \in {"going", "building", "failed"}
Runs == front \in {"adopted", "wired"}

SessionTyped ==
    /\ opening \in BOOLEAN /\ alive \in BOOLEAN /\ running \in BOOLEAN
    /\ coming \in [Window -> Seq(Signals)]
    /\ \A w \in Window : Len(coming[w]) <= MaxComing
    /\ taken \in [Words -> 0 .. 2]
    /\ written \subseteq Words /\ dropped \subseteq Words
    /\ left \in BOOLEAN

CallTyped ==
    /\ copy \in [Window -> PaneCopies]
    /\ draining \in [Window -> [word : Words, stage : {"waiting", "going", "yes", "no"}] \cup {NoCall}]
    /\ steers \in [Window -> [Words -> {"none", "going", "no"}]]
    /\ adrift \subseteq [word : Words, how : {"send", "steer"}]

MoveTyped ==
    /\ out \in BOOLEAN /\ torn \in BOOLEAN /\ crossed \in BOOLEAN
    /\ popped \in [Pop -> [stage : {"none", "going", "building", "failed", "done"},
                           state : State \cup {NoState}]]
    /\ \A i \in Pop : Goes(i) => popped[i].state \in State
    /\ entry \in State \cup {NoState} /\ last \in State \cup {NoState}
    /\ report \in State \cup {NoState}
    /\ inbox \in Seq(Letters)

\* A window whose frontend does not run has nothing of the pane.
FrontInv ==
    /\ frame \in {"none", "up", "closing"}
    /\ front \in {"none", "starting", "lost", "adopted", "wired"}
    /\ (front = "none") = (frame = "none")
    /\ ~Runs => copy["own"] = Blank /\ coming["own"] = <<>> /\ ~Calling("own")
    /\ front # "wired" => last = NoState
    /\ front = "wired" => last \in State

PopTyped == SessionTyped /\ CallTyped /\ MoveTyped /\ FrontInv

LEMMA CopyTyped ==
    ASSUME CallTyped
    PROVE  \A w \in Window :
              /\ copy[w] \in PaneCopies /\ copy[w].queue \in Seq(Item) /\ StateOf(w) \in State
              /\ draining[w] \in [word : Words, stage : {"waiting", "going", "yes", "no"}] \cup {NoCall}
              /\ steers[w] \in [Words -> {"none", "going", "no"}]
  BY DEF CallTyped, PaneCopies, StateOf, State

LEMMA DrainTyped ==
    ASSUME CallTyped
    PROVE  \A w \in Window :
              /\ draining[w].stage \in {"none", "waiting", "going", "yes", "no"}
              /\ draining[w] = NoCall <=> draining[w].stage = "none"
              /\ draining[w] # NoCall => draining[w].word \in Words
<1>1. ASSUME NEW d \in [word : Words, stage : {"waiting", "going", "yes", "no"}]
      PROVE  d.stage \in {"waiting", "going", "yes", "no"} /\ d.word \in Words /\ d # NoCall
  BY DEF NoCall
<1>2. NoCall.stage = "none"
  BY DEF NoCall
<1> QED BY <1>1, <1>2, CopyTyped

\* Changes of a copy leave it one.
LEMMA CopyFields ==
    ASSUME NEW p \in PaneCopies, NEW q \in Seq(Item), NEW b \in BOOLEAN, NEW c \in BOOLEAN
    PROVE  /\ [p EXCEPT !.queue = q] \in PaneCopies /\ [p EXCEPT !.held = b] \in PaneCopies
           /\ [p EXCEPT !.working = b] \in PaneCopies
           /\ [p EXCEPT !.queue = q, !.held = b] \in PaneCopies
           /\ [p EXCEPT !.working = b, !.queue = q] \in PaneCopies
           /\ [p EXCEPT !.session = b, !.working = c, !.ended = FALSE] \in PaneCopies
           /\ [p EXCEPT !.working = FALSE, !.ended = TRUE, !.queue = q] \in PaneCopies
           /\ p.queue \in Seq(Item) /\ p.held \in BOOLEAN /\ p.working \in BOOLEAN
           /\ p.session \in BOOLEAN /\ p.ended \in BOOLEAN
  BY DEF PaneCopies

LEMMA CopyParts ==
    ASSUME NEW p \in PaneCopies
    PROVE  /\ p.queue \in Seq(Item) /\ p.held \in BOOLEAN /\ p.working \in BOOLEAN
           /\ p.session \in BOOLEAN /\ p.ended \in BOOLEAN
  BY DEF PaneCopies

LEMMA HeldTyped == ASSUME NEW p \in PaneCopies PROVE Held(p) \in PaneCopies
  BY DEF Held, PaneCopies

LEMMA DrainsTyped ==
    ASSUME SessionTyped, CallTyped, NEW w \in Window, NEW p \in PaneCopies, Drains(w, p),
           UNCHANGED <<steers, adrift>>
    PROVE  CallTyped' /\ left' \in BOOLEAN
<1>1. copy' \in [Window -> PaneCopies]
  BY DEF Drains, CallTyped
<1>2. Free(p) => Head(Waiting(p.queue)).word \in Words
  BY WaitingItems, CopyParts DEF Free
<1>3. draining' \in [Window -> [word : Words, stage : {"waiting", "going", "yes", "no"}] \cup {NoCall}]
  <2> DEFINE h == Head(Waiting(p.queue)).word
             st == IF p.ended THEN "no" ELSE IF p.session THEN "going" ELSE "waiting"
  <2>1. st \in {"waiting", "going", "yes", "no"}
    OBVIOUS
  <2>2. \/ draining' = draining
        \/ Free(p) /\ draining' = [draining EXCEPT ![w] = [word |-> h, stage |-> st]]
    BY DEF Drains
  <2>3. Free(p) => h \in Words
    BY <1>2
  <2> HIDE DEF h, st
  <2> QED BY <2>1, <2>2, <2>3 DEF CallTyped
<1>4. left' \in BOOLEAN
  BY DEF Drains, SessionTyped
<1> QED BY <1>1, <1>3, <1>4 DEF CallTyped

LEMMA KeepsTyped ==
    ASSUME SessionTyped, CallTyped, NEW w \in Window, NEW p \in PaneCopies, Keeps(w, p)
    PROVE  /\ copy' \in [Window -> PaneCopies] /\ left' \in BOOLEAN
           /\ UNCHANGED <<steers, adrift>> => CallTyped'
  BY DEF Keeps, CallTyped, SessionTyped

\* What a window has still to hear, when the session says more.
LEMMA SaysTyped ==
    ASSUME SessionTyped, CallTyped, NEW events \in Seq(Signals), Says(events)
    PROVE  /\ coming' \in [Window -> Seq(Signals)]
           /\ \A w \in Window : Len(coming'[w]) <= MaxComing
           /\ \A w \in Window : coming'[w] = IF copy[w].session THEN coming[w] \o events ELSE coming[w]
<1>1. \A w \in Window : coming'[w] = IF copy[w].session THEN coming[w] \o events ELSE coming[w]
  BY DEF Says
<1>2. ASSUME NEW w \in Window
      PROVE  coming'[w] \in Seq(Signals) /\ Len(coming'[w]) <= MaxComing
  <2>1. coming[w] \in Seq(Signals) /\ Len(coming[w]) <= MaxComing
        /\ Len(coming[w]) + Len(events) <= MaxComing
    BY DEF Says, SessionTyped
  <2>2. coming[w] \o events \in Seq(Signals) /\ Len(coming[w] \o events) = Len(coming[w]) + Len(events)
    BY <2>1
  <2> QED BY <1>1, <2>1, <2>2
<1>3. coming' = [w \in Window |-> coming'[w]]
  BY DEF Says
<1> QED BY <1>1, <1>2, <1>3

LEMMA SignalsAre ==
    /\ <<>> \in Seq(Signals)
    /\ \A kind \in {"started", "finished", "failed", "exit"} : <<Event(kind)>> \in Seq(Signals)
    /\ \A m \in Words : <<Echo(m)>> \in Seq(Signals)
    /\ \A e \in Signals : e.is = "echo" => e.word \in Words
<1>1. \A kind \in {"started", "finished", "failed", "exit"} : Event(kind) \in Signals
  BY DEF Event, Signals
<1>2. \A m \in Words : Echo(m) \in Signals
  BY DEF Echo, Signals
<1>3. \A e \in Signals : e.is = "echo" => e.word \in Words
  BY DEF Signals
<1> QED BY <1>1, <1>2, <1>3

\* What a call that reaches the session has it say.
Saying(m, how) == (IF running THEN <<>> ELSE <<Event("started")>>)
                      \o (IF how = "steer" THEN <<Echo(m)>> ELSE <<>>)

LEMMA SayingIs ==
    ASSUME NEW m \in Words, NEW how
    PROVE  /\ Saying(m, how) \in Seq(Signals)
           /\ \A k \in DOMAIN Saying(m, how) : Saying(m, how)[k] \in {Event("started"), Echo(m)}
<1>1. /\ <<>> \in Seq(Signals) /\ <<Event("started")>> \in Seq(Signals)
      /\ <<Echo(m)>> \in Seq(Signals)
  BY SignalsAre
<1> DEFINE a == IF running THEN <<>> ELSE <<Event("started")>>
           b == IF how = "steer" THEN <<Echo(m)>> ELSE <<>>
<1>2. a \in Seq(Signals) /\ Len(a) \in Nat /\ \A k \in 1 .. Len(a) : a[k] = Event("started")
  BY <1>1
<1>3. b \in Seq(Signals) /\ Len(b) \in Nat /\ \A k \in 1 .. Len(b) : b[k] = Echo(m)
  BY <1>1
<1>4. Saying(m, how) = a \o b
  BY DEF Saying
<1> HIDE DEF a, b
<1>5. a \o b \in Seq(Signals) /\ DOMAIN (a \o b) = 1 .. Len(a) + Len(b)
  BY <1>2, <1>3
<1>6. \A k \in 1 .. Len(a) + Len(b) : (a \o b)[k] = IF k <= Len(a) THEN a[k] ELSE b[k - Len(a)]
  BY <1>2, <1>3
<1>7. ASSUME NEW k \in 1 .. Len(a) + Len(b)
      PROVE  (a \o b)[k] \in {Event("started"), Echo(m)}
  <2>1. CASE k <= Len(a)
    <3>1. k \in 1 .. Len(a)
      BY <1>2, <1>3, <2>1
    <3> QED BY <1>2, <1>6, <2>1, <3>1
  <2>2. CASE ~(k <= Len(a))
    <3>1. k - Len(a) \in 1 .. Len(b)
      BY <1>2, <1>3, <2>2
    <3> QED BY <1>3, <1>6, <2>2, <3>1
  <2> QED BY <2>1, <2>2
<1> QED BY <1>4, <1>5, <1>7

LEMMA GivenIs ==
    ASSUME SessionTyped, CallTyped, NEW m \in Words, NEW how, Given(m, how)
    PROVE  /\ alive /\ alive' = alive /\ opening' = opening /\ running' = TRUE
           /\ taken' \in [Words -> 0 .. 2]
           /\ taken'[m] = (IF taken[m] < 2 THEN taken[m] + 1 ELSE taken[m])
           /\ \A x \in Words \ {m} : taken'[x] = taken[x]
           /\ coming' \in [Window -> Seq(Signals)]
           /\ \A w \in Window : Len(coming'[w]) <= MaxComing
           /\ \A w \in Window :
                 coming'[w] = IF copy[w].session THEN coming[w] \o Saying(m, how) ELSE coming[w]
<1>1. alive /\ alive' = alive /\ opening' = opening /\ running' = TRUE
  BY DEF Given
<1>2. taken' = [taken EXCEPT ![m] = IF @ < 2 THEN @ + 1 ELSE @]
  BY DEF Given
<1>3. taken \in [Words -> 0 .. 2]
  BY DEF SessionTyped
<1>4. Says(Saying(m, how)) /\ Saying(m, how) \in Seq(Signals)
  BY SayingIs DEF Given, Saying
<1> QED BY <1>1, <1>2, <1>3, <1>4, SaysTyped

LEMMA FrontStays ==
    ASSUME FrontInv, UNCHANGED <<frame, front, last>>,
           \/ Runs
           \/ UNCHANGED <<copy["own"], coming["own"], draining["own"], steers["own"]>>
    PROVE  FrontInv'
  BY DEF FrontInv, Runs, Calling

\* The window of an action is the main one, or there is a frontend that runs.
LEMMA OwnActs ==
    ASSUME FrontInv, NEW w \in Window, Shows(w) \/ Calling(w) \/ coming[w] # <<>>
    PROVE  w = "main" \/ Runs
  BY DEF FrontInv, Runs, Shows, Window

\* What the session says is heard by the windows that have it.
LEMMA TypedSays ==
    ASSUME PopTyped, NEW events \in Seq(Signals), Says(events),
           UNCHANGED <<taken, written, copy, callVars, moveVars, dropped, torn, crossed, left>>,
           opening' \in BOOLEAN, alive' \in BOOLEAN, running' \in BOOLEAN
    PROVE  PopTyped'
<1> USE DEF PopTyped, moveVars, callVars
<1>1. /\ coming' \in [Window -> Seq(Signals)]
      /\ \A w \in Window : Len(coming'[w]) <= MaxComing
      /\ \A w \in Window : coming'[w] = IF copy[w].session THEN coming[w] \o events ELSE coming[w]
  BY SaysTyped
<1>2. SessionTyped'
  BY <1>1 DEF SessionTyped
<1>3. CallTyped' /\ MoveTyped'
  BY DEF CallTyped, MoveTyped, Goes
<1>4. FrontInv'
  <2>1. CASE Runs
    BY <2>1, FrontStays
  <2>2. CASE ~Runs
    <3>1. ~copy["own"].session
      BY <2>2 DEF FrontInv, Blank
    <3> QED BY <1>1, <3>1, FrontStays DEF Window
  <2> QED BY <2>1, <2>2
<1> QED BY <1>2, <1>3, <1>4

\* What a call gives the session, too.
LEMMA TypedGiven ==
    ASSUME PopTyped, NEW m \in Words, NEW how, Given(m, how), CallTyped', UNCHANGED copy,
           UNCHANGED <<written, moveVars, dropped, torn, crossed, left>>,
           Runs \/ UNCHANGED <<draining["own"], steers["own"]>>
    PROVE  PopTyped'
<1> USE DEF PopTyped, moveVars
<1>1. /\ alive' = alive /\ opening' = opening /\ running' = TRUE /\ taken' \in [Words -> 0 .. 2]
      /\ coming' \in [Window -> Seq(Signals)]
      /\ \A w \in Window : Len(coming'[w]) <= MaxComing
      /\ \A w \in Window :
            coming'[w] = IF copy[w].session THEN coming[w] \o Saying(m, how) ELSE coming[w]
  BY GivenIs
<1>2. SessionTyped'
  BY <1>1 DEF SessionTyped
<1>3. MoveTyped'
  BY DEF MoveTyped, Goes
<1>4. FrontInv'
  <2>1. CASE Runs
    BY <2>1, FrontStays
  <2>2. CASE ~Runs
    <3>1. ~copy["own"].session
      BY <2>2 DEF FrontInv, Blank
    <3> QED BY <1>1, <2>2, <3>1, FrontStays DEF Window
  <2> QED BY <2>1, <2>2
<1> QED BY <1>2, <1>3, <1>4

\* A window's own step, which leaves the session and the moves as they are.
LEMMA TypedActs ==
    ASSUME PopTyped, NEW w \in Window, Shows(w) \/ Calling(w) \/ coming[w] # <<>>,
           UNCHANGED <<opening, alive, running, taken, moveVars, crossed>>,
           \/ UNCHANGED coming
           \/ coming[w] # <<>> /\ coming' = [coming EXCEPT ![w] = Tail(@)],
           CallTyped', left' \in BOOLEAN, written' \subseteq Words, dropped' \subseteq Words,
           torn' \in BOOLEAN,
           \A v \in Window \ {w} : /\ copy'[v] = copy[v] /\ draining'[v] = draining[v]
                                    /\ steers'[v] = steers[v]
    PROVE  PopTyped'
<1> USE DEF PopTyped, moveVars
<1>1. /\ coming' \in [Window -> Seq(Signals)]
      /\ \A v \in Window : Len(coming'[v]) <= MaxComing
      /\ \A v \in Window \ {w} : coming'[v] = coming[v]
  <2>1. CASE coming' = coming
    BY <2>1 DEF SessionTyped
  <2>2. CASE coming[w] # <<>> /\ coming' = [coming EXCEPT ![w] = Tail(@)]
    <3>1. coming[w] \in Seq(Signals) /\ Len(coming[w]) <= MaxComing
      BY DEF SessionTyped
    <3>2. Tail(coming[w]) \in Seq(Signals) /\ Len(Tail(coming[w])) = Len(coming[w]) - 1
          /\ Len(coming[w]) \in Nat
      BY <2>2, <3>1
    <3>3. MaxComing \in Nat
      BY PopOutAssumption
    <3>4. Len(Tail(coming[w])) <= MaxComing
      BY <3>1, <3>2, <3>3
    <3> QED BY <2>2, <3>2, <3>4 DEF SessionTyped
  <2> QED BY <2>1, <2>2
<1>2. SessionTyped'
  BY <1>1 DEF SessionTyped
<1>3. MoveTyped'
  BY DEF MoveTyped, Goes
<1>4. FrontInv'
  <2>1. CASE Runs
    BY <2>1, FrontStays
  <2>2. CASE ~Runs
    <3>1. w = "main"
      BY <2>2, OwnActs
    <3>2. "own" \in Window \ {w}
      BY <3>1 DEF Window
    <3> QED BY <1>1, <3>2, FrontStays
  <2> QED BY <2>1, <2>2
<1> QED BY <1>2, <1>3, <1>4

LEMMA TypedSession ==
    ASSUME PopTyped, TurnBegins \/ TurnEnds("finished") \/ TurnEnds("failed") \/ Exits
    PROVE  PopTyped'
<1> USE DEF Alone, callVars, PopTyped
<1>1. alive \in BOOLEAN /\ running \in BOOLEAN /\ opening \in BOOLEAN
  BY DEF SessionTyped
<1>2. CASE TurnBegins
  <2>1. Says(<<Event("started")>>) /\ <<Event("started")>> \in Seq(Signals)
    BY <1>2, SignalsAre DEF TurnBegins
  <2>2. /\ UNCHANGED <<taken, written, copy, callVars, moveVars, dropped, torn, crossed, left>>
        /\ opening' \in BOOLEAN /\ alive' \in BOOLEAN /\ running' \in BOOLEAN
    BY <1>1, <1>2 DEF TurnBegins
  <2> QED BY <2>1, <2>2, TypedSays
<1>3. ASSUME NEW how \in {"finished", "failed"}, TurnEnds(how)
      PROVE  PopTyped'
  <2>1. Says(<<Event(how)>>) /\ <<Event(how)>> \in Seq(Signals)
    BY <1>3, SignalsAre DEF TurnEnds
  <2>2. /\ UNCHANGED <<taken, written, copy, callVars, moveVars, dropped, torn, crossed, left>>
        /\ opening' \in BOOLEAN /\ alive' \in BOOLEAN /\ running' \in BOOLEAN
    BY <1>1, <1>3 DEF TurnEnds
  <2> QED BY <2>1, <2>2, TypedSays
<1>4. CASE Exits
  <2>1. Says(<<Event("exit")>>) /\ <<Event("exit")>> \in Seq(Signals)
    BY <1>4, SignalsAre DEF Exits
  <2>2. /\ UNCHANGED <<taken, written, copy, callVars, moveVars, dropped, torn, crossed, left>>
        /\ opening' \in BOOLEAN /\ alive' \in BOOLEAN /\ running' \in BOOLEAN
    BY <1>1, <1>4 DEF Exits
  <2> QED BY <2>1, <2>2, TypedSays
<1> QED BY <1>2, <1>3, <1>4

LEMMA AttachedTyped ==
    ASSUME NEW p \in PaneCopies, running \in BOOLEAN
    PROVE  Attached(p) \in PaneCopies
  BY DEF Attached, PaneCopies

LEMMA TypedClaims == ASSUME PopTyped, ClaimOrClose PROVE PopTyped'
<1> USE DEF PopTyped, ClaimOrClose
<1>1. copy' = [copy EXCEPT !["main"] = Attached(@)] /\ UNCHANGED callVars
  OBVIOUS
<1>2. Attached(copy["main"]) \in PaneCopies
  BY AttachedTyped, CopyTyped DEF SessionTyped, Window
<1>3. CallTyped'
  BY <1>1, <1>2 DEF CallTyped, callVars
<1>4. SessionTyped' /\ MoveTyped'
  BY DEF SessionTyped, MoveTyped, moveVars, Goes
<1>5. FrontInv'
  <2>1. UNCHANGED <<copy["own"], coming["own"], draining["own"], steers["own"]>>
    BY <1>1 DEF callVars, CallTyped, Window
  <2> QED BY <2>1, FrontStays DEF moveVars
<1> QED BY <1>3, <1>4, <1>5

LEMMA SteersTyped ==
    ASSUME CallTyped, NEW w \in Window, NEW m \in Words, NEW at \in {"none", "going", "no"},
           steers' = [steers EXCEPT ![w][m] = at]
    PROVE  /\ steers' \in [Window -> [Words -> {"none", "going", "no"}]]
           /\ \A v \in Window \ {w} : steers'[v] = steers[v]
           /\ steers'[w][m] = at /\ \A x \in Words \ {m} : steers'[w][x] = steers[w][x]
  BY DEF CallTyped

LEMMA StageTyped ==
    ASSUME CallTyped, NEW w \in Window, NEW at \in {"waiting", "going", "yes", "no"},
           draining[w] # NoCall, draining' = [draining EXCEPT ![w].stage = at],
           UNCHANGED <<copy, steers, adrift>>
    PROVE  CallTyped' /\ draining'[w] = [word |-> draining[w].word, stage |-> at]
           /\ \A v \in Window \ {w} : draining'[v] = draining[v]
<1>1. draining[w] \in [word : Words, stage : {"waiting", "going", "yes", "no"}]
  BY DEF CallTyped
<1>2. [draining[w] EXCEPT !.stage = at] = [word |-> draining[w].word, stage |-> at]
      /\ [word |-> draining[w].word, stage |-> at]
            \in [word : Words, stage : {"waiting", "going", "yes", "no"}]
  BY <1>1
<1>3. draining'[w] = [word |-> draining[w].word, stage |-> at]
      /\ draining' \in [Window -> [word : Words, stage : {"waiting", "going", "yes", "no"}] \cup {NoCall}]
      /\ \A v \in Window \ {w} : draining'[v] = draining[v]
  BY <1>2 DEF CallTyped
<1> QED BY <1>3 DEF CallTyped

LEMMA DrainsElse ==
    ASSUME CallTyped, NEW w \in Window, NEW p, Drains(w, p) \/ Keeps(w, p)
    PROVE  /\ \A v \in Window \ {w} : copy'[v] = copy[v] /\ draining'[v] = draining[v]
           /\ copy'[w] = p
  BY DEF Drains, Keeps, CallTyped

LEMMA TypedUser ==
    ASSUME PopTyped, NEW w \in Window, NEW m \in Words,
           Enqueue(w, m) \/ SteerQueued(w, m) \/ RemoveQueued(w, m) \/ Interrupt(w)
    PROVE  PopTyped'
<1>0. SessionTyped /\ CallTyped /\ MoveTyped /\ FrontInv
  BY DEF PopTyped
<1> USE DEF ByUser, sessionVars
<1> DEFINE p == copy[w]
           q == copy[w].queue
<1>1. /\ p \in PaneCopies /\ q \in Seq(Item) /\ p.held \in BOOLEAN /\ p.working \in BOOLEAN
      /\ written \subseteq Words /\ torn \in BOOLEAN
  BY <1>0, CopyTyped, CopyParts DEF SessionTyped, MoveTyped
<1> HIDE DEF p, q
<1>2. CASE Enqueue(w, m)
  <2> DEFINE n == Append(q, [word |-> m, steered |-> FALSE])
             r == [p EXCEPT !.queue = Append(@, [word |-> m, steered |-> FALSE]), !.held = FALSE]
  <2>1. n \in Seq(Item)
    BY <1>1, AppendItems
  <2>2. r = [p EXCEPT !.queue = n, !.held = FALSE]
    BY DEF q, p
  <2>3. r \in PaneCopies
    BY <1>1, <2>1, <2>2, CopyFields
  <2>4. Drains(w, r) /\ Shows(w) /\ UNCHANGED <<steers, adrift>>
        /\ written' \subseteq Words /\ torn' \in BOOLEAN
    BY <1>1, <1>2 DEF Enqueue, p
  <2> HIDE DEF r
  <2>5. CallTyped' /\ left' \in BOOLEAN
    BY <2>3, <2>4, DrainsTyped, <1>0
  <2>6. \A v \in Window \ {w} : /\ copy'[v] = copy[v] /\ draining'[v] = draining[v]
                                      /\ steers'[v] = steers[v]
    BY <2>4, DrainsElse, <1>0
  <2>7. UNCHANGED <<opening, alive, running, taken, moveVars, crossed, coming, dropped>>
    BY <1>2 DEF Enqueue
  <2>8. dropped \subseteq Words
    BY <1>0 DEF SessionTyped
  <2> QED BY <2>4, <2>5, <2>6, <2>7, <2>8, TypedActs
<1>3. CASE SteerQueued(w, m)
  <2> DEFINE h == [p EXCEPT !.held = FALSE]
  <2>0. h \in PaneCopies /\ h.queue = q /\ h.working = p.working /\ h.session = p.session
    BY <1>1 DEF q, p, PaneCopies
  <2>1. /\ Shows(w) /\ UNCHANGED <<opening, alive, running, taken, moveVars, crossed, coming,
                                   dropped, adrift, written>>
        /\ dropped \subseteq Words
        /\ torn' \in BOOLEAN
    BY <1>0, <1>1, <1>3 DEF SteerQueued, SessionTyped
  <2>2. CASE ~p.working \/ ~p.session
    <3> DEFINE n == <<[word |-> m, steered |-> FALSE]>> \o Without(q, m)
               r == [h EXCEPT !.queue = <<[word |-> m, steered |-> FALSE]>> \o Without(@, m)]
    <3>1. n \in Seq(Item)
      <4>1. Without(q, m) \in Seq(Item)
        BY <1>1, OnlyItems DEF Without
      <4> QED BY <4>1, FrontItems
    <3>2. r = [h EXCEPT !.queue = n]
      BY <2>0
    <3>3. r \in PaneCopies
      BY <2>0, <3>1, <3>2, CopyFields
    <3>4. Drains(w, r) /\ UNCHANGED steers
      BY <1>3, <2>0, <2>2 DEF SteerQueued, p
    <3> HIDE DEF r
    <3>5. CallTyped' /\ left' \in BOOLEAN
      BY <2>1, <3>3, <3>4, DrainsTyped, <1>0
    <3>6. \A v \in Window \ {w} : /\ copy'[v] = copy[v] /\ draining'[v] = draining[v]
                                      /\ steers'[v] = steers[v]
      BY <3>4, DrainsElse, <1>0
    <3> QED BY <1>1, <2>1, <3>5, <3>6, TypedActs
  <2>3. CASE p.working /\ p.session
    <3> DEFINE n == Mark(q, {m}, TRUE)
               r == [h EXCEPT !.queue = Mark(@, {m}, TRUE)]
    <3>1. n \in Seq(Item)
      BY <1>1, MarkItems
    <3>2. r = [h EXCEPT !.queue = n]
      BY <2>0
    <3>3. r \in PaneCopies
      BY <2>0, <3>1, <3>2, CopyFields
    <3>4. Keeps(w, r) /\ steers' = [steers EXCEPT ![w][m] = "going"]
      BY <1>3, <2>0, <2>3 DEF SteerQueued, p
    <3> HIDE DEF r
    <3>5. copy' \in [Window -> PaneCopies] /\ left' \in BOOLEAN /\ UNCHANGED draining
      BY <3>3, <3>4, KeepsTyped, <1>0 DEF Keeps
    <3>6. steers' \in [Window -> [Words -> {"none", "going", "no"}]]
          /\ \A v \in Window \ {w} : steers'[v] = steers[v]
      BY <1>0, <3>4, SteersTyped
    <3>7. CallTyped'
      BY <1>0, <2>1, <3>5, <3>6 DEF CallTyped
    <3>8. \A v \in Window \ {w} : /\ copy'[v] = copy[v] /\ draining'[v] = draining[v]
                                      /\ steers'[v] = steers[v]
      BY <3>4, <3>6, DrainsElse, <1>0
    <3> QED BY <1>1, <2>1, <3>5, <3>7, <3>8, TypedActs
  <2> QED BY <2>2, <2>3
<1>4. CASE RemoveQueued(w, m)
  <2> DEFINE n == Only(q, Item \ {[word |-> m, steered |-> FALSE]})
             b == p.held /\ Waiting(n) # <<>>
             r == [p EXCEPT !.queue = n, !.held = @ /\ Waiting(n) # <<>>]
  <2>1. n \in Seq(Item) /\ b \in BOOLEAN
    BY <1>1, OnlyItems
  <2>2. r = [p EXCEPT !.queue = n, !.held = b]
    OBVIOUS
  <2> HIDE DEF b
  <2>3. r \in PaneCopies
    BY <1>1, <2>1, <2>2, CopyFields
  <2>4. Drains(w, r) /\ Shows(w) /\ UNCHANGED <<steers, adrift>>
        /\ written' \subseteq Words /\ torn' \in BOOLEAN
    BY <1>1, <1>4 DEF RemoveQueued, p, q
  <2> HIDE DEF r
  <2>5. CallTyped' /\ left' \in BOOLEAN
    BY <2>3, <2>4, DrainsTyped, <1>0
  <2>6. \A v \in Window \ {w} : /\ copy'[v] = copy[v] /\ draining'[v] = draining[v]
                                      /\ steers'[v] = steers[v]
    BY <2>4, DrainsElse, <1>0
  <2>7. UNCHANGED <<opening, alive, running, taken, moveVars, crossed, coming, dropped>>
    BY <1>4 DEF RemoveQueued
  <2>8. dropped \subseteq Words
    BY <1>0 DEF SessionTyped
  <2> QED BY <2>4, <2>5, <2>6, <2>7, <2>8, TypedActs
<1>5. CASE Interrupt(w)
  <2>1. Keeps(w, Held(p)) /\ Held(p) \in PaneCopies
    BY <1>1, <1>5, HeldTyped DEF Interrupt, p
  <2>2. Shows(w) /\ UNCHANGED <<opening, alive, running, taken, moveVars, crossed, coming, dropped,
                                steers, adrift, written, torn>>
        /\ dropped \subseteq Words
    BY <1>0, <1>5 DEF Interrupt, SessionTyped
  <2>3. CallTyped' /\ left' \in BOOLEAN
    BY <2>1, <2>2, KeepsTyped, <1>0
  <2>4. \A v \in Window \ {w} : /\ copy'[v] = copy[v] /\ draining'[v] = draining[v]
                                      /\ steers'[v] = steers[v]
    BY <2>1, <2>2, DrainsElse, <1>0
  <2> QED BY <1>1, <2>2, <2>3, <2>4, TypedActs
<1> QED BY <1>2, <1>3, <1>4, <1>5

\* A message is taken off the record of a call, or the call goes.
LEMMA TypedCalls ==
    ASSUME PopTyped, NEW w \in Window,
           Awaited(w) \/ SendLands(w) \/ SendReplies(w)
    PROVE  PopTyped'
<1>0. SessionTyped /\ CallTyped /\ MoveTyped /\ FrontInv
  BY DEF PopTyped
<1>1. /\ copy[w] \in PaneCopies /\ copy[w].queue \in Seq(Item)
      /\ written \subseteq Words /\ dropped \subseteq Words /\ torn \in BOOLEAN /\ left \in BOOLEAN
  BY <1>0, CopyTyped DEF SessionTyped, MoveTyped
<1>2. draining[w] # NoCall /\ draining[w].word \in Words /\ Calling(w)
  <2>1. draining[w].stage \in {"waiting", "going", "yes", "no"}
    BY DEF Awaited, SendLands, SendReplies
  <2> QED BY <1>0, <2>1, DrainTyped DEF Calling
<1>3. ASSUME NEW at \in {"waiting", "going", "yes", "no"},
             draining' = [draining EXCEPT ![w].stage = at], UNCHANGED <<copy, steers, adrift>>
      PROVE  CallTyped' /\ \A v \in Window \ {w} : draining'[v] = draining[v]
  BY <1>0, <1>2, <1>3, StageTyped
<1>4. CASE Awaited(w)
  <2>1. /\ UNCHANGED <<opening, alive, running, coming, taken, moveVars, crossed, written, dropped,
                       torn, left, copy, steers, adrift>>
    BY <1>4 DEF Awaited, ByCall, sessionVars
  <2>2. CallTyped' /\ \A v \in Window \ {w} : draining'[v] = draining[v]
    BY <1>3, <1>4, <2>1 DEF Awaited
  <2> QED BY <1>1, <1>2, <2>1, <2>2, TypedActs
<1>5. CASE SendLands(w)
  <2>1. UNCHANGED <<written, moveVars, dropped, torn, crossed, left, copy, steers, adrift>>
    BY <1>5 DEF SendLands, ByCall
  <2>2. CallTyped' /\ \A v \in Window \ {w} : draining'[v] = draining[v]
    BY <1>3, <1>5, <2>1 DEF SendLands
  <2>3. CASE Given(draining[w].word, "send")
    <3>1. Runs \/ UNCHANGED <<draining["own"], steers["own"]>>
      <4>1. w = "main" \/ Runs
        BY <1>0, <1>2, OwnActs
      <4> QED BY <2>1, <2>2, <4>1 DEF Window
    <3> QED BY <1>2, <2>1, <2>2, <2>3, <3>1, TypedGiven
  <2>4. CASE UNCHANGED sessionVars
    <3>1. UNCHANGED <<opening, alive, running, coming, taken>>
      BY <2>4 DEF sessionVars
    <3> QED BY <1>1, <1>2, <2>1, <2>2, <3>1, TypedActs
  <2> QED BY <1>5, <2>3, <2>4 DEF SendLands
<1>6. CASE SendReplies(w)
  <2> DEFINE p == IF draining[w].stage = "yes"
                  THEN [copy[w] EXCEPT !.queue = Without(@, draining[w].word)]
                  ELSE [copy[w] EXCEPT !.held = TRUE]
  <2>1. /\ UNCHANGED <<opening, alive, running, coming, taken, moveVars, crossed, written, dropped,
                       torn, steers, adrift>>
        /\ copy' = [copy EXCEPT ![w] = p] /\ draining' = [draining EXCEPT ![w] = NoCall]
        /\ left' = (left \/ Free(p))
    BY <1>6 DEF SendReplies, ByCall, sessionVars
  <2>2. p \in PaneCopies
    <3>1. Without(copy[w].queue, draining[w].word) \in Seq(Item)
      BY <1>1, OnlyItems DEF Without
    <3> QED BY <1>1, <3>1, CopyFields
  <2> HIDE DEF p
  <2>3. CallTyped' /\ left' \in BOOLEAN
        /\ \A v \in Window \ {w} : copy'[v] = copy[v] /\ draining'[v] = draining[v]
    BY <1>0, <1>1, <2>1, <2>2 DEF CallTyped
  <2> QED BY <1>1, <1>2, <2>1, <2>3, TypedActs
<1> QED BY <1>4, <1>5, <1>6

LEMMA TypedSteers ==
    ASSUME PopTyped, NEW w \in Window, NEW m \in Words,
           SteerLands(w, m) \/ SteerRefused(w, m)
    PROVE  PopTyped'
<1>0. SessionTyped /\ CallTyped /\ MoveTyped /\ FrontInv
  BY DEF PopTyped
<1>1. /\ copy[w] \in PaneCopies /\ copy[w].queue \in Seq(Item)
      /\ written \subseteq Words /\ dropped \subseteq Words /\ torn \in BOOLEAN /\ left \in BOOLEAN
  BY <1>0, CopyTyped DEF SessionTyped, MoveTyped
<1>2. Calling(w)
  BY DEF Calling, SteerLands, SteerRefused
<1>3. ASSUME NEW at \in {"none", "going", "no"},
             steers' = [steers EXCEPT ![w][m] = at], UNCHANGED <<draining, adrift>>,
             copy' \in [Window -> PaneCopies]
      PROVE  CallTyped' /\ \A v \in Window \ {w} : steers'[v] = steers[v]
  <2>1. steers' \in [Window -> [Words -> {"none", "going", "no"}]]
        /\ \A v \in Window \ {w} : steers'[v] = steers[v]
    BY <1>0, <1>3, SteersTyped
  <2> QED BY <1>0, <1>3, <2>1 DEF CallTyped
<1>4. CASE SteerLands(w, m)
  <2>1. UNCHANGED <<written, moveVars, dropped, torn, crossed, left, copy, draining, adrift>>
    BY <1>4 DEF SteerLands, ByCall
  <2>2. copy' \in [Window -> PaneCopies]
    BY <1>0, <2>1 DEF CallTyped
  <2>3. CallTyped' /\ \A v \in Window \ {w} : steers'[v] = steers[v]
    BY <1>3, <1>4, <2>1, <2>2 DEF SteerLands
  <2>4. CASE Given(m, "steer")
    <3>1. Runs \/ UNCHANGED <<draining["own"], steers["own"]>>
      <4>1. w = "main" \/ Runs
        BY <1>0, <1>2, OwnActs
      <4> QED BY <2>1, <2>3, <4>1 DEF Window
    <3> QED BY <2>1, <2>3, <2>4, <3>1, TypedGiven
  <2>5. CASE UNCHANGED sessionVars
    <3>1. UNCHANGED <<opening, alive, running, coming, taken>>
      BY <2>5 DEF sessionVars
    <3> QED BY <1>1, <1>2, <2>1, <2>3, <3>1, TypedActs
  <2> QED BY <1>4, <2>4, <2>5 DEF SteerLands
<1>5. CASE SteerRefused(w, m)
  <2> DEFINE n == Mark(copy[w].queue, {m}, FALSE)
             p == [copy[w] EXCEPT !.queue = Mark(@, {m}, FALSE)]
  <2>1. /\ UNCHANGED <<opening, alive, running, coming, taken, moveVars, crossed, written, dropped,
                       torn, adrift>>
        /\ Keeps(w, p) /\ steers' = [steers EXCEPT ![w][m] = "none"]
    BY <1>5 DEF SteerRefused, ByCall, sessionVars
  <2>2. p \in PaneCopies
    <3>1. n \in Seq(Item)
      BY <1>1, MarkItems
    <3>2. p = [copy[w] EXCEPT !.queue = n]
      OBVIOUS
    <3> QED BY <1>1, <3>1, <3>2, CopyFields
  <2> HIDE DEF p
  <2>3. copy' \in [Window -> PaneCopies] /\ left' \in BOOLEAN
    BY <1>0, <2>1, <2>2, KeepsTyped
  <2>4. UNCHANGED draining /\ \A v \in Window \ {w} : copy'[v] = copy[v]
    BY <1>0, <2>1, DrainsElse DEF Keeps
  <2>5. CallTyped' /\ \A v \in Window \ {w} : steers'[v] = steers[v]
    BY <1>3, <2>1, <2>3, <2>4
  <2> QED BY <1>1, <1>2, <2>1, <2>3, <2>4, <2>5, TypedActs
<1> QED BY <1>4, <1>5

LEMMA TypedAdrift == ASSUME PopTyped, NEW c \in adrift, AdriftLands(c) PROVE PopTyped'
<1>0. SessionTyped /\ CallTyped /\ MoveTyped /\ FrontInv
  BY DEF PopTyped
<1>1. c.word \in Words
  BY <1>0 DEF CallTyped
<1>2. UNCHANGED <<written, moveVars, dropped, torn, crossed, left, copy, draining, steers>>
      /\ adrift' \subseteq adrift
  BY DEF AdriftLands, ByCall
<1>3. CallTyped'
  BY <1>0, <1>2 DEF CallTyped
<1>4. CASE Given(c.word, c.how)
  <2>1. Runs \/ UNCHANGED <<draining["own"], steers["own"]>>
    BY <1>2
  <2> QED BY <1>1, <1>2, <1>3, <1>4, <2>1, TypedGiven
<1>5. CASE UNCHANGED sessionVars
  <2>1. SessionTyped' /\ MoveTyped'
    BY <1>0, <1>2, <1>5 DEF SessionTyped, MoveTyped, sessionVars, moveVars, Goes
  <2>2. FrontInv'
    BY <1>0, <1>2, <1>5, FrontStays DEF sessionVars, moveVars
  <2> QED BY <1>3, <2>1, <2>2 DEF PopTyped
<1> QED BY <1>4, <1>5 DEF AdriftLands

LEMMA TypedHears == ASSUME PopTyped, NEW w \in Window, Hear(w) PROVE PopTyped'
<1>0. SessionTyped /\ CallTyped /\ MoveTyped /\ FrontInv
  BY DEF PopTyped
<1> DEFINE p == copy[w]
<1>1. /\ p \in PaneCopies /\ p.queue \in Seq(Item)
      /\ written \subseteq Words /\ dropped \subseteq Words /\ torn \in BOOLEAN /\ left \in BOOLEAN
  BY <1>0, CopyTyped DEF SessionTyped, MoveTyped
<1>2. /\ coming[w] # <<>> /\ coming' = [coming EXCEPT ![w] = Tail(@)]
      /\ UNCHANGED <<opening, alive, running, taken, moveVars, crossed, written, torn, steers, adrift>>
      /\ dropped' \subseteq Words
  BY <1>1 DEF Hear
<1> SUFFICES \E r \in PaneCopies : Drains(w, r) \/ Keeps(w, r)
  <2>1. PICK r \in PaneCopies : Drains(w, r) \/ Keeps(w, r)
    OBVIOUS
  <2>2. CallTyped' /\ left' \in BOOLEAN
    BY <1>0, <1>2, <2>1, DrainsTyped, KeepsTyped
  <2>3. \A v \in Window \ {w} : /\ copy'[v] = copy[v] /\ draining'[v] = draining[v]
                                /\ steers'[v] = steers[v]
    BY <1>0, <1>2, <2>1, DrainsElse
  <2>4. written' \subseteq Words /\ torn' \in BOOLEAN
    BY <1>1, <1>2
  <2> QED BY <1>2, <2>2, <2>3, <2>4, TypedActs
<1> DEFINE e == Head(coming[w])
<1>3. \/ e.is = "started" /\ Keeps(w, [p EXCEPT !.working = TRUE])
      \/ e.is = "finished" /\ Drains(w, [p EXCEPT !.working = FALSE, !.queue = Waiting(@)])
      \/ e.is = "finished" /\ Keeps(w, [p EXCEPT !.working = FALSE])
      \/ e.is = "failed" /\ Keeps(w, Held([p EXCEPT !.working = FALSE]))
      \/ e.is = "echo" /\ Keeps(w, [p EXCEPT !.queue = Echoed(@, e.word)])
      \/ e.is = "exit" /\ Keeps(w, Held([p EXCEPT !.working = FALSE, !.ended = TRUE,
                                                  !.queue = Mark(@, Words, FALSE)]))
  BY DEF Hear
<1>4. [p EXCEPT !.working = TRUE] \in PaneCopies /\ [p EXCEPT !.working = FALSE] \in PaneCopies
  BY <1>1, CopyFields
<1>5. [p EXCEPT !.working = FALSE, !.queue = Waiting(@)] \in PaneCopies
  <2>1. Waiting(p.queue) \in Seq(Item)
    BY <1>1, WaitingItems
  <2> QED BY <1>1, <2>1, CopyFields
<1>6. [p EXCEPT !.queue = Echoed(@, e.word)] \in PaneCopies
  <2>1. Echoed(p.queue, e.word) \in Seq(Item)
    BY <1>1, OnlyItems DEF Echoed
  <2> QED BY <1>1, <2>1, CopyFields
<1>7. [p EXCEPT !.working = FALSE, !.ended = TRUE, !.queue = Mark(@, Words, FALSE)] \in PaneCopies
  <2>1. Mark(p.queue, Words, FALSE) \in Seq(Item)
    BY <1>1, MarkItems
  <2> QED BY <1>1, <2>1, CopyFields
<1> QED BY <1>3, <1>4, <1>5, <1>6, <1>7, HeldTyped

LEMMA SyncedTyped ==
    ASSUME CallTyped, SessionTyped, NEW s \in State
    PROVE  Synced(s) \in PaneCopies
<1> DEFINE p == [copy["main"] EXCEPT !.queue = s.queue, !.held = s.held]
<1>1. copy["main"] \in PaneCopies /\ s.queue \in Seq(Item) /\ s.held \in BOOLEAN
      /\ running \in BOOLEAN
  BY CopyTyped DEF State, Window, SessionTyped
<1>2. p \in PaneCopies
  BY <1>1, CopyFields
<1>3. Attached(p) \in PaneCopies
  BY <1>1, <1>2, AttachedTyped
<1>4. [p EXCEPT !.session = FALSE, !.working = FALSE, !.ended = FALSE] \in PaneCopies
  BY <1>2 DEF PaneCopies
<1>5. Synced(s) \in {p, Attached(p), [p EXCEPT !.session = FALSE, !.working = FALSE, !.ended = FALSE]}
  BY DEF Synced
<1> QED BY <1>2, <1>3, <1>4, <1>5

LEMMA TakeTyped ==
    ASSUME CallTyped, SessionTyped, NEW s \in State, Take(s), UNCHANGED callVars,
           UNCHANGED <<opening, alive, running, taken, written, dropped>>, left' \in BOOLEAN
    PROVE  /\ CallTyped' /\ SessionTyped'
           /\ copy'["own"] = copy["own"] /\ coming'["own"] = coming["own"]
<1>1. copy' \in [Window -> PaneCopies] /\ copy'["own"] = copy["own"]
  BY SyncedTyped DEF Take, CallTyped, Window
<1>2. <<>> \in Seq(Signals) /\ Len(<<>>) <= MaxComing
  BY PopOutAssumption
<1>3. /\ coming' \in [Window -> Seq(Signals)] /\ coming'["own"] = coming["own"]
      /\ \A w \in Window : Len(coming'[w]) <= MaxComing
  BY <1>2 DEF Take, SessionTyped, Window
<1> QED BY <1>1, <1>3 DEF CallTyped, SessionTyped, callVars

LEMMA ReturnedTyped ==
    ASSUME CallTyped, SessionTyped, NEW s \in State, Returned(s), out \in BOOLEAN, ByMove,
           UNCHANGED callVars
    PROVE  /\ CallTyped' /\ SessionTyped' /\ out' \in BOOLEAN
           /\ copy'["own"] = copy["own"] /\ coming'["own"] = coming["own"]
<1>1. CASE out
  <2>1. Take(s) /\ left' \in BOOLEAN /\ out' \in BOOLEAN
    BY <1>1 DEF Returned
  <2> QED BY <2>1, TakeTyped DEF ByMove
<1>2. CASE ~out
  <2>1. UNCHANGED <<out, copy, coming, left>>
    BY <1>2 DEF Returned
  <2> QED BY <2>1 DEF CallTyped, SessionTyped, ByMove, callVars
<1> QED BY <1>1, <1>2

LEMMA InboxTyped ==
    ASSUME MoveTyped, NEW s \in State, NEW kind \in {"synced", "closed"}
    PROVE  Append(inbox, Word(kind, s)) \in Seq(Letters)
<1>1. Word(kind, s) \in Letters
  BY DEF Word, Letters
<1> QED BY <1>1 DEF MoveTyped

\* The record of a move changes.
LEMMA PoppedTyped ==
    ASSUME MoveTyped, NEW i \in Pop, NEW to \in {"none", "going", "building", "failed", "done"},
           NEW s \in State \cup {NoState}, s = NoState => to \in {"none", "done"},
           popped' = [popped EXCEPT ![i] = [stage |-> to, state |-> s]]
    PROVE  /\ popped' \in [Pop -> [stage : {"none", "going", "building", "failed", "done"},
                                   state : State \cup {NoState}]]
           /\ \A j \in Pop : Goes(j)' => popped'[j].state \in State
           /\ \A j \in Pop \ {i} : popped'[j] = popped[j]
           /\ popped'[i].stage = to /\ popped'[i].state = s
  BY DEF MoveTyped, Goes

\* A call of pop_out_pane that is on its way, one stage further.
LEMMA StagesOn ==
    ASSUME MoveTyped, NEW i \in Pop, Goes(i), NEW to \in {"building", "failed"},
           popped' = [popped EXCEPT ![i].stage = to]
    PROVE  popped' = [popped EXCEPT ![i] = [stage |-> to, state |-> popped[i].state]]
<1>1. popped[i] \in [stage : {"none", "going", "building", "failed", "done"},
                     state : State \cup {NoState}]
  BY DEF MoveTyped
<1>2. [popped[i] EXCEPT !.stage = to] = [stage |-> to, state |-> popped[i].state]
  BY <1>1
<1> QED BY <1>2 DEF MoveTyped

LEMMA TypedPops ==
    ASSUME PopTyped, NEW i \in Pop, PopOut(i) \/ Insert(i) \/ Build(i) \/ PopFails(i)
    PROVE  PopTyped'
<1>0. SessionTyped /\ CallTyped /\ MoveTyped /\ FrontInv
  BY DEF PopTyped
<1> USE DEF ByMove, BySession
<1>1. CASE PopOut(i)
  <2>1. UNCHANGED <<opening, alive, running, coming, taken, written, dropped, left, copy, draining,
                    steers, adrift, frame, front, last, report, inbox, entry, crossed>>
    BY <1>1 DEF PopOut, callVars
  <2>2. SessionTyped' /\ CallTyped'
    BY <1>0, <2>1 DEF SessionTyped, CallTyped
  <2>3. StateOf("main") \in State /\ StateOf("main") # NoState
    BY <1>0, CopyTyped, PopOutAssumption DEF Window
  <2>4. popped' = [popped EXCEPT ![i] = [stage |-> "going", state |-> StateOf("main")]]
    BY <1>1 DEF PopOut
  <2>5. /\ popped' \in [Pop -> [stage : {"none", "going", "building", "failed", "done"},
                                   state : State \cup {NoState}]]
        /\ \A j \in Pop : Goes(j)' => popped'[j].state \in State
    BY <1>0, <2>3, <2>4, PoppedTyped
  <2>6. out' \in BOOLEAN /\ torn' \in BOOLEAN
    BY <1>0, <1>1 DEF PopOut, MoveTyped
  <2>7. MoveTyped'
    BY <1>0, <2>1, <2>5, <2>6 DEF MoveTyped
  <2>8. FrontInv'
    BY <1>0, <2>1, FrontStays
  <2> QED BY <2>2, <2>7, <2>8 DEF PopTyped
<1>2. CASE Insert(i)
  <2>1. UNCHANGED <<opening, alive, running, coming, taken, written, dropped, left, copy, draining,
                    steers, adrift, frame, front, last, report, inbox, out, torn, crossed>>
    BY <1>2 DEF Insert, callVars
  <2>2. SessionTyped' /\ CallTyped'
    BY <1>0, <2>1 DEF SessionTyped, CallTyped
  <2>3. Goes(i) /\ popped[i].state \in State /\ popped[i].state # NoState
    BY <1>0, <1>2, PopOutAssumption DEF Insert, MoveTyped, Goes
  <2>4. \/ popped' = [popped EXCEPT ![i] = [stage |-> "done", state |-> NoState]]
        \/ popped' = [popped EXCEPT ![i].stage = "failed"]
        \/ popped' = [popped EXCEPT ![i].stage = "building"]
    BY <1>2 DEF Insert
  <2>5. /\ popped' \in [Pop -> [stage : {"none", "going", "building", "failed", "done"},
                                   state : State \cup {NoState}]]
        /\ \A j \in Pop : Goes(j)' => popped'[j].state \in State
    <3>1. CASE popped' = [popped EXCEPT ![i] = [stage |-> "done", state |-> NoState]]
      BY <1>0, <3>1, PoppedTyped
    <3>2. ASSUME NEW to \in {"building", "failed"}, popped' = [popped EXCEPT ![i].stage = to]
          PROVE  <2>5!1 /\ <2>5!2
      <4>1. popped' = [popped EXCEPT ![i] = [stage |-> to, state |-> popped[i].state]]
        BY <1>0, <2>3, <3>2, StagesOn
      <4> QED BY <1>0, <2>3, <4>1, PoppedTyped
    <3> QED BY <2>4, <3>1, <3>2
  <2>6. entry' \in State \cup {NoState}
    BY <1>0, <1>2, <2>3 DEF Insert, MoveTyped
  <2>7. MoveTyped'
    BY <1>0, <2>1, <2>5, <2>6 DEF MoveTyped
  <2>8. FrontInv'
    BY <1>0, <2>1, FrontStays
  <2> QED BY <2>2, <2>7, <2>8 DEF PopTyped
<1>3. CASE Build(i)
  <2>1. UNCHANGED <<opening, alive, running, coming, taken, written, dropped, left, copy, draining,
                    steers, adrift, last, report, inbox, out, torn, crossed>>
    BY <1>3 DEF Build, callVars
  <2>2. SessionTyped' /\ CallTyped'
    BY <1>0, <2>1 DEF SessionTyped, CallTyped
  <2>3. Goes(i) /\ popped[i].state \in State /\ popped[i].state # NoState
    BY <1>0, <1>3, PopOutAssumption DEF Build, MoveTyped, Goes
  <2>5. /\ popped' \in [Pop -> [stage : {"none", "going", "building", "failed", "done"},
                                   state : State \cup {NoState}]]
        /\ \A j \in Pop : Goes(j)' => popped'[j].state \in State
    <3>1. CASE popped' = [popped EXCEPT ![i] = [stage |-> "done", state |-> NoState]]
      BY <1>0, <3>1, PoppedTyped
    <3>2. CASE popped' = [popped EXCEPT ![i].stage = "failed"]
      <4>1. popped' = [popped EXCEPT ![i] = [stage |-> "failed", state |-> popped[i].state]]
        BY <1>0, <2>3, <3>2, StagesOn
      <4> QED BY <1>0, <2>3, <4>1, PoppedTyped
    <3> QED BY <1>3, <3>1, <3>2 DEF Build
  <2>6. entry' \in State \cup {NoState}
    BY <1>0, <1>3 DEF Build, MoveTyped
  <2>7. MoveTyped'
    BY <1>0, <2>1, <2>5, <2>6 DEF MoveTyped
  <2>8. FrontInv'
    <3>1. CASE UNCHANGED <<frame, front>>
      BY <1>0, <2>1, <3>1, FrontStays
    <3>2. CASE frame = "none" /\ frame' = "up" /\ front' = "starting"
      BY <1>0, <2>1, <3>2 DEF FrontInv, Runs, Calling
    <3> QED BY <1>3, <3>1, <3>2 DEF Build
  <2> QED BY <2>2, <2>7, <2>8 DEF PopTyped
<1>4. CASE PopFails(i)
  <2>1. UNCHANGED <<callVars, entry, frame, front, last, report, inbox, torn, crossed>>
    BY <1>4 DEF PopFails
  <2>3. Goes(i) /\ popped[i].state \in State
    BY <1>0, <1>4 DEF PopFails, MoveTyped, Goes
  <2>4. /\ CallTyped' /\ SessionTyped' /\ out' \in BOOLEAN
        /\ copy'["own"] = copy["own"] /\ coming'["own"] = coming["own"]
    BY <1>0, <1>4, <2>1, <2>3, ReturnedTyped DEF PopFails, MoveTyped
  <2>5. /\ popped' \in [Pop -> [stage : {"none", "going", "building", "failed", "done"},
                                   state : State \cup {NoState}]]
        /\ \A j \in Pop : Goes(j)' => popped'[j].state \in State
    BY <1>0, <1>4, PoppedTyped DEF PopFails
  <2>7. MoveTyped'
    BY <1>0, <2>1, <2>4, <2>5 DEF MoveTyped
  <2>8. FrontInv'
    BY <1>0, <2>1, <2>4, FrontStays DEF callVars
  <2> QED BY <2>4, <2>7, <2>8 DEF PopTyped
<1> QED BY <1>1, <1>2, <1>3, <1>4

LEMMA TypedWindow ==
    ASSUME PopTyped, Adopt \/ Lost \/ Wire \/ Reports \/ ReportLands \/ CloseRequested \/ CloseUnbuilt
    PROVE  PopTyped'
<1>0. SessionTyped /\ CallTyped /\ MoveTyped /\ FrontInv
  BY DEF PopTyped
<1> USE DEF ByMove, BySession
<1>1. CASE Adopt
  <2>1. UNCHANGED <<opening, alive, running, coming, taken, written, dropped, draining,
                    steers, adrift, out, popped, entry, frame, last, report, inbox, torn, crossed>>
    BY <1>1 DEF Adopt, callVars
  <2> DEFINE b == IF entry.session THEN Attached(Blank) ELSE Blank
             p == [b EXCEPT !.queue = entry.queue, !.held = entry.held, !.ended = entry.ended]
  <2>2. entry \in State
    BY <1>0, <1>1 DEF Adopt, MoveTyped
  <2>3. Blank \in PaneCopies
    <3>1. <<>> \in Seq(Item)
      OBVIOUS
    <3> QED BY <3>1 DEF Blank, PaneCopies
  <2>4. b \in PaneCopies
    BY <1>0, <2>3, AttachedTyped DEF SessionTyped
  <2> HIDE DEF b
  <2>5. p \in PaneCopies
    BY <2>2, <2>4 DEF State, PaneCopies
  <2>6. copy' = [copy EXCEPT !["own"] = p] /\ left' \in BOOLEAN
    BY <1>1 DEF Adopt, b
  <2> HIDE DEF p
  <2>7. CallTyped' /\ SessionTyped'
    BY <1>0, <2>1, <2>5, <2>6 DEF CallTyped, SessionTyped
  <2>8. MoveTyped'
    BY <1>0, <2>1 DEF MoveTyped, Goes
  <2>9. FrontInv'
    BY <1>0, <1>1, <2>1 DEF FrontInv, Runs, Adopt
  <2> QED BY <2>7, <2>8, <2>9 DEF PopTyped
<1>2. CASE Lost
  <2>1. UNCHANGED <<opening, alive, running, coming, taken, written, dropped, left, copy, draining,
                    steers, adrift, out, popped, entry, frame, last, report, inbox, torn, crossed>>
    BY <1>2 DEF Lost, callVars
  <2>2. SessionTyped' /\ CallTyped' /\ MoveTyped'
    BY <1>0, <2>1 DEF SessionTyped, CallTyped, MoveTyped, Goes
  <2>3. FrontInv'
    BY <1>0, <1>2, <2>1 DEF FrontInv, Runs, Lost, Calling
  <2> QED BY <2>2, <2>3 DEF PopTyped
<1>3. CASE Wire
  <2>1. UNCHANGED <<opening, alive, running, coming, taken, written, dropped, left, copy, draining,
                    steers, adrift, out, popped, entry, frame, report, inbox, crossed>>
    BY <1>3 DEF Wire, callVars
  <2>2. StateOf("own") \in State
    BY <1>0, CopyTyped DEF Window
  <2>3. last' \in State /\ torn' \in BOOLEAN
    BY <1>0, <1>3, <2>2 DEF Wire, MoveTyped
  <2>4. SessionTyped' /\ CallTyped' /\ MoveTyped'
    BY <1>0, <2>1, <2>3 DEF SessionTyped, CallTyped, MoveTyped, Goes
  <2>5. FrontInv'
    BY <1>0, <1>3, <2>1, <2>3 DEF FrontInv, Runs, Wire
  <2> QED BY <2>4, <2>5 DEF PopTyped
<1>4. CASE Reports
  <2>1. UNCHANGED <<opening, alive, running, coming, taken, written, dropped, left, copy, draining,
                    steers, adrift, out, popped, entry, frame, front, inbox, torn, crossed>>
    BY <1>4 DEF Reports, callVars
  <2>2. StateOf("own") \in State
    BY <1>0, CopyTyped DEF Window
  <2>3. last' \in State /\ report' \in State /\ front = "wired"
    BY <1>4, <2>2 DEF Reports, Unsent
  <2>4. SessionTyped' /\ CallTyped' /\ MoveTyped'
    BY <1>0, <2>1, <2>3 DEF SessionTyped, CallTyped, MoveTyped, Goes
  <2>5. FrontInv'
    BY <1>0, <2>1, <2>3 DEF FrontInv, Runs
  <2> QED BY <2>4, <2>5 DEF PopTyped
<1>5. CASE ReportLands
  <2>1. UNCHANGED <<opening, alive, running, coming, taken, written, dropped, left, copy, draining,
                    steers, adrift, out, popped, frame, front, last, torn, crossed>>
    BY <1>5 DEF ReportLands, callVars
  <2>2. report \in State /\ report' = NoState
    BY <1>0, <1>5 DEF ReportLands, MoveTyped
  <2>3. entry' \in State \cup {NoState} /\ inbox' \in Seq(Letters)
    BY <1>0, <1>5, <2>2, InboxTyped DEF ReportLands, MoveTyped
  <2>4. SessionTyped' /\ CallTyped' /\ MoveTyped'
    BY <1>0, <2>1, <2>2, <2>3 DEF SessionTyped, CallTyped, MoveTyped, Goes
  <2>5. FrontInv'
    BY <1>0, <2>1, FrontStays
  <2> QED BY <2>4, <2>5 DEF PopTyped
<1>6. CASE CloseRequested
  <2>1. UNCHANGED <<opening, alive, running, coming, taken, written, dropped, left, copy, draining,
                    steers, adrift, out, popped, entry, front, last, report, inbox, torn, crossed>>
    BY <1>6 DEF CloseRequested, callVars
  <2>2. SessionTyped' /\ CallTyped' /\ MoveTyped'
    BY <1>0, <2>1 DEF SessionTyped, CallTyped, MoveTyped, Goes
  <2>3. FrontInv'
    BY <1>0, <1>6, <2>1 DEF FrontInv, Runs, CloseRequested, Calling
  <2> QED BY <2>2, <2>3 DEF PopTyped
<1>7. CASE CloseUnbuilt
  <2>1. UNCHANGED <<opening, alive, running, coming, taken, written, dropped, left, copy, draining,
                    steers, adrift, out, popped, frame, front, last, report, torn>>
    BY <1>7 DEF CloseUnbuilt, callVars
  <2>2. entry \in State
    BY <1>0, <1>7 DEF CloseUnbuilt, MoveTyped
  <2>3. entry' \in State \cup {NoState} /\ inbox' \in Seq(Letters) /\ crossed' \in BOOLEAN
    BY <1>0, <1>7, <2>2, InboxTyped DEF CloseUnbuilt
  <2>4. SessionTyped' /\ CallTyped' /\ MoveTyped'
    BY <1>0, <2>1, <2>3 DEF SessionTyped, CallTyped, MoveTyped, Goes
  <2>5. FrontInv'
    BY <1>0, <2>1, FrontStays
  <2> QED BY <2>4, <2>5 DEF PopTyped
<1> QED BY <1>1, <1>2, <1>3, <1>4, <1>5, <1>6, <1>7

LEMMA TypedGoes == ASSUME PopTyped, Destroyed \/ HearWindow PROVE PopTyped'
<1>0. SessionTyped /\ CallTyped /\ MoveTyped /\ FrontInv
  BY DEF PopTyped
<1>1. CASE Destroyed
  <2>1. UNCHANGED <<opening, alive, running, taken, written, dropped, out, popped, report, crossed,
                    left>>
    BY <1>1 DEF Destroyed, ByMove
  <2>2. /\ frame' = "none" /\ front' = "none" /\ last' = NoState /\ entry' = NoState
        /\ copy' = [copy EXCEPT !["own"] = Blank]
        /\ coming' = [coming EXCEPT !["own"] = <<>>]
        /\ draining' = [draining EXCEPT !["own"] = NoCall]
        /\ steers' = [steers EXCEPT !["own"] = [m \in Words |-> "none"]]
        /\ inbox' = IF entry = NoState THEN inbox ELSE Append(inbox, Word("closed", entry))
    BY <1>1 DEF Destroyed
  <2>3. torn' \in BOOLEAN
    BY <1>0, <1>1 DEF Destroyed, MoveTyped
  <2>4. adrift' \subseteq [word : Words, how : {"send", "steer"}]
    <3>1. draining["own"].stage = "going" => draining["own"].word \in Words
      BY <1>0, DrainTyped DEF Window
    <3> DEFINE sent == IF draining["own"].stage = "going"
                       THEN {[word |-> draining["own"].word, how |-> "send"]} ELSE {}
               steered == {[word |-> m, how |-> "steer"] :
                              m \in {n \in Words : steers["own"][n] = "going"}}
    <3>2. sent \subseteq [word : Words, how : {"send", "steer"}]
      BY <3>1
    <3>3. steered \subseteq [word : Words, how : {"send", "steer"}]
      OBVIOUS
    <3>4. adrift' = adrift \cup sent \cup steered
      BY <1>1 DEF Destroyed
    <3> HIDE DEF sent, steered
    <3> QED BY <1>0, <3>2, <3>3, <3>4 DEF CallTyped
  <2>5. Blank \in PaneCopies
    <3>1. <<>> \in Seq(Item)
      OBVIOUS
    <3> QED BY <3>1 DEF Blank, PaneCopies
  <2>6. CallTyped'
    <3>1. copy' \in [Window -> PaneCopies]
      BY <1>0, <2>2, <2>5 DEF CallTyped
    <3>2. draining' \in [Window -> [word : Words, stage : {"waiting", "going", "yes", "no"}] \cup {NoCall}]
      BY <1>0, <2>2 DEF CallTyped
    <3>3. steers' \in [Window -> [Words -> {"none", "going", "no"}]]
      BY <1>0, <2>2 DEF CallTyped
    <3> QED BY <2>4, <3>1, <3>2, <3>3 DEF CallTyped
  <2>7. SessionTyped'
    <3>1. <<>> \in Seq(Signals) /\ Len(<<>>) <= MaxComing
      BY PopOutAssumption
    <3> QED BY <1>0, <2>1, <2>2, <3>1 DEF SessionTyped
  <2>8. MoveTyped'
    <3>1. inbox' \in Seq(Letters)
      BY <1>0, <2>2, InboxTyped DEF MoveTyped
    <3> QED BY <1>0, <2>1, <2>2, <2>3, <3>1 DEF MoveTyped, Goes
  <2>9. FrontInv'
    <3>1. copy'["own"] = Blank /\ coming'["own"] = <<>> /\ draining'["own"] = NoCall
          /\ steers'["own"] = [m \in Words |-> "none"]
      BY <1>0, <2>2 DEF CallTyped, SessionTyped, Window
    <3> QED BY <2>2, <3>1 DEF FrontInv, Runs, Calling
  <2> QED BY <2>6, <2>7, <2>8, <2>9 DEF PopTyped
<1>2. CASE HearWindow
  <2>1. UNCHANGED <<callVars, popped, entry, frame, front, last, report, torn, crossed>> /\ ByMove
        /\ inbox # <<>> /\ inbox' = Tail(inbox)
    BY <1>2 DEF HearWindow
  <2>2. Head(inbox) \in Letters /\ Tail(inbox) \in Seq(Letters)
    BY <1>0, <2>1 DEF MoveTyped
  <2>3. Head(inbox).state \in State
    BY <2>2 DEF Letters
  <2>4. out \in BOOLEAN /\ left \in BOOLEAN
    BY <1>0 DEF MoveTyped, SessionTyped
  <2>5. /\ CallTyped' /\ SessionTyped' /\ out' \in BOOLEAN
        /\ copy'["own"] = copy["own"] /\ coming'["own"] = coming["own"]
    <3>1. CASE Returned(Head(inbox).state)
      BY <1>0, <2>1, <2>3, <2>4, <3>1, ReturnedTyped
    <3>2. CASE Take(Head(inbox).state) /\ UNCHANGED <<out, left>>
      BY <1>0, <2>1, <2>3, <2>4, <3>2, TakeTyped DEF ByMove
    <3>3. CASE UNCHANGED <<copy, coming, out, left>>
      BY <1>0, <2>1, <2>4, <3>3 DEF ByMove, callVars, CallTyped, SessionTyped
    <3> QED BY <1>2, <3>1, <3>2, <3>3 DEF HearWindow
  <2>6. MoveTyped'
    BY <1>0, <2>1, <2>2, <2>5 DEF MoveTyped, Goes
  <2>7. FrontInv'
    BY <1>0, <2>1, <2>5, FrontStays DEF callVars
  <2> QED BY <2>5, <2>6, <2>7 DEF PopTyped
<1> QED BY <1>1, <1>2

\* The steps of PopOut, one by one.
LEMMA PopOutSteps ==
    ASSUME [PopOutNext]_popOutVars
    PROVE  \/ TurnBegins \/ TurnEnds("finished") \/ TurnEnds("failed") \/ Exits
           \/ ClaimOrClose
           \/ \E w \in Window : Interrupt(w)
           \/ \E w \in Window : Awaited(w) \/ SendLands(w) \/ SendReplies(w)
           \/ \E w \in Window : Hear(w)
           \/ \E w \in Window, m \in Words : Enqueue(w, m) \/ SteerQueued(w, m) \/ RemoveQueued(w, m)
           \/ \E w \in Window, m \in Words : SteerLands(w, m) \/ SteerRefused(w, m)
           \/ \E c \in adrift : AdriftLands(c)
           \/ \E i \in Pop : PopOut(i) \/ Insert(i) \/ Build(i) \/ PopFails(i)
           \/ Adopt \/ Lost \/ Wire \/ Reports \/ ReportLands \/ CloseRequested \/ CloseUnbuilt
           \/ Destroyed \/ HearWindow
           \/ UNCHANGED popOutVars
<1>1. PopOutNext \/ UNCHANGED popOutVars
  OBVIOUS
<1> QED BY <1>1 DEF PopOutNext

LEMMA TypedInit == PopOutInit => PopTyped
<1> SUFFICES ASSUME PopOutInit PROVE PopTyped
  OBVIOUS
<1>1. <<>> \in Seq(Signals) /\ <<>> \in Seq(Item) /\ <<>> \in Seq(Letters) /\ Len(<<>>) <= MaxComing
  BY PopOutAssumption
<1>2. SessionTyped
  <2>1. coming \in [Window -> Seq(Signals)] /\ \A w \in Window : Len(coming[w]) <= MaxComing
    BY <1>1 DEF PopOutInit
  <2>2. taken \in [Words -> 0 .. 2]
    BY DEF PopOutInit
  <2> QED BY <2>1, <2>2 DEF PopOutInit, SessionTyped
<1>3. CallTyped
  <2>1. copy \in [Window -> PaneCopies]
    BY <1>1 DEF PopOutInit, Blank, PaneCopies
  <2> QED BY <2>1 DEF PopOutInit, CallTyped
<1>4. MoveTyped
  <2>1. popped \in [Pop -> [stage : {"none", "going", "building", "failed", "done"},
                            state : State \cup {NoState}]]
        /\ \A i \in Pop : ~Goes(i)
    BY DEF PopOutInit, Goes
  <2> QED BY <1>1, <2>1 DEF PopOutInit, MoveTyped
<1>5. FrontInv
  BY DEF PopOutInit, FrontInv, Runs, Blank, Calling, Window
<1> QED BY <1>2, <1>3, <1>4, <1>5 DEF PopTyped

LEMMA TypedStep == ASSUME PopTyped, [PopOutNext]_popOutVars PROVE PopTyped'
<1>1. ASSUME NEW w \in Window, Interrupt(w) PROVE PopTyped'
  <2>1. PICK m \in Words : TRUE
    <3>1. copy[w] # Held(copy[w]) /\ copy[w] \in PaneCopies
      BY <1>1, CopyTyped DEF Interrupt, PopTyped
    <3>2. Waiting(copy[w].queue) # <<>>
      <4>1. ASSUME Waiting(copy[w].queue) = <<>> PROVE FALSE
        BY <3>1, <4>1 DEF Held, PaneCopies
      <4> QED BY <4>1
    <3> QED BY <3>1, <3>2, WaitingItems, CopyParts
  <2> QED BY <1>1, TypedUser
<1>2. ASSUME UNCHANGED popOutVars PROVE PopTyped'
  BY <1>2 DEF PopTyped, SessionTyped, CallTyped, MoveTyped, FrontInv, Goes, Runs, Calling,
              popOutVars, sessionVars, callVars, moveVars
<1> QED BY <1>1, <1>2, PopOutSteps, TypedSession, TypedClaims, TypedUser, TypedCalls, TypedSteers,
           TypedAdrift, TypedHears, TypedPops, TypedWindow, TypedGoes

LEMMA TypedIsOK == ASSUME PopTyped PROVE PopOutTypeOK
<1> USE DEF PopTyped
<1>1. \A w \in Window : draining[w].stage \in {"none", "waiting", "going", "yes", "no"}
  BY DrainTyped
<1>2. \A w \in Window : StateOf(w) \in State
  BY CopyTyped
<1> QED BY <1>1, <1>2 DEF PopOutTypeOK, SessionTyped, MoveTyped, FrontInv

-----------------------------------------------------------------------------
(* Where the pane is.                                                      *)

\* The last of what the main window has still to hear is that the pane's window has gone.
ClosedLast == inbox # <<>> /\ inbox[Len(inbox)].is = "closed"

PlaceNow ==
    /\ \A i, j \in Pop : Goes(i) /\ Goes(j) => i = j
    /\ \A i \in Pop : Goes(i) => out /\ frame = "none"
    /\ frame # "none" => out
    /\ entry # NoState <=> frame # "none" \/ \E i \in Pop : popped[i].stage = "building"
    /\ \A k \in DOMAIN inbox : inbox[k].is = "closed" => k = Len(inbox)
    /\ ClosedLast <=> out /\ frame = "none" /\ \A i \in Pop : ~Goes(i)

\* Unless Put back took the entry of a window being built, the pane is in one place.
PlaceInv == ~crossed => PlaceNow

LEMMA PlaceStays ==
    ASSUME PlaceInv, UNCHANGED <<out, popped, entry, frame, inbox, crossed>>
    PROVE  PlaceInv'
  BY DEF PlaceInv, PlaceNow, ClosedLast, Goes

\* One more of them.
LEMMA InboxGrows ==
    ASSUME MoveTyped, NEW s \in State, NEW kind \in {"synced", "closed"},
           inbox' = Append(inbox, Word(kind, s))
    PROVE  /\ inbox' # <<>> /\ Len(inbox') = Len(inbox) + 1 /\ DOMAIN inbox' = 1 .. Len(inbox) + 1
           /\ inbox'[Len(inbox')].is = kind /\ inbox'[Len(inbox')].state = s
           /\ \A k \in DOMAIN inbox : inbox'[k] = inbox[k]
           /\ DOMAIN inbox = 1 .. Len(inbox) /\ Len(inbox) \in Nat
<1>1. Word(kind, s) \in Letters /\ Word(kind, s).is = kind /\ Word(kind, s).state = s
  BY DEF Word, Letters
<1>2. inbox \in Seq(Letters)
  BY DEF MoveTyped
<1> QED BY <1>1, <1>2

\* One has been heard.
LEMMA InboxShrinks ==
    ASSUME MoveTyped, inbox # <<>>, inbox' = Tail(inbox)
    PROVE  /\ Head(inbox) = inbox[1] /\ 1 \in DOMAIN inbox /\ Head(inbox) \in Letters
           /\ Head(inbox).is \in {"synced", "closed"} /\ Head(inbox).state \in State
           /\ DOMAIN inbox = 1 .. Len(inbox) /\ Len(inbox) \in Nat /\ Len(inbox) >= 1
           /\ Len(inbox') = Len(inbox) - 1 /\ DOMAIN inbox' = 1 .. Len(inbox) - 1
           /\ \A k \in DOMAIN inbox' : inbox'[k] = inbox[k + 1]
           /\ inbox' = <<>> <=> Len(inbox) = 1
           /\ inbox' # <<>> => inbox'[Len(inbox')] = inbox[Len(inbox)]
<1>1. inbox \in Seq(Letters)
  BY DEF MoveTyped
<1>2. /\ DOMAIN inbox = 1 .. Len(inbox) /\ Len(inbox) \in Nat /\ Len(inbox) >= 1
      /\ Len(inbox') = Len(inbox) - 1 /\ DOMAIN inbox' = 1 .. Len(inbox) - 1
      /\ \A k \in 1 .. Len(inbox) - 1 : inbox'[k] = inbox[k + 1]
      /\ Head(inbox) = inbox[1] /\ inbox' \in Seq(Letters)
  BY <1>1
<1>3. Head(inbox) \in Letters
  BY <1>1, <1>2
<1>4. inbox' # <<>> => inbox'[Len(inbox')] = inbox[Len(inbox)]
  <2>1. ASSUME inbox' # <<>> PROVE inbox'[Len(inbox')] = inbox[Len(inbox)]
    <3>1. Len(inbox') # 0
      BY <1>2, <2>1
    <3>2. Len(inbox) - 1 \in 1 .. Len(inbox) - 1 /\ (Len(inbox) - 1) + 1 = Len(inbox)
      BY <1>2, <3>1
    <3> QED BY <1>2, <3>2
  <2> QED BY <2>1
<1>5. inbox' = <<>> <=> Len(inbox) = 1
  <2>1. inbox' = <<>> <=> Len(inbox') = 0
    <3>1. \A t \in Seq(Letters) : t = <<>> <=> Len(t) = 0
      OBVIOUS
    <3> QED BY <1>2, <3>1
  <2> QED BY <1>2, <2>1
<1> QED BY <1>2, <1>3, <1>4, <1>5 DEF Letters

LEMMA PlaceInit == PopOutInit => PlaceInv
  BY DEF PopOutInit, PlaceInv, PlaceNow, ClosedLast, Goes

\* An opening that was going fails or is over; the others stay where they are.
LEMMA PoppedChange ==
    ASSUME MoveTyped, NEW i \in Pop, NEW to \in {"none", "going", "building", "failed", "done"},
           \/ \E s \in State \cup {NoState} :
                 popped' = [popped EXCEPT ![i] = [stage |-> to, state |-> s]]
           \/ popped' = [popped EXCEPT ![i].stage = to]
    PROVE  /\ popped'[i].stage = to
           /\ \A j \in Pop \ {i} : popped'[j] = popped[j]
           /\ Goes(i)' <=> to \in {"going", "building", "failed"}
           /\ \A j \in Pop \ {i} : Goes(j)' <=> Goes(j)
<1>1. popped[i] \in [stage : {"none", "going", "building", "failed", "done"},
                     state : State \cup {NoState}]
  BY DEF MoveTyped
<1>2. popped'[i].stage = to /\ \A j \in Pop \ {i} : popped'[j] = popped[j]
  BY <1>1 DEF MoveTyped
<1> QED BY <1>2 DEF Goes

LEMMA PlacePops ==
    ASSUME PopTyped, PlaceInv, NEW i \in Pop, PopOut(i) \/ Insert(i) \/ Build(i) \/ PopFails(i)
    PROVE  PlaceInv'
<1>0. MoveTyped /\ FrontInv /\ SessionTyped /\ CallTyped
  BY DEF PopTyped
<1> SUFFICES ASSUME ~crossed' PROVE PlaceNow'
  BY DEF PlaceInv
<1>1. ~crossed
  BY DEF PopOut, Insert, Build, PopFails
<1>2. PlaceNow
  BY <1>1 DEF PlaceInv
<1>3. CASE PopOut(i)
  <2>1. popped' = [popped EXCEPT ![i] = [stage |-> "going", state |-> StateOf("main")]]
        /\ StateOf("main") \in State
    BY <1>0, <1>3, CopyTyped DEF PopOut, Window
  <2>2. ~out /\ out' /\ UNCHANGED <<entry, frame, inbox>> /\ popped[i].stage = "none"
    BY <1>3 DEF PopOut
  <2>3. /\ popped'[i].stage = "going" /\ Goes(i)'
        /\ \A j \in Pop \ {i} : popped'[j] = popped[j] /\ (Goes(j)' <=> Goes(j))
    BY <1>0, <2>1, PoppedChange
  <2>4. \A j \in Pop : ~Goes(j)
    BY <1>2, <2>2 DEF PlaceNow
  <2>5. frame = "none" /\ ~ClosedLast
    BY <1>2, <2>2 DEF PlaceNow
  <2>6. entry = NoState
    BY <1>2, <2>4, <2>5 DEF PlaceNow, Goes
  <2>7. \A j \in Pop : popped'[j].stage # "building"
    BY <2>3, <2>4 DEF Goes
  <2> QED BY <1>2, <2>2, <2>3, <2>4, <2>5, <2>6, <2>7 DEF PlaceNow, ClosedLast
<1>4. CASE Insert(i)
  <2>1. Goes(i) /\ popped[i].stage = "going" /\ popped[i].state \in State
    BY <1>0, <1>4 DEF Insert, Goes, MoveTyped
  <2>2. out /\ frame = "none" /\ \A j \in Pop \ {i} : ~Goes(j)
    BY <1>2, <2>1 DEF PlaceNow
  <2>3. entry = NoState
    BY <1>2, <2>1, <2>2 DEF PlaceNow, Goes
  <2>4. /\ popped' = [popped EXCEPT ![i].stage = "building"] /\ entry' = popped[i].state
        /\ UNCHANGED <<out, frame, inbox>>
    BY <1>4, <2>2, <2>3 DEF Insert
  <2>5. /\ popped'[i].stage = "building" /\ Goes(i)'
        /\ \A j \in Pop \ {i} : popped'[j] = popped[j] /\ (Goes(j)' <=> Goes(j))
    BY <1>0, <2>4, PoppedChange
  <2>6. entry' # NoState
    BY <2>1, <2>4, PopOutAssumption
  <2> QED BY <1>2, <2>1, <2>2, <2>4, <2>5, <2>6 DEF PlaceNow, ClosedLast
<1>5. CASE Build(i)
  <2>1. Goes(i) /\ popped[i].stage = "building"
    BY <1>5 DEF Build, Goes
  <2>2. out /\ frame = "none" /\ entry # NoState /\ \A j \in Pop \ {i} : ~Goes(j)
    BY <1>2, <2>1 DEF PlaceNow
  <2>3. UNCHANGED <<out, inbox>>
    BY <1>5 DEF Build
  <2>4. CASE /\ frame' = "up" /\ UNCHANGED entry
             /\ popped' = [popped EXCEPT ![i] = [stage |-> "done", state |-> NoState]]
    <3>1. /\ popped'[i].stage = "done" /\ ~Goes(i)'
          /\ \A j \in Pop \ {i} : popped'[j] = popped[j] /\ (Goes(j)' <=> Goes(j))
      BY <1>0, <2>4, PoppedChange
    <3> QED BY <1>2, <2>1, <2>2, <2>3, <2>4, <3>1 DEF PlaceNow, ClosedLast
  <2>5. CASE /\ UNCHANGED frame /\ entry' = NoState
             /\ popped' = [popped EXCEPT ![i].stage = "failed"]
    <3>1. /\ popped'[i].stage = "failed" /\ Goes(i)'
          /\ \A j \in Pop \ {i} : popped'[j] = popped[j] /\ (Goes(j)' <=> Goes(j))
      BY <1>0, <2>5, PoppedChange
    <3>2. \A j \in Pop : popped'[j].stage # "building"
      BY <2>2, <3>1 DEF Goes
    <3> QED BY <1>2, <2>1, <2>2, <2>3, <2>5, <3>1, <3>2 DEF PlaceNow, ClosedLast
  <2> QED BY <1>5, <2>4, <2>5 DEF Build
<1>6. CASE PopFails(i)
  <2>1. Goes(i) /\ popped[i].stage = "failed"
    BY <1>6 DEF PopFails, Goes
  <2>2. out /\ frame = "none" /\ \A j \in Pop \ {i} : ~Goes(j)
    BY <1>2, <2>1 DEF PlaceNow
  <2>3. ~out' /\ UNCHANGED <<entry, frame, inbox>>
        /\ popped' = [popped EXCEPT ![i] = [stage |-> "done", state |-> NoState]]
    BY <1>6, <2>2 DEF PopFails, Returned
  <2>4. /\ popped'[i].stage = "done" /\ ~Goes(i)'
        /\ \A j \in Pop \ {i} : popped'[j] = popped[j] /\ (Goes(j)' <=> Goes(j))
    BY <1>0, <2>3, PoppedChange
  <2>5. ~ClosedLast
    BY <1>2, <2>1 DEF PlaceNow
  <2> QED BY <1>2, <2>1, <2>2, <2>3, <2>4, <2>5 DEF PlaceNow, ClosedLast, Goes
<1> QED BY <1>3, <1>4, <1>5, <1>6

LEMMA PlaceWindow ==
    ASSUME PopTyped, PlaceInv,
           ReportLands \/ CloseRequested \/ CloseUnbuilt \/ Destroyed \/ HearWindow
    PROVE  PlaceInv'
<1>0. MoveTyped /\ FrontInv /\ SessionTyped /\ CallTyped
  BY DEF PopTyped
<1> SUFFICES ASSUME ~crossed' PROVE PlaceNow'
  BY DEF PlaceInv
<1>1. ~crossed
  BY DEF ReportLands, CloseRequested, CloseUnbuilt, Destroyed, HearWindow
<1>2. PlaceNow
  BY <1>1 DEF PlaceInv
<1>3. CASE ReportLands
  <2>1. UNCHANGED <<out, popped, frame>> /\ report \in State
    BY <1>0, <1>3 DEF ReportLands, MoveTyped
  <2>2. CASE entry = NoState
    <3>1. UNCHANGED <<entry, inbox>>
      BY <1>3, <2>2 DEF ReportLands
    <3> QED BY <1>2, <2>1, <3>1 DEF PlaceNow, ClosedLast, Goes
  <2>3. CASE entry # NoState
    <3>1. entry' = report /\ inbox' = Append(inbox, Word("synced", report))
      BY <1>3, <2>3 DEF ReportLands
    <3>2. entry' # NoState
      BY <2>1, <3>1, PopOutAssumption
    <3>3. ~ClosedLast
      BY <1>2, <2>3 DEF PlaceNow, Goes
    <3>4. \A k \in DOMAIN inbox : inbox[k].is # "closed"
      BY <1>2, <3>3 DEF PlaceNow, ClosedLast
    <3>5. /\ inbox' # <<>> /\ Len(inbox') = Len(inbox) + 1 /\ DOMAIN inbox' = 1 .. Len(inbox) + 1
          /\ inbox'[Len(inbox')].is = "synced"
          /\ \A k \in DOMAIN inbox : inbox'[k] = inbox[k]
          /\ DOMAIN inbox = 1 .. Len(inbox) /\ Len(inbox) \in Nat
      BY <1>0, <2>1, <3>1, InboxGrows
    <3>6. \A k \in DOMAIN inbox' : inbox'[k].is # "closed"
      <4>1. ASSUME NEW k \in DOMAIN inbox' PROVE inbox'[k].is # "closed"
        <5>1. k \in DOMAIN inbox \/ k = Len(inbox')
          BY <3>5
        <5> QED BY <3>4, <3>5, <5>1
      <4> QED BY <4>1
    <3>7. ~ClosedLast'
      BY <3>5 DEF ClosedLast
    <3> QED BY <1>2, <2>1, <2>3, <3>2, <3>3, <3>6, <3>7 DEF PlaceNow, Goes
  <2> QED BY <2>2, <2>3
<1>4. CASE CloseRequested
  BY <1>2, <1>4 DEF CloseRequested, PlaceNow, ClosedLast, Goes
<1>5. CASE CloseUnbuilt
  BY <1>5 DEF CloseUnbuilt
<1>6. CASE Destroyed
  <2>1. /\ frame = "closing" /\ frame' = "none" /\ entry' = NoState /\ UNCHANGED <<out, popped>>
        /\ inbox' = IF entry = NoState THEN inbox ELSE Append(inbox, Word("closed", entry))
    BY <1>6 DEF Destroyed
  <2>2. entry # NoState /\ out /\ ~ClosedLast /\ \A i \in Pop : ~Goes(i)
    BY <1>2, <2>1 DEF PlaceNow
  <2>3. inbox' = Append(inbox, Word("closed", entry)) /\ entry \in State
    BY <1>0, <2>1, <2>2 DEF MoveTyped
  <2>4. /\ inbox' # <<>> /\ Len(inbox') = Len(inbox) + 1 /\ DOMAIN inbox' = 1 .. Len(inbox) + 1
        /\ inbox'[Len(inbox')].is = "closed"
        /\ \A k \in DOMAIN inbox : inbox'[k] = inbox[k]
        /\ DOMAIN inbox = 1 .. Len(inbox) /\ Len(inbox) \in Nat
    BY <1>0, <2>3, InboxGrows
  <2>5. \A k \in DOMAIN inbox : inbox[k].is # "closed"
    BY <1>2, <2>2 DEF PlaceNow, ClosedLast
  <2>6. \A k \in DOMAIN inbox' : inbox'[k].is = "closed" => k = Len(inbox')
    <3>1. ASSUME NEW k \in DOMAIN inbox', k # Len(inbox') PROVE inbox'[k].is # "closed"
      <4>1. k \in DOMAIN inbox
        BY <2>4, <3>1
      <4> QED BY <2>4, <2>5, <4>1
    <3> QED BY <3>1
  <2>7. ClosedLast'
    BY <2>4 DEF ClosedLast
  <2>8. \A i \in Pop : ~Goes(i)' /\ popped'[i].stage # "building"
    BY <2>1, <2>2 DEF Goes
  <2> QED BY <2>1, <2>2, <2>6, <2>7, <2>8 DEF PlaceNow
<1>7. CASE HearWindow
  <2>1. inbox # <<>> /\ inbox' = Tail(inbox) /\ UNCHANGED <<popped, entry, frame>>
    BY <1>7 DEF HearWindow
  <2>2. /\ Head(inbox) = inbox[1] /\ 1 \in DOMAIN inbox
        /\ Head(inbox).is \in {"synced", "closed"}
        /\ DOMAIN inbox = 1 .. Len(inbox) /\ Len(inbox) \in Nat /\ Len(inbox) >= 1
        /\ Len(inbox') = Len(inbox) - 1 /\ DOMAIN inbox' = 1 .. Len(inbox) - 1
        /\ \A k \in DOMAIN inbox' : inbox'[k] = inbox[k + 1]
        /\ inbox' = <<>> <=> Len(inbox) = 1
        /\ inbox' # <<>> => inbox'[Len(inbox')] = inbox[Len(inbox)]
    BY <1>0, <2>1, InboxShrinks
  <2>3. \A k \in DOMAIN inbox' : inbox'[k].is = "closed" => k = Len(inbox')
    <3>1. ASSUME NEW k \in DOMAIN inbox', inbox'[k].is = "closed" PROVE k = Len(inbox')
      <4>1. k + 1 \in DOMAIN inbox /\ inbox[k + 1].is = "closed"
        BY <2>2, <3>1
      <4>2. k + 1 = Len(inbox)
        BY <1>2, <4>1 DEF PlaceNow
      <4> QED BY <2>2, <3>1, <4>2
    <3> QED BY <3>1
  <2>4. CASE Head(inbox).is = "closed"
    <3>1. Len(inbox) = 1 /\ inbox' = <<>> /\ ClosedLast
      BY <1>2, <2>1, <2>2, <2>4 DEF PlaceNow, ClosedLast
    <3>2. out /\ frame = "none" /\ \A i \in Pop : ~Goes(i)
      BY <1>2, <3>1 DEF PlaceNow
    <3>3. ~out'
      BY <1>7, <2>4, <3>2 DEF HearWindow, Returned
    <3>4. ~ClosedLast'
      BY <3>1 DEF ClosedLast
    <3> QED BY <1>2, <2>1, <2>3, <3>2, <3>3, <3>4 DEF PlaceNow, Goes
  <2>5. CASE Head(inbox).is = "synced"
    <3>1. out' = out
      BY <1>7, <2>5 DEF HearWindow
    <3>2. ClosedLast' <=> ClosedLast
      <4>1. CASE inbox' = <<>>
        <5>1. inbox[Len(inbox)].is = "synced"
          BY <2>2, <2>5, <4>1
        <5> QED BY <4>1, <5>1 DEF ClosedLast
      <4>2. CASE inbox' # <<>>
        BY <2>1, <2>2, <4>2 DEF ClosedLast
      <4> QED BY <4>1, <4>2
    <3> QED BY <1>2, <2>1, <2>3, <3>1, <3>2 DEF PlaceNow, Goes
  <2> QED BY <2>2, <2>4, <2>5
<1> QED BY <1>3, <1>4, <1>5, <1>6, <1>7

\* The session's steps, and the windows' own, leave where the pane is.
LEMMA MovesStay ==
    ASSUME \/ TurnBegins \/ TurnEnds("finished") \/ TurnEnds("failed") \/ Exits \/ ClaimOrClose
           \/ \E w \in Window : Interrupt(w)
           \/ \E w \in Window : Awaited(w) \/ SendLands(w) \/ SendReplies(w)
           \/ \E w \in Window : Hear(w)
           \/ \E w \in Window, m \in Words : Enqueue(w, m) \/ SteerQueued(w, m) \/ RemoveQueued(w, m)
           \/ \E w \in Window, m \in Words : SteerLands(w, m) \/ SteerRefused(w, m)
           \/ \E c \in adrift : AdriftLands(c)
           \/ UNCHANGED popOutVars
    PROVE  UNCHANGED <<moveVars, crossed>>
  BY DEF TurnBegins, TurnEnds, Exits, ClaimOrClose, Alone, ByUser, Interrupt, ByCall, Awaited,
         SendLands, SendReplies, Hear, Enqueue, SteerQueued, RemoveQueued, SteerLands, SteerRefused,
         AdriftLands, popOutVars

LEMMA PlaceStep ==
    ASSUME PopTyped, PlaceInv, [PopOutNext]_popOutVars PROVE PlaceInv'
<1>1. ASSUME UNCHANGED <<moveVars, crossed>> PROVE PlaceInv'
  BY <1>1, PlaceStays DEF moveVars
<1>2. ASSUME Adopt \/ Lost \/ Wire \/ Reports PROVE PlaceInv'
  BY <1>2, PlaceStays DEF Adopt, Lost, Wire, Reports
<1> QED BY <1>1, <1>2, PopOutSteps, MovesStay, PlacePops, PlaceWindow

-----------------------------------------------------------------------------
(* Who calls, and what is on its way.                                      *)

\* The pane never moved with a state that was not the latest, nor crossed a Put back.
Safe == ~torn /\ ~crossed

LinkNow ==
    /\ adrift = {}
    /\ out => ~Calling("main")
    /\ report # NoState => front = "wired" /\ report = last
    /\ front = "wired" /\ report = NoState => entry = last
    /\ \A i \in Pop : popped[i].stage = "building" => entry = popped[i].state
    /\ ~out \/ (\E i \in Pop : Goes(i)) \/ front \in {"starting", "lost"} => inbox = <<>>
    /\ frame # "none" /\ inbox # <<>> => inbox[Len(inbox)].state = entry

LinkInv == Safe => LinkNow

LEMMA SafeBefore ==
    ASSUME [PopOutNext]_popOutVars, Safe' PROVE Safe
<1>1. ASSUME NEW w \in Window,
             Interrupt(w) \/ Awaited(w) \/ SendLands(w) \/ SendReplies(w) \/ Hear(w)
      PROVE  Safe
  BY <1>1 DEF Safe, Interrupt, Awaited, SendLands, SendReplies, Hear, ByUser, ByCall
<1>2. ASSUME NEW w \in Window, NEW m \in Words,
             Enqueue(w, m) \/ SteerQueued(w, m) \/ RemoveQueued(w, m)
             \/ SteerLands(w, m) \/ SteerRefused(w, m)
      PROVE  Safe
  <2>1. ASSUME SteerQueued(w, m) PROVE Safe
    <3>1. UNCHANGED crossed
      BY <2>1 DEF SteerQueued, ByUser
    <3>2. CASE UNCHANGED torn
      BY <3>1, <3>2 DEF Safe
    <3>3. CASE torn' = (torn \/ draining[w].word = m)
      BY <3>1, <3>3 DEF Safe
    <3> QED BY <2>1, <3>2, <3>3 DEF SteerQueued
  <2>2. ASSUME Enqueue(w, m) \/ RemoveQueued(w, m) \/ SteerLands(w, m) \/ SteerRefused(w, m)
        PROVE  Safe
    <3>1. UNCHANGED <<crossed, torn>>
      BY <2>2 DEF Enqueue, RemoveQueued, SteerLands, SteerRefused, ByUser, ByCall
    <3> QED BY <3>1 DEF Safe
  <2> QED BY <1>2, <2>1, <2>2
<1>3. ASSUME TurnBegins \/ TurnEnds("finished") \/ TurnEnds("failed") \/ Exits \/ ClaimOrClose
      PROVE  Safe
  BY <1>3 DEF Safe, TurnBegins, TurnEnds, Exits, ClaimOrClose, Alone
<1>4. ASSUME NEW c \in adrift, AdriftLands(c) PROVE Safe
  BY <1>4 DEF Safe, AdriftLands, ByCall
<1>5. ASSUME NEW i \in Pop, PopOut(i) \/ Insert(i) \/ Build(i) \/ PopFails(i)
      PROVE  Safe
  <2>1. UNCHANGED crossed
    BY <1>5 DEF PopOut, Insert, Build, PopFails
  <2>2. CASE UNCHANGED torn
    BY <2>1, <2>2 DEF Safe
  <2>3. CASE torn' = (torn \/ Calling("main") \/ opening)
    BY <2>1, <2>3 DEF Safe
  <2> QED BY <1>5, <2>2, <2>3 DEF PopOut, Insert, Build, PopFails
<1>6. ASSUME \/ Adopt \/ Lost \/ Wire \/ Reports \/ ReportLands \/ CloseRequested \/ CloseUnbuilt
             \/ Destroyed \/ HearWindow
      PROVE  Safe
  <2>1. ASSUME Adopt \/ Lost \/ Reports \/ ReportLands \/ CloseRequested \/ HearWindow
        PROVE  Safe
    <3>1. UNCHANGED <<crossed, torn>>
      BY <2>1 DEF Adopt, Lost, Reports, ReportLands, CloseRequested, HearWindow
    <3> QED BY <3>1 DEF Safe
  <2>2. ASSUME Wire PROVE Safe
    <3>1. UNCHANGED crossed /\ torn' = (torn \/ StateOf("own") # entry)
      BY <2>2 DEF Wire
    <3> QED BY <3>1 DEF Safe
  <2>3. ASSUME CloseUnbuilt PROVE Safe
    BY <2>3 DEF CloseUnbuilt, Safe
  <2>4. ASSUME Destroyed PROVE Safe
    <3>1. UNCHANGED crossed
          /\ torn' = (torn \/ (front \in {"adopted", "wired"}
                        /\ (entry # StateOf("own") \/ Calling("own") \/ report # NoState)))
      BY <2>4 DEF Destroyed
    <3> QED BY <3>1 DEF Safe
  <2> QED BY <1>6, <2>1, <2>2, <2>3, <2>4
<1>7. ASSUME UNCHANGED popOutVars PROVE Safe
  BY <1>7 DEF Safe, popOutVars
<1> QED BY <1>1, <1>2, <1>3, <1>4, <1>5, <1>6, <1>7, PopOutSteps

\* A window that runs has the pane.
LEMMA RunsOut ==
    ASSUME FrontInv, PlaceNow, Runs
    PROVE  out /\ frame # "none" /\ entry # NoState /\ \A i \in Pop : ~Goes(i)
  BY DEF FrontInv, PlaceNow, Runs

\* Who acts on the queue has the pane.
LEMMA ActsWhere ==
    ASSUME FrontInv, PlaceNow, LinkNow, NEW w \in Window, Shows(w) \/ Calling(w)
    PROVE  w = Owner /\ (w = "own" => Runs) /\ (w = "main" => ~out)
<1>1. CASE w = "main"
  BY <1>1 DEF Shows, LinkNow, Owner
<1>2. CASE w = "own"
  <2>1. Runs
    BY <1>2, OwnActs
  <2> QED BY <1>2, <2>1, RunsOut DEF Owner
<1> QED BY <1>1, <1>2 DEF Window

LEMMA HearsWhere ==
    ASSUME FrontInv, PlaceNow, NEW w \in Window, coming[w] # <<>>
    PROVE  (w = Owner /\ (w = "own" => Runs) /\ (w = "main" => ~out)) \/ (w = "main" /\ out)
<1>1. CASE w = "own"
  <2>1. Runs
    BY <1>1, OwnActs
  <2> QED BY <1>1, <2>1, RunsOut DEF Owner
<1> QED BY <1>1 DEF Window, Owner

LEMMA LinkInit == PopOutInit => LinkInv
  BY DEF PopOutInit, LinkInv, LinkNow, Calling, Goes, Window

LEMMA LinkStays ==
    ASSUME LinkNow, UNCHANGED <<moveVars, crossed, adrift>>,
           ~out \/ UNCHANGED <<draining["main"], steers["main"]>>
    PROVE  LinkNow'
  BY DEF LinkNow, moveVars, Calling, Goes

\* A window's own step leaves the calls of the main window alone while the pane is out.
LEMMA LinkActs ==
    ASSUME PopTyped, PlaceNow, LinkNow,
           \/ \E w \in Window : Interrupt(w)
           \/ \E w \in Window : Awaited(w) \/ SendLands(w) \/ SendReplies(w)
           \/ \E w \in Window : Hear(w)
           \/ \E w \in Window, m \in Words : Enqueue(w, m) \/ SteerQueued(w, m) \/ RemoveQueued(w, m)
           \/ \E w \in Window, m \in Words : SteerLands(w, m) \/ SteerRefused(w, m)
    PROVE  UNCHANGED adrift /\ (~out \/ UNCHANGED <<draining["main"], steers["main"]>>)
<1>0. CallTyped /\ FrontInv
  BY DEF PopTyped
<1>1. ASSUME NEW w \in Window, Interrupt(w)
      PROVE  UNCHANGED adrift /\ UNCHANGED <<draining, steers>>
  BY <1>1 DEF Interrupt, ByUser, Keeps
<1>2. ASSUME NEW w \in Window, Hear(w)
      PROVE  UNCHANGED adrift /\ (~out \/ UNCHANGED <<draining["main"], steers["main"]>>)
  <2>1. UNCHANGED <<adrift, steers>>
    BY <1>2 DEF Hear
  <2>2. CASE w = "main" /\ out
    <3>1. UNCHANGED draining
      BY <1>2, <2>2 DEF Hear, Keeps, QueueIsElsewhere
    <3> QED BY <2>1, <3>1
  <2>3. CASE w = "own"
    <3>1. \E p : Drains(w, p) \/ Keeps(w, p)
      BY <1>2 DEF Hear
    <3>2. draining'["main"] = draining["main"]
      BY <1>0, <2>3, <3>1, DrainsElse DEF Window
    <3> QED BY <2>1, <3>2
  <2> QED BY <2>1, <2>2, <2>3 DEF Window
<1>3. ASSUME NEW w \in Window, Shows(w) \/ Calling(w),
             \A v \in Window \ {w} : draining'[v] = draining[v] /\ steers'[v] = steers[v]
      PROVE  ~out \/ UNCHANGED <<draining["main"], steers["main"]>>
  <2>1. w = "own" \/ ~out
    BY <1>0, <1>3, ActsWhere DEF Window
  <2> QED BY <1>3, <2>1 DEF Window
<1>4. ASSUME NEW w \in Window, Awaited(w) \/ SendLands(w) \/ SendReplies(w)
      PROVE  UNCHANGED adrift /\ (~out \/ UNCHANGED <<draining["main"], steers["main"]>>)
  <2>1. draining[w].stage \in {"waiting", "going", "yes", "no"} /\ UNCHANGED <<steers, adrift>>
    BY <1>4 DEF Awaited, SendLands, SendReplies
  <2>2. Calling(w)
    BY <1>0, <2>1, DrainTyped DEF Calling
  <2>3. \A v \in Window \ {w} : draining'[v] = draining[v]
    BY <1>0, <1>4 DEF Awaited, SendLands, SendReplies, CallTyped
  <2> QED BY <1>3, <2>1, <2>2, <2>3
<1>5. ASSUME NEW w \in Window, NEW m \in Words, SteerLands(w, m) \/ SteerRefused(w, m)
      PROVE  UNCHANGED adrift /\ (~out \/ UNCHANGED <<draining["main"], steers["main"]>>)
  <2>1. Calling(w) /\ UNCHANGED <<draining, adrift>>
    BY <1>5 DEF SteerLands, SteerRefused, Calling, Keeps
  <2>2. \A v \in Window \ {w} : steers'[v] = steers[v]
    BY <1>0, <1>5 DEF SteerLands, SteerRefused, CallTyped
  <2> QED BY <1>3, <2>1, <2>2
<1>6. ASSUME NEW w \in Window, NEW m \in Words,
             Enqueue(w, m) \/ SteerQueued(w, m) \/ RemoveQueued(w, m)
      PROVE  UNCHANGED adrift /\ (~out \/ UNCHANGED <<draining["main"], steers["main"]>>)
  <2>1. Shows(w) /\ UNCHANGED adrift
    BY <1>6 DEF Enqueue, SteerQueued, RemoveQueued, ByUser
  <2>2. \E p : Drains(w, p) \/ Keeps(w, p)
    BY <1>6 DEF Enqueue, SteerQueued, RemoveQueued
  <2>3. \A v \in Window \ {w} : draining'[v] = draining[v]
    BY <1>0, <2>2, DrainsElse
  <2>4. \A v \in Window \ {w} : steers'[v] = steers[v]
    BY <1>0, <1>6 DEF Enqueue, SteerQueued, RemoveQueued, CallTyped
  <2> QED BY <1>3, <2>1, <2>3, <2>4
<1> QED BY <1>1, <1>2, <1>4, <1>5, <1>6

LEMMA LinkPops ==
    ASSUME PopTyped, PlaceNow, LinkNow, Safe', NEW i \in Pop,
           PopOut(i) \/ Insert(i) \/ Build(i) \/ PopFails(i)
    PROVE  LinkNow'
<1>0. MoveTyped /\ FrontInv /\ CallTyped
  BY DEF PopTyped
<1>1. CASE PopOut(i)
  <2>1. /\ UNCHANGED <<callVars, entry, frame, front, last, report, inbox>> /\ ~out
        /\ popped' = [popped EXCEPT ![i] = [stage |-> "going", state |-> StateOf("main")]]
        /\ torn' = (torn \/ Calling("main") \/ opening)
    BY <1>1 DEF PopOut
  <2>2. StateOf("main") \in State
    BY <1>0, CopyTyped DEF Window
  <2>3. ~Calling("main")
    BY <2>1 DEF Safe
  <2>4. popped'[i].stage = "going" /\ \A j \in Pop \ {i} : popped'[j] = popped[j]
    BY <1>0, <2>1, <2>2, PoppedChange
  <2>5. inbox = <<>> /\ frame = "none" /\ front = "none"
    BY <1>0, <2>1 DEF LinkNow, PlaceNow, FrontInv
  <2> QED BY <2>1, <2>3, <2>4, <2>5 DEF LinkNow, callVars, Calling, Goes
<1>2. CASE Insert(i)
  <2>1. UNCHANGED <<callVars, out, frame, front, last, report, inbox>> /\ Goes(i)
    BY <1>2 DEF Insert, Goes
  <2>2. out /\ frame = "none" /\ front = "none" /\ \A j \in Pop \ {i} : ~Goes(j)
    BY <1>0, <2>1 DEF PlaceNow, FrontInv
  <2>3. entry = NoState
    BY <1>2, <2>2 DEF PlaceNow, Goes, Insert
  <2>4. popped' = [popped EXCEPT ![i].stage = "building"] /\ entry' = popped[i].state
    BY <1>2, <2>2, <2>3 DEF Insert
  <2>5. popped'[i].stage = "building" /\ (\A j \in Pop \ {i} : popped'[j] = popped[j]) /\ Goes(i)'
    BY <1>0, <2>4, PoppedChange
  <2>6. popped'[i].state = popped[i].state
    BY <1>0, <2>4 DEF MoveTyped
  <2>7. inbox = <<>>
    BY <2>1 DEF LinkNow
  <2> QED BY <2>1, <2>2, <2>4, <2>5, <2>6, <2>7 DEF LinkNow, callVars, Calling, Goes
<1>3. CASE Build(i)
  <2>1. UNCHANGED <<callVars, out, last, report, inbox>> /\ Goes(i)
    BY <1>3 DEF Build, Goes
  <2>2. out /\ frame = "none" /\ front = "none" /\ \A j \in Pop \ {i} : ~Goes(j)
    BY <1>0, <2>1 DEF PlaceNow, FrontInv
  <2>3. inbox = <<>> /\ report = NoState
    BY <2>1, <2>2 DEF LinkNow
  <2>4. \E to \in {"done", "failed"} :
           /\ popped'[i].stage = to
           /\ \A j \in Pop \ {i} : popped'[j] = popped[j]
    BY <1>0, <1>3, PoppedChange DEF Build
  <2>5. \A j \in Pop : popped'[j].stage # "building"
    BY <2>2, <2>4 DEF Goes
  <2>6. front' \in {"none", "starting"}
    BY <1>3, <2>2 DEF Build
  <2> QED BY <2>1, <2>2, <2>3, <2>5, <2>6 DEF LinkNow, callVars, Calling
<1>4. CASE PopFails(i)
  <2>1. UNCHANGED <<callVars, entry, frame, front, last, report, inbox>> /\ Goes(i)
        /\ popped' = [popped EXCEPT ![i] = [stage |-> "done", state |-> NoState]]
    BY <1>4 DEF PopFails, Goes
  <2>2. popped'[i].stage = "done" /\ \A j \in Pop \ {i} : popped'[j] = popped[j]
    BY <1>0, <2>1, PoppedChange
  <2>3. inbox = <<>> /\ out
    BY <2>1 DEF LinkNow, PlaceNow
  <2>4. ~out'
    BY <1>4, <2>3 DEF PopFails, Returned
  <2> QED BY <2>1, <2>2, <2>3, <2>4 DEF LinkNow, callVars, Calling
<1> QED BY <1>1, <1>2, <1>3, <1>4

LEMMA LinkWindow ==
    ASSUME PopTyped, PlaceNow, LinkNow, Safe',
           \/ Adopt \/ Lost \/ Wire \/ Reports \/ ReportLands \/ CloseRequested \/ CloseUnbuilt
           \/ Destroyed \/ HearWindow
    PROVE  LinkNow'
<1>0. MoveTyped /\ FrontInv /\ CallTyped
  BY DEF PopTyped
<1>1. CASE Adopt
  BY <1>1 DEF Adopt, LinkNow, callVars, Calling, Goes
<1>2. CASE Lost
  BY <1>2 DEF Lost, LinkNow, callVars, Calling, Goes
<1>3. CASE Wire
  <2>1. /\ UNCHANGED <<callVars, out, popped, entry, frame, report, inbox>>
        /\ front = "adopted" /\ front' = "wired" /\ last' = StateOf("own")
        /\ torn' = (torn \/ StateOf("own") # entry)
    BY <1>3 DEF Wire
  <2>2. last' = entry
    BY <2>1 DEF Safe
  <2>3. report = NoState
    BY <2>1 DEF LinkNow
  <2>4. out
    BY <1>0, <2>1 DEF FrontInv, PlaceNow
  <2> QED BY <2>1, <2>2, <2>3, <2>4 DEF LinkNow, callVars, Calling, Goes
<1>4. CASE Reports
  <2>1. /\ UNCHANGED <<callVars, out, popped, entry, frame, front, inbox>>
        /\ front = "wired" /\ last' = StateOf("own") /\ report' = StateOf("own")
    BY <1>4 DEF Reports, Unsent
  <2>2. report' # NoState
    BY <1>0, <2>1, CopyTyped, PopOutAssumption DEF Window
  <2> QED BY <2>1, <2>2 DEF LinkNow, callVars, Calling, Goes
<1>5. CASE ReportLands
  <2>1. /\ UNCHANGED <<callVars, out, popped, frame, front, last>>
        /\ report # NoState /\ report' = NoState /\ front = "wired" /\ report = last
    BY <1>5 DEF ReportLands, LinkNow
  <2>2. out /\ frame # "none" /\ entry # NoState /\ \A j \in Pop : ~Goes(j)
    BY <1>0, <2>1, RunsOut DEF Runs
  <2>3. entry' = report /\ inbox' = Append(inbox, Word("synced", report))
    BY <1>5, <2>2 DEF ReportLands
  <2>4. report \in State
    BY <1>0, <2>1 DEF MoveTyped
  <2>5. inbox' # <<>> /\ inbox'[Len(inbox')].state = entry'
    BY <1>0, <2>3, <2>4, InboxGrows
  <2>6. \A j \in Pop : popped'[j].stage # "building"
    BY <2>1, <2>2 DEF Goes
  <2> QED BY <2>1, <2>2, <2>3, <2>5, <2>6 DEF LinkNow, callVars, Calling, Goes
<1>6. CASE CloseRequested
  <2>1. /\ UNCHANGED <<callVars, out, popped, entry, front, last, report, inbox>>
        /\ frame = "up" /\ frame' = "closing"
    BY <1>6 DEF CloseRequested
  <2> QED BY <2>1 DEF LinkNow, callVars, Calling, Goes
<1>7. CASE CloseUnbuilt
  BY <1>7 DEF CloseUnbuilt, Safe
<1>8. CASE Destroyed
  <2>1. /\ UNCHANGED <<out, popped, report>>
        /\ frame = "closing" /\ frame' = "none" /\ front' = "none" /\ entry' = NoState
        /\ draining' = [draining EXCEPT !["own"] = NoCall]
        /\ steers' = [steers EXCEPT !["own"] = [m \in Words |-> "none"]]
        /\ torn' = (torn \/ (Runs /\ (entry # StateOf("own") \/ Calling("own") \/ report # NoState)))
    BY <1>8 DEF Destroyed, Runs
  <2>2. out /\ \A j \in Pop : ~Goes(j)
    BY <2>1 DEF PlaceNow
  <2>3. ~Calling("own") /\ report = NoState
    <3>1. CASE Runs
      BY <2>1, <3>1 DEF Safe
    <3>2. CASE ~Runs
      BY <1>0, <3>2 DEF FrontInv, Runs, LinkNow
    <3> QED BY <3>1, <3>2
  <2>4. adrift' = {}
    <3> DEFINE sent == IF draining["own"].stage = "going"
                       THEN {[word |-> draining["own"].word, how |-> "send"]} ELSE {}
               steered == {[word |-> m, how |-> "steer"] :
                              m \in {n \in Words : steers["own"][n] = "going"}}
    <3>1. adrift' = adrift \cup sent \cup steered
      BY <1>8 DEF Destroyed
    <3>2. sent = {}
      BY <1>0, <2>3, DrainTyped DEF Calling, Window
    <3>3. steered = {}
      BY <2>3 DEF Calling
    <3> HIDE DEF sent, steered
    <3> QED BY <3>1, <3>2, <3>3 DEF LinkNow
  <2>5. draining'["main"] = draining["main"] /\ steers'["main"] = steers["main"]
    BY <1>0, <2>1 DEF CallTyped, Window
  <2>6. \A j \in Pop : popped'[j].stage # "building"
    BY <2>1, <2>2 DEF Goes
  <2> QED BY <2>1, <2>2, <2>3, <2>4, <2>5, <2>6 DEF LinkNow, Calling, Goes
<1>9. CASE HearWindow
  <2>1. UNCHANGED <<callVars, popped, entry, frame, front, last, report>>
        /\ inbox # <<>> /\ inbox' = Tail(inbox)
    BY <1>9 DEF HearWindow
  <2>2. /\ Head(inbox) = inbox[1] /\ Head(inbox).is \in {"synced", "closed"} /\ 1 \in DOMAIN inbox
        /\ Len(inbox) \in Nat
        /\ inbox' = <<>> <=> Len(inbox) = 1
        /\ inbox' # <<>> => inbox'[Len(inbox')] = inbox[Len(inbox)]
    BY <1>0, <2>1, InboxShrinks
  <2>3. CASE Head(inbox).is = "closed"
    <3>1. Len(inbox) = 1 /\ ClosedLast
      BY <2>1, <2>2, <2>3 DEF PlaceNow, ClosedLast
    <3>2. out /\ frame = "none" /\ front = "none" /\ inbox' = <<>>
      BY <1>0, <2>2, <3>1 DEF PlaceNow, FrontInv
    <3>3. ~out'
      BY <1>9, <2>3, <3>2 DEF HearWindow, Returned
    <3> QED BY <2>1, <3>2, <3>3 DEF LinkNow, callVars, Calling, Goes
  <2>4. CASE Head(inbox).is = "synced"
    <3>1. out' = out
      BY <1>9, <2>4 DEF HearWindow
    <3> QED BY <2>1, <2>2, <3>1 DEF LinkNow, callVars, Calling, Goes
  <2> QED BY <2>2, <2>3, <2>4
<1> QED BY <1>1, <1>2, <1>3, <1>4, <1>5, <1>6, <1>7, <1>8, <1>9

LEMMA LinkStep ==
    ASSUME PopTyped, PlaceInv, LinkInv, [PopOutNext]_popOutVars PROVE LinkInv'
<1> SUFFICES ASSUME Safe' PROVE LinkNow'
  BY DEF LinkInv
<1>1. Safe /\ PlaceNow /\ LinkNow
  BY SafeBefore DEF PlaceInv, LinkInv, Safe
<1>2. ASSUME TurnBegins \/ TurnEnds("finished") \/ TurnEnds("failed") \/ Exits \/ ClaimOrClose
      PROVE  LinkNow'
  <2>1. UNCHANGED callVars
    BY <1>2 DEF TurnBegins, TurnEnds, Exits, ClaimOrClose, Alone
  <2> QED BY <1>1, <1>2, <2>1, MovesStay, LinkStays DEF callVars
<1>3. ASSUME UNCHANGED popOutVars PROVE LinkNow'
  BY <1>1, <1>3, MovesStay, LinkStays DEF popOutVars, callVars
<1>4. ASSUME \/ \E w \in Window : Interrupt(w)
             \/ \E w \in Window : Awaited(w) \/ SendLands(w) \/ SendReplies(w)
             \/ \E w \in Window : Hear(w)
             \/ \E w \in Window, m \in Words : Enqueue(w, m) \/ SteerQueued(w, m) \/ RemoveQueued(w, m)
             \/ \E w \in Window, m \in Words : SteerLands(w, m) \/ SteerRefused(w, m)
      PROVE  LinkNow'
  <2>1. UNCHANGED <<moveVars, crossed>>
    BY <1>4, MovesStay
  <2> QED BY <1>1, <1>4, <2>1, LinkActs, LinkStays
<1>5. ASSUME NEW c \in adrift, AdriftLands(c) PROVE LinkNow'
  BY <1>1, <1>5 DEF LinkNow
<1> QED BY <1>1, <1>2, <1>3, <1>4, <1>5, PopOutSteps, LinkPops, LinkWindow

-----------------------------------------------------------------------------
(* What the windows have still to hear, and what calls brought about.      *)

HeardInv ==
    /\ \A w \in Window : \A k \in DOMAIN coming[w] :
          /\ coming[w][k].is = "exit" => ~alive
          /\ coming[w][k].is = "echo" => taken[coming[w][k].word] >= 1
    /\ ~alive => \A w \in Window : coming[w] # <<>> => coming[w][Len(coming[w])].is = "exit"
    /\ \A w \in Window, m \in Words : steers[w][m] = "no" => ~alive
    /\ \A w \in Window : draining[w].stage = "yes" => taken[draining[w].word] >= 1

\* A sequence of signals of which the first has been heard, or to which some were added.
LEMMA SignalTail ==
    ASSUME NEW s \in Seq(Signals), s # <<>>
    PROVE  /\ Tail(s) \in Seq(Signals) /\ Len(s) \in Nat /\ Len(s) >= 1
           /\ DOMAIN s = 1 .. Len(s) /\ DOMAIN Tail(s) = 1 .. Len(s) - 1 /\ Len(Tail(s)) = Len(s) - 1
           /\ \A k \in DOMAIN Tail(s) : k + 1 \in DOMAIN s /\ Tail(s)[k] = s[k + 1]
           /\ Tail(s) # <<>> => Tail(s)[Len(Tail(s))] = s[Len(s)]
           /\ Head(s) = s[1] /\ 1 \in DOMAIN s /\ Head(s) \in Signals
           /\ Tail(s) = <<>> => Head(s) = s[Len(s)]
<1>1. /\ Tail(s) \in Seq(Signals) /\ Len(s) \in Nat /\ Len(s) >= 1
      /\ DOMAIN s = 1 .. Len(s) /\ DOMAIN Tail(s) = 1 .. Len(s) - 1 /\ Len(Tail(s)) = Len(s) - 1
      /\ \A k \in 1 .. Len(s) - 1 : Tail(s)[k] = s[k + 1]
      /\ Head(s) = s[1]
  OBVIOUS
<1>2. \A t \in Seq(Signals) : t = <<>> <=> Len(t) = 0
  OBVIOUS
<1>3. Tail(s) # <<>> => Tail(s)[Len(Tail(s))] = s[Len(s)]
  <2>1. ASSUME Tail(s) # <<>> PROVE Tail(s)[Len(Tail(s))] = s[Len(s)]
    <3>1. Len(s) - 1 # 0
      BY <1>1, <1>2, <2>1
    <3>2. Len(s) - 1 \in 1 .. Len(s) - 1 /\ (Len(s) - 1) + 1 = Len(s)
      BY <1>1, <3>1
    <3> QED BY <1>1, <3>2
  <2> QED BY <2>1
<1>4. Tail(s) = <<>> => Len(s) = 1
  <2>1. Tail(s) = <<>> <=> Len(Tail(s)) = 0
    BY <1>1, <1>2
  <2> QED BY <1>1, <2>1
<1>5. Head(s) \in Signals
  BY <1>1
<1> QED BY <1>1, <1>3, <1>4, <1>5

LEMMA SignalConcat ==
    ASSUME NEW s \in Seq(Signals), NEW t \in Seq(Signals)
    PROVE  /\ s \o t \in Seq(Signals)
           /\ \A k \in DOMAIN (s \o t) : \/ \E j \in DOMAIN s : (s \o t)[k] = s[j]
                                         \/ \E j \in DOMAIN t : (s \o t)[k] = t[j]
           /\ t # <<>> => s \o t # <<>> /\ (s \o t)[Len(s \o t)] = t[Len(t)]
<1>1. /\ s \o t \in Seq(Signals) /\ Len(s \o t) = Len(s) + Len(t) /\ Len(s) \in Nat /\ Len(t) \in Nat
      /\ DOMAIN s = 1 .. Len(s) /\ DOMAIN t = 1 .. Len(t)
      /\ DOMAIN (s \o t) = 1 .. Len(s) + Len(t)
      /\ \A k \in 1 .. Len(s) + Len(t) : (s \o t)[k] = IF k <= Len(s) THEN s[k] ELSE t[k - Len(s)]
  OBVIOUS
<1>2. ASSUME NEW k \in DOMAIN (s \o t)
      PROVE  \/ \E j \in DOMAIN s : (s \o t)[k] = s[j]
             \/ \E j \in DOMAIN t : (s \o t)[k] = t[j]
  <2>1. CASE k <= Len(s)
    <3>1. k \in DOMAIN s /\ (s \o t)[k] = s[k]
      BY <1>1, <2>1
    <3> QED BY <3>1
  <2>2. CASE ~(k <= Len(s))
    <3>1. k - Len(s) \in DOMAIN t /\ (s \o t)[k] = t[k - Len(s)]
      BY <1>1, <2>2
    <3> QED BY <3>1
  <2> QED BY <2>1, <2>2
<1>3. ASSUME t # <<>> PROVE s \o t # <<>> /\ (s \o t)[Len(s \o t)] = t[Len(t)]
  <2>1. \A u \in Seq(Signals) : u = <<>> <=> Len(u) = 0
    OBVIOUS
  <2>2. Len(t) > 0
    BY <1>1, <1>3, <2>1
  <2>3. Len(s) + Len(t) \in 1 .. Len(s) + Len(t) /\ ~(Len(s) + Len(t) <= Len(s))
        /\ (Len(s) + Len(t)) - Len(s) = Len(t)
    BY <1>1, <2>2
  <2>4. (s \o t)[Len(s) + Len(t)] = t[Len(t)]
    BY <1>1, <2>3
  <2>5. s \o t # <<>>
    BY <1>1, <2>1, <2>2
  <2> QED BY <1>1, <2>4, <2>5
<1> QED BY <1>1, <1>2, <1>3

\* What is left of what a window had to hear.
Rest(s, t) ==
    /\ \A k \in DOMAIN t : \E j \in DOMAIN s : t[k] = s[j]
    /\ t # <<>> => s # <<>> /\ t[Len(t)] = s[Len(s)]

LEMMA RestsOf ==
    ASSUME NEW s \in Seq(Signals)
    PROVE  Rest(s, s) /\ Rest(s, <<>>) /\ (s # <<>> => Rest(s, Tail(s)))
<1>1. Rest(s, s) /\ Rest(s, <<>>)
  BY DEF Rest
<1>2. ASSUME s # <<>> PROVE Rest(s, Tail(s))
  <2>1. \A k \in DOMAIN Tail(s) : k + 1 \in DOMAIN s /\ Tail(s)[k] = s[k + 1]
    BY <1>2, SignalTail
  <2>2. Tail(s) # <<>> => Tail(s)[Len(Tail(s))] = s[Len(s)]
    BY <1>2, SignalTail
  <2> QED BY <1>2, <2>1, <2>2 DEF Rest
<1> QED BY <1>1, <1>2

LEMMA HeardLess ==
    ASSUME HeardInv, UNCHANGED <<alive, taken>>,
           \A w \in Window : Rest(coming[w], coming'[w]),
           \A w \in Window : draining'[w].stage = "yes" => draining'[w] = draining[w],
           \A w \in Window, m \in Words : steers'[w][m] = "no" => steers[w][m] = "no" \/ ~alive
    PROVE  HeardInv'
<1>1. ASSUME NEW w \in Window, NEW k \in DOMAIN coming'[w]
      PROVE  /\ coming'[w][k].is = "exit" => ~alive'
             /\ coming'[w][k].is = "echo" => taken'[coming'[w][k].word] >= 1
  <2>1. PICK j \in DOMAIN coming[w] : coming'[w][k] = coming[w][j]
    BY DEF Rest
  <2> QED BY <2>1 DEF HeardInv
<1>2. ASSUME ~alive', NEW w \in Window, coming'[w] # <<>>
      PROVE  coming'[w][Len(coming'[w])].is = "exit"
  BY <1>2 DEF HeardInv, Rest
<1>3. ASSUME NEW w \in Window, NEW m \in Words, steers'[w][m] = "no" PROVE ~alive'
  BY <1>3 DEF HeardInv
<1>4. ASSUME NEW w \in Window, draining'[w].stage = "yes" PROVE taken'[draining'[w].word] >= 1
  BY <1>4 DEF HeardInv
<1> QED BY <1>1, <1>2, <1>3, <1>4 DEF HeardInv

\* The session says more: it runs, or this is its end.
LEMMA HeardMore ==
    ASSUME HeardInv, SessionTyped, NEW events \in Seq(Signals), alive,
           \A w \in Window : coming'[w] = coming[w] \/ coming'[w] = coming[w] \o events,
           \A m \in Words : taken'[m] >= taken[m] /\ taken'[m] \in 0 .. 2,
           \A k \in DOMAIN events : events[k].is = "echo" => taken'[events[k].word] >= 1,
           \/ alive' /\ \A k \in DOMAIN events : events[k].is # "exit"
           \/ /\ ~alive' /\ events # <<>> /\ events[Len(events)].is = "exit"
              /\ \A w \in Window : coming'[w] = coming[w] => coming[w] = <<>>,
           \A w \in Window, m \in Words : steers'[w][m] # "no",
           \A w \in Window : draining'[w].stage = "yes" => taken'[draining'[w].word] >= 1
    PROVE  HeardInv'
<1>0. \A w \in Window : coming[w] \in Seq(Signals)
  BY DEF SessionTyped
<1>1. ASSUME NEW w \in Window, NEW k \in DOMAIN coming'[w]
      PROVE  /\ coming'[w][k].is = "exit" => ~alive'
             /\ coming'[w][k].is = "echo" => taken'[coming'[w][k].word] >= 1
  <2>1. CASE \E j \in DOMAIN coming[w] : coming'[w][k] = coming[w][j]
    <3>1. PICK j \in DOMAIN coming[w] : coming'[w][k] = coming[w][j]
      BY <2>1
    <3>2. coming[w][j] \in Signals
      BY <1>0
    <3>3. coming[w][j].is # "exit"
      BY DEF HeardInv
    <3>4. ASSUME coming[w][j].is = "echo" PROVE taken'[coming[w][j].word] >= 1
      <4>1. coming[w][j].word \in Words
        BY <3>2, <3>4, SignalsAre
      <4>2. taken[coming[w][j].word] >= 1 /\ taken[coming[w][j].word] \in 0 .. 2
        BY <3>4, <4>1 DEF HeardInv, SessionTyped
      <4> QED BY <4>1, <4>2
    <3> QED BY <3>1, <3>3, <3>4
  <2>2. CASE \E j \in DOMAIN events : coming'[w][k] = events[j]
    <3>1. PICK j \in DOMAIN events : coming'[w][k] = events[j]
      BY <2>2
    <3>2. CASE alive' /\ \A x \in DOMAIN events : events[x].is # "exit"
      BY <3>1, <3>2
    <3>3. CASE ~alive'
      BY <3>1, <3>3
    <3> QED BY <3>2, <3>3
  <2>3. CASE coming'[w] = coming[w]
    BY <2>1, <2>3
  <2>4. CASE coming'[w] = coming[w] \o events
    <3>1. \A x \in DOMAIN (coming[w] \o events) :
             \/ \E j \in DOMAIN coming[w] : (coming[w] \o events)[x] = coming[w][j]
             \/ \E j \in DOMAIN events : (coming[w] \o events)[x] = events[j]
      BY <1>0, SignalConcat
    <3> QED BY <2>1, <2>2, <2>4, <3>1
  <2> QED BY <2>3, <2>4
<1>2. ASSUME ~alive', NEW w \in Window, coming'[w] # <<>>
      PROVE  coming'[w][Len(coming'[w])].is = "exit"
  <2>1. events # <<>> /\ events[Len(events)].is = "exit" /\ coming'[w] = coming[w] \o events
    BY <1>2
  <2> QED BY <1>0, <2>1, SignalConcat
<1> QED BY <1>1, <1>2 DEF HeardInv

-----------------------------------------------------------------------------
(* What the steps of a window do, in terms of what its queue holds.        *)

\* The other window is left alone.
Elsewhere(w) ==
    \A v \in Window \ {w} : /\ copy'[v] = copy[v] /\ draining'[v] = draining[v]
                            /\ steers'[v] = steers[v]

\* What the window knows of the session is as it was.
KnowsSame(w) ==
    /\ copy'[w].session = copy[w].session /\ copy'[w].working = copy[w].working
    /\ copy'[w].queue \in Seq(Item)

\* The window tries its queue.
Tries(w) ==
    /\ Free(copy'[w]) => draining'[w] # NoCall
    /\ \/ draining'[w] = draining[w]
       \/ /\ draining[w] = NoCall
          /\ draining'[w].word \in Words /\ Plain(copy'[w].queue, draining'[w].word)
          /\ draining'[w].stage \in {"waiting", "going", "no"}

LEMMA DrainsDoes ==
    ASSUME CallTyped, NEW w \in Window, NEW p \in PaneCopies, Drains(w, p)
    PROVE  /\ copy'[w] = p /\ Tries(w)
           /\ \A v \in Window \ {w} : copy'[v] = copy[v] /\ draining'[v] = draining[v]
<1>1. copy'[w] = p /\ \A v \in Window \ {w} : copy'[v] = copy[v] /\ draining'[v] = draining[v]
  BY DrainsElse
<1>2. CASE Free(p) /\ draining[w] = NoCall
  <2> DEFINE h == Head(Waiting(p.queue)).word
             st == IF p.ended THEN "no" ELSE IF p.session THEN "going" ELSE "waiting"
  <2>1. draining' = [draining EXCEPT ![w] = [word |-> h, stage |-> st]]
    BY <1>2 DEF Drains
  <2>2. st \in {"waiting", "going", "no"}
    OBVIOUS
  <2>3. p.queue \in Seq(Item) /\ Waiting(p.queue) # <<>>
    BY <1>2, CopyParts DEF Free
  <2>4. h \in Words /\ Plain(p.queue, h)
    BY <2>3, WaitingItems
  <2> HIDE DEF h, st
  <2>5. draining'[w] = [word |-> h, stage |-> st]
    BY <2>1 DEF CallTyped
  <2>6. draining'[w].word = h /\ draining'[w].stage = st
    BY <2>5
  <2>7. draining'[w] # NoCall
    BY <2>2, <2>6 DEF NoCall
  <2> QED BY <1>1, <1>2, <2>2, <2>4, <2>6, <2>7 DEF Tries
<1>3. CASE ~(Free(p) /\ draining[w] = NoCall)
  <2>1. draining' = draining
    BY <1>3 DEF Drains
  <2> QED BY <1>1, <1>3, <2>1 DEF Tries
<1> QED BY <1>2, <1>3

\* A queue that is paused is not sent from.
LEMMA HeldFree ==
    ASSUME NEW p \in PaneCopies
    PROVE  /\ ~Free(Held(p)) /\ Held(p).queue = p.queue /\ Held(p).session = p.session
           /\ Held(p).working = p.working
  BY DEF Held, Free, PaneCopies

LEMMA EnqueueDoes ==
    ASSUME CallTyped, NEW w \in Window, NEW m \in Words, Enqueue(w, m)
    PROVE  /\ UNCHANGED <<sessionVars, adrift, moveVars, dropped, crossed, torn, steers>>
           /\ Elsewhere(w) /\ KnowsSame(w) /\ Tries(w) /\ Shows(w)
           /\ m \notin written /\ taken[m] = 0 /\ written' = written \cup {m}
           /\ \A x \in Words :
                 /\ Plain(copy'[w].queue, x) <=> Plain(copy[w].queue, x) \/ x = m
                 /\ Marked(copy'[w].queue, x) <=> Marked(copy[w].queue, x)
<1> DEFINE q == copy[w].queue
           n == Append(q, [word |-> m, steered |-> FALSE])
           r == [copy[w] EXCEPT !.queue = Append(@, [word |-> m, steered |-> FALSE]), !.held = FALSE]
<1>1. copy[w] \in PaneCopies /\ q \in Seq(Item)
  BY CopyTyped
<1>2. /\ n \in Seq(Item)
      /\ \A x \in Words : (Plain(n, x) <=> Plain(q, x) \/ x = m) /\ (Marked(n, x) <=> Marked(q, x))
  BY <1>1, AppendItems
<1>3. r = [copy[w] EXCEPT !.queue = n, !.held = FALSE]
  OBVIOUS
<1> HIDE DEF n
<1>4. r \in PaneCopies /\ r.queue = n /\ r.session = copy[w].session /\ r.working = copy[w].working
  BY <1>1, <1>2, <1>3 DEF PaneCopies
<1>5. Drains(w, r)
  BY DEF Enqueue
<1> HIDE DEF r
<1>6. copy'[w] = r /\ Tries(w)
      /\ \A v \in Window \ {w} : copy'[v] = copy[v] /\ draining'[v] = draining[v]
  BY <1>4, <1>5, DrainsDoes
<1>7. UNCHANGED <<sessionVars, adrift, moveVars, dropped, crossed, torn, steers>>
  BY DEF Enqueue, ByUser
<1>8. Elsewhere(w)
  BY <1>6, <1>7 DEF Elsewhere
<1>9. KnowsSame(w)
  BY <1>2, <1>4, <1>6 DEF KnowsSame
<1>10. Shows(w) /\ m \notin written /\ taken[m] = 0 /\ written' = written \cup {m}
  BY DEF Enqueue
<1> QED BY <1>2, <1>4, <1>6, <1>7, <1>8, <1>9, <1>10

LEMMA SteerDoes ==
    ASSUME CallTyped, NEW w \in Window, NEW m \in Words, SteerQueued(w, m)
    PROVE  /\ UNCHANGED <<sessionVars, adrift, moveVars, dropped, crossed, written>>
           /\ Elsewhere(w) /\ KnowsSame(w) /\ Shows(w) /\ Plain(copy[w].queue, m)
           /\ \/ /\ Tries(w) /\ UNCHANGED <<steers, torn>>
                 /\ \A x \in Words :
                       /\ Plain(copy'[w].queue, x) <=> Plain(copy[w].queue, x)
                       /\ Marked(copy'[w].queue, x) <=> Marked(copy[w].queue, x) /\ x # m
              \/ /\ copy[w].working /\ copy[w].session /\ draining' = draining
                 /\ torn' = (torn \/ draining[w].word = m)
                 /\ steers'[w][m] = "going" /\ \A x \in Words \ {m} : steers'[w][x] = steers[w][x]
                 /\ \A x \in Words :
                       /\ Plain(copy'[w].queue, x) <=> Plain(copy[w].queue, x) /\ x # m
                       /\ Marked(copy'[w].queue, x) <=> Marked(copy[w].queue, x) \/ x = m
<1> DEFINE q == copy[w].queue
           h == [copy[w] EXCEPT !.held = FALSE]
<1>1. copy[w] \in PaneCopies /\ q \in Seq(Item) /\ h \in PaneCopies /\ h.queue = q
      /\ h.session = copy[w].session /\ h.working = copy[w].working
  BY CopyTyped DEF PaneCopies
<1>2. /\ UNCHANGED <<sessionVars, adrift, moveVars, dropped, crossed, written>>
      /\ Shows(w) /\ [word |-> m, steered |-> FALSE] \in ToSet(q)
  BY <1>1 DEF SteerQueued, ByUser
<1>3. Plain(q, m)
  BY <1>2 DEF Plain
<1>4. CASE ~copy[w].working \/ ~copy[w].session
  <2> DEFINE n == <<[word |-> m, steered |-> FALSE]>> \o Without(q, m)
             r == [h EXCEPT !.queue = <<[word |-> m, steered |-> FALSE]>> \o Without(@, m)]
  <2>1. /\ Without(q, m) \in Seq(Item)
        /\ \A x \in Words :
              /\ Plain(Without(q, m), x) <=> Plain(q, x) /\ x # m
              /\ Marked(Without(q, m), x) <=> Marked(q, x) /\ x # m
    <3> DEFINE S == [word : Words \ {m}, steered : BOOLEAN]
    <3> HIDE DEF S
    <3>1. /\ Only(q, S) \in Seq(Item)
          /\ \A x \in Words :
                /\ Plain(Only(q, S), x) <=> Plain(q, x) /\ [word |-> x, steered |-> FALSE] \in S
                /\ Marked(Only(q, S), x) <=> Marked(q, x) /\ [word |-> x, steered |-> TRUE] \in S
      BY <1>1, OnlyItems
    <3>2. \A x \in Words, b \in BOOLEAN : [word |-> x, steered |-> b] \in S <=> x # m
      BY DEF S
    <3>3. Without(q, m) = Only(q, S)
      BY DEF Without, S
    <3> HIDE DEF q
    <3> QED BY <3>1, <3>2, <3>3
  <2>2. /\ n \in Seq(Item)
        /\ \A x \in Words : /\ Plain(n, x) <=> Plain(Without(q, m), x) \/ x = m
                            /\ Marked(n, x) <=> Marked(Without(q, m), x)
    BY <2>1, FrontItems
  <2>3. r = [h EXCEPT !.queue = n]
    BY <1>1
  <2>4. Drains(w, r) /\ UNCHANGED <<steers, torn>>
    BY <1>1, <1>4 DEF SteerQueued
  <2> HIDE DEF n
  <2>5. r \in PaneCopies /\ r.queue = n /\ r.session = copy[w].session /\ r.working = copy[w].working
    BY <1>1, <2>2, <2>3 DEF PaneCopies
  <2> HIDE DEF r, h
  <2>6. copy'[w] = r /\ Tries(w)
        /\ \A v \in Window \ {w} : copy'[v] = copy[v] /\ draining'[v] = draining[v]
    BY <2>4, <2>5, DrainsDoes
  <2>7. Elsewhere(w) /\ KnowsSame(w)
    BY <2>2, <2>4, <2>5, <2>6 DEF Elsewhere, KnowsSame
  <2> QED BY <1>2, <1>3, <2>1, <2>2, <2>4, <2>5, <2>6, <2>7
<1>5. CASE copy[w].working /\ copy[w].session
  <2> DEFINE n == Mark(q, {m}, TRUE)
             r == [h EXCEPT !.queue = Mark(@, {m}, TRUE)]
  <2>1. /\ n \in Seq(Item)
        /\ \A x \in Words :
              /\ Plain(n, x) <=> IF x \in {m} THEN ~TRUE /\ InQueue(q, x) ELSE Plain(q, x)
              /\ Marked(n, x) <=> IF x \in {m} THEN TRUE /\ InQueue(q, x) ELSE Marked(q, x)
    BY <1>1, MarkItems
  <2>2. r = [h EXCEPT !.queue = n]
    BY <1>1
  <2>3. Keeps(w, r) /\ steers' = [steers EXCEPT ![w][m] = "going"]
        /\ torn' = (torn \/ draining[w].word = m)
    BY <1>1, <1>5 DEF SteerQueued
  <2> HIDE DEF n
  <2>5. r \in PaneCopies /\ r.queue = n /\ r.session = copy[w].session /\ r.working = copy[w].working
    BY <1>1, <2>1, <2>2 DEF PaneCopies
  <2> HIDE DEF r, h
  <2>6. copy'[w] = r /\ UNCHANGED draining
        /\ \A v \in Window \ {w} : copy'[v] = copy[v] /\ draining'[v] = draining[v]
    BY <2>3, DrainsElse DEF Keeps
  <2>7. /\ steers'[w][m] = "going" /\ \A x \in Words \ {m} : steers'[w][x] = steers[w][x]
        /\ \A v \in Window \ {w} : steers'[v] = steers[v]
    BY <2>3, SteersTyped
  <2>8. Elsewhere(w) /\ KnowsSame(w)
    BY <2>1, <2>5, <2>6, <2>7 DEF Elsewhere, KnowsSame
  <2>9. \A x \in Words :
           /\ Plain(copy'[w].queue, x) <=> Plain(q, x) /\ x # m
           /\ Marked(copy'[w].queue, x) <=> Marked(q, x) \/ x = m
    BY <1>3, <2>1, <2>5, <2>6 DEF InQueue
  <2> QED BY <1>2, <1>3, <1>5, <2>3, <2>6, <2>7, <2>8, <2>9
<1> QED BY <1>4, <1>5, <1>1, CopyParts

LEMMA RemoveDoes ==
    ASSUME CallTyped, NEW w \in Window, NEW m \in Words, RemoveQueued(w, m)
    PROVE  /\ UNCHANGED <<sessionVars, adrift, moveVars, dropped, crossed, torn, steers>>
           /\ Elsewhere(w) /\ KnowsSame(w) /\ Tries(w) /\ Shows(w) /\ Plain(copy[w].queue, m)
           /\ written' = written \ {m}
           /\ \A x \in Words :
                 /\ Plain(copy'[w].queue, x) <=> Plain(copy[w].queue, x) /\ x # m
                 /\ Marked(copy'[w].queue, x) <=> Marked(copy[w].queue, x)
<1> DEFINE q == copy[w].queue
           n == Only(q, Item \ {[word |-> m, steered |-> FALSE]})
           b == copy[w].held /\ Waiting(n) # <<>>
           r == [copy[w] EXCEPT !.queue = n, !.held = @ /\ Waiting(n) # <<>>]
<1>1. copy[w] \in PaneCopies /\ q \in Seq(Item) /\ b \in BOOLEAN
  BY CopyTyped, CopyParts
<1>2. /\ n \in Seq(Item)
      /\ \A x \in Words : (Plain(n, x) <=> Plain(q, x) /\ x # m) /\ (Marked(n, x) <=> Marked(q, x))
  <2>1. \A x \in Words :
           /\ [word |-> x, steered |-> FALSE] \in Item \ {[word |-> m, steered |-> FALSE]} <=> x # m
           /\ [word |-> x, steered |-> TRUE] \in Item \ {[word |-> m, steered |-> FALSE]}
    BY DEF Item
  <2> DEFINE S == Item \ {[word |-> m, steered |-> FALSE]}
  <2> HIDE DEF S
  <2>2. /\ Only(q, S) \in Seq(Item)
        /\ \A x \in Words :
              /\ Plain(Only(q, S), x) <=> Plain(q, x) /\ [word |-> x, steered |-> FALSE] \in S
              /\ Marked(Only(q, S), x) <=> Marked(q, x) /\ [word |-> x, steered |-> TRUE] \in S
    BY <1>1, OnlyItems
  <2> HIDE DEF q
  <2> QED BY <2>1, <2>2 DEF S
<1>3. r = [copy[w] EXCEPT !.queue = n, !.held = b]
  OBVIOUS
<1>4. Drains(w, r) /\ written' = written \ {m} /\ Shows(w)
      /\ [word |-> m, steered |-> FALSE] \in ToSet(q)
  BY DEF RemoveQueued
<1>5. Plain(q, m)
  BY <1>4 DEF Plain
<1> HIDE DEF n, b
<1>6. r \in PaneCopies /\ r.queue = n /\ r.session = copy[w].session /\ r.working = copy[w].working
  BY <1>1, <1>2, <1>3 DEF PaneCopies
<1> HIDE DEF r
<1>7. copy'[w] = r /\ Tries(w)
      /\ \A v \in Window \ {w} : copy'[v] = copy[v] /\ draining'[v] = draining[v]
  BY <1>4, <1>6, DrainsDoes
<1>8. UNCHANGED <<sessionVars, adrift, moveVars, dropped, crossed, torn, steers>>
  BY DEF RemoveQueued, ByUser
<1>9. Elsewhere(w) /\ KnowsSame(w)
  BY <1>2, <1>6, <1>7, <1>8 DEF Elsewhere, KnowsSame
<1> QED BY <1>2, <1>4, <1>5, <1>6, <1>7, <1>8, <1>9

LEMMA InterruptDoes ==
    ASSUME CallTyped, NEW w \in Window, Interrupt(w)
    PROVE  /\ UNCHANGED <<sessionVars, adrift, moveVars, dropped, crossed, torn, steers, draining, left,
                          written>>
           /\ Elsewhere(w) /\ KnowsSame(w) /\ Shows(w) /\ ~Free(copy'[w])
           /\ copy'[w].queue = copy[w].queue
<1>1. copy[w] \in PaneCopies /\ Held(copy[w]) \in PaneCopies
  BY CopyTyped, HeldTyped
<1>2. Keeps(w, Held(copy[w])) /\ Shows(w)
      /\ UNCHANGED <<sessionVars, adrift, moveVars, dropped, crossed, torn, steers, written>>
  BY DEF Interrupt, ByUser
<1>3. copy'[w] = Held(copy[w]) /\ UNCHANGED <<draining, left>>
      /\ \A v \in Window \ {w} : copy'[v] = copy[v] /\ draining'[v] = draining[v]
  BY <1>2, DrainsElse DEF Keeps
<1>4. copy'[w].queue \in Seq(Item)
  BY <1>1, <1>3, CopyParts
<1> QED BY <1>1, <1>2, <1>3, <1>4, HeldFree DEF Elsewhere, KnowsSame

LEMMA AwaitedDoes ==
    ASSUME CallTyped, NEW w \in Window, Awaited(w)
    PROVE  /\ UNCHANGED <<sessionVars, adrift, moveVars, dropped, crossed, torn, steers, copy, left,
                          written>>
           /\ Elsewhere(w) /\ Calling(w) /\ draining[w].stage = "waiting"
           /\ draining'[w].word = draining[w].word /\ draining'[w].stage \in {"going", "no"}
           /\ draining'[w] # NoCall /\ draining[w] # NoCall
<1> DEFINE at == IF copy[w].session /\ ~copy[w].ended THEN "going" ELSE "no"
<1>1. /\ UNCHANGED <<sessionVars, adrift, moveVars, dropped, crossed, torn, steers, copy, left, written>>
      /\ draining[w].stage = "waiting" /\ draining' = [draining EXCEPT ![w].stage = at]
  BY DEF Awaited, ByCall
<1>2. draining[w] # NoCall
  BY <1>1 DEF NoCall
<1>3. at \in {"going", "no"}
  OBVIOUS
<1> HIDE DEF at
<1>4. draining'[w] = [word |-> draining[w].word, stage |-> at]
      /\ \A v \in Window \ {w} : draining'[v] = draining[v]
  BY <1>1, <1>2, <1>3, StageTyped
<1>5. Elsewhere(w)
  BY <1>1, <1>4 DEF Elsewhere
<1>6. draining'[w] # NoCall
  BY <1>3, <1>4 DEF NoCall
<1> QED BY <1>1, <1>2, <1>3, <1>4, <1>5, <1>6 DEF Calling

\* Whether what a call gave the session was taken.
Gets(m, how) ==
    /\ alive /\ Given(m, how) /\ alive' = alive /\ opening' = opening
    /\ taken'[m] = (IF taken[m] < 2 THEN taken[m] + 1 ELSE taken[m])
    /\ \A x \in Words \ {m} : taken'[x] = taken[x]

LEMMA SendLandsDoes ==
    ASSUME SessionTyped, CallTyped, NEW w \in Window, SendLands(w)
    PROVE  /\ UNCHANGED <<adrift, moveVars, dropped, crossed, torn, steers, copy, left, written>>
           /\ Elsewhere(w) /\ Calling(w) /\ draining[w].stage = "going" /\ draining[w].word \in Words
           /\ draining'[w] # NoCall
           /\ \/ /\ Gets(draining[w].word, "send")
                 /\ draining'[w] = [word |-> draining[w].word, stage |-> "yes"]
              \/ /\ ~alive /\ UNCHANGED sessionVars
                 /\ draining'[w] = [word |-> draining[w].word, stage |-> "no"]
<1>1. /\ UNCHANGED <<adrift, moveVars, dropped, crossed, torn, steers, copy, left, written>>
      /\ draining[w].stage = "going"
  BY DEF SendLands, ByCall
<1>2. draining[w] # NoCall /\ draining[w].word \in Words
  <2>1. draining[w] # NoCall
    BY <1>1 DEF NoCall
  <2> QED BY <2>1, DrainTyped
<1>3. ASSUME NEW at \in {"yes", "no"}, draining' = [draining EXCEPT ![w].stage = at]
      PROVE  /\ draining'[w] = [word |-> draining[w].word, stage |-> at] /\ Elsewhere(w)
             /\ draining'[w] # NoCall
  <2>1. draining'[w] = [word |-> draining[w].word, stage |-> at]
        /\ \A v \in Window \ {w} : draining'[v] = draining[v]
    BY <1>1, <1>2, <1>3, StageTyped
  <2>2. draining'[w] # NoCall
    BY <1>3, <2>1 DEF NoCall
  <2> QED BY <1>1, <2>1, <2>2 DEF Elsewhere
<1>4. CASE Given(draining[w].word, "send") /\ draining' = [draining EXCEPT ![w].stage = "yes"]
  <2>1. Gets(draining[w].word, "send")
    BY <1>2, <1>4, GivenIs DEF Gets
  <2> QED BY <1>1, <1>2, <1>3, <1>4, <2>1 DEF Calling
<1>5. CASE ~alive /\ draining' = [draining EXCEPT ![w].stage = "no"] /\ UNCHANGED sessionVars
  BY <1>1, <1>2, <1>3, <1>5 DEF Calling
<1> QED BY <1>4, <1>5 DEF SendLands

LEMMA SendRepliesDoes ==
    ASSUME CallTyped, NEW w \in Window, SendReplies(w)
    PROVE  /\ UNCHANGED <<sessionVars, adrift, moveVars, dropped, crossed, torn, steers, written>>
           /\ Elsewhere(w) /\ KnowsSame(w) /\ Calling(w)
           /\ draining'[w] = NoCall /\ draining[w] # NoCall /\ draining[w].word \in Words
           /\ Free(copy'[w]) => left'
           /\ \/ /\ draining[w].stage = "yes"
                 /\ \A x \in Words :
                       /\ Plain(copy'[w].queue, x) <=> Plain(copy[w].queue, x) /\ x # draining[w].word
                       /\ Marked(copy'[w].queue, x) <=> Marked(copy[w].queue, x) /\ x # draining[w].word
              \/ draining[w].stage = "no" /\ copy'[w].queue = copy[w].queue /\ ~Free(copy'[w])
<1> DEFINE q == copy[w].queue
           m == draining[w].word
           n == Without(q, m)
           r == IF draining[w].stage = "yes" THEN [copy[w] EXCEPT !.queue = Without(@, m)]
                ELSE [copy[w] EXCEPT !.held = TRUE]
<1>1. copy[w] \in PaneCopies /\ q \in Seq(Item)
  BY CopyTyped
<1>2. /\ UNCHANGED <<sessionVars, adrift, moveVars, dropped, crossed, torn, steers, written>>
      /\ draining[w].stage \in {"yes", "no"}
      /\ copy' = [copy EXCEPT ![w] = r] /\ draining' = [draining EXCEPT ![w] = NoCall]
      /\ left' = (left \/ Free(r))
  BY DEF SendReplies, ByCall
<1>3. draining[w] # NoCall /\ m \in Words
  <2>1. draining[w] # NoCall
    BY <1>2 DEF NoCall
  <2> QED BY <2>1, DrainTyped
<1>4. /\ n \in Seq(Item)
      /\ \A x \in Words : /\ Plain(n, x) <=> Plain(q, x) /\ x # m
                          /\ Marked(n, x) <=> Marked(q, x) /\ x # m
  <2> DEFINE S == [word : Words \ {m}, steered : BOOLEAN]
  <2> HIDE DEF S, m
  <2>1. /\ Only(q, S) \in Seq(Item)
        /\ \A x \in Words :
              /\ Plain(Only(q, S), x) <=> Plain(q, x) /\ [word |-> x, steered |-> FALSE] \in S
              /\ Marked(Only(q, S), x) <=> Marked(q, x) /\ [word |-> x, steered |-> TRUE] \in S
    BY <1>1, OnlyItems
  <2>2. \A x \in Words, b \in BOOLEAN : [word |-> x, steered |-> b] \in S <=> x # m
    BY DEF S
  <2>3. Without(q, m) = Only(q, S)
    BY DEF Without, S
  <2> HIDE DEF q
  <2> QED BY <2>1, <2>2, <2>3
<1> HIDE DEF n
<1>5. /\ r \in PaneCopies /\ r.session = copy[w].session /\ r.working = copy[w].working
      /\ draining[w].stage = "yes" => r.queue = n
      /\ draining[w].stage # "yes" => r.queue = q /\ r.held
  BY <1>1, <1>4 DEF PaneCopies, n
<1> HIDE DEF r
<1>6. /\ copy'[w] = r /\ draining'[w] = NoCall
      /\ \A v \in Window \ {w} : copy'[v] = copy[v] /\ draining'[v] = draining[v]
  BY <1>2 DEF CallTyped
<1>7. Elsewhere(w)
  BY <1>2, <1>6 DEF Elsewhere
<1>8. KnowsSame(w)
  BY <1>5, <1>6, CopyParts DEF KnowsSame
<1>9. Free(copy'[w]) => left'
  BY <1>2, <1>6
<1>10. r.held => ~Free(copy'[w])
  BY <1>6 DEF Free
<1>11. CASE draining[w].stage = "yes"
  BY <1>2, <1>3, <1>4, <1>5, <1>6, <1>7, <1>8, <1>9, <1>11 DEF Calling
<1>12. CASE draining[w].stage = "no"
  BY <1>2, <1>3, <1>5, <1>6, <1>7, <1>8, <1>9, <1>10, <1>12 DEF Calling
<1> QED BY <1>2, <1>11, <1>12

LEMMA SteerLandsDoes ==
    ASSUME SessionTyped, CallTyped, NEW w \in Window, NEW m \in Words, SteerLands(w, m)
    PROVE  /\ UNCHANGED <<adrift, moveVars, dropped, crossed, torn, draining, copy, left, written>>
           /\ Elsewhere(w) /\ Calling(w) /\ steers[w][m] = "going"
           /\ \A x \in Words \ {m} : steers'[w][x] = steers[w][x]
           /\ \/ Gets(m, "steer") /\ steers'[w][m] = "none"
              \/ ~alive /\ UNCHANGED sessionVars /\ steers'[w][m] = "no"
<1>1. /\ UNCHANGED <<adrift, moveVars, dropped, crossed, torn, draining, copy, left, written>>
      /\ steers[w][m] = "going"
  BY DEF SteerLands, ByCall
<1>2. Calling(w)
  BY <1>1 DEF Calling
<1>3. ASSUME NEW at \in {"none", "going", "no"}, steers' = [steers EXCEPT ![w][m] = at]
      PROVE  /\ steers'[w][m] = at /\ \A x \in Words \ {m} : steers'[w][x] = steers[w][x]
             /\ Elsewhere(w)
  <2>1. /\ steers'[w][m] = at /\ \A x \in Words \ {m} : steers'[w][x] = steers[w][x]
        /\ \A v \in Window \ {w} : steers'[v] = steers[v]
    BY <1>3, SteersTyped
  <2> QED BY <1>1, <2>1 DEF Elsewhere
<1>4. CASE Given(m, "steer") /\ steers' = [steers EXCEPT ![w][m] = "none"]
  <2>1. Gets(m, "steer")
    BY <1>4, GivenIs DEF Gets
  <2> QED BY <1>1, <1>2, <1>3, <1>4, <2>1
<1>5. CASE ~alive /\ steers' = [steers EXCEPT ![w][m] = "no"] /\ UNCHANGED sessionVars
  BY <1>1, <1>2, <1>3, <1>5
<1> QED BY <1>4, <1>5 DEF SteerLands

LEMMA SteerRefusedDoes ==
    ASSUME CallTyped, NEW w \in Window, NEW m \in Words, SteerRefused(w, m)
    PROVE  /\ UNCHANGED <<sessionVars, adrift, moveVars, dropped, crossed, torn, draining, left, written>>
           /\ Elsewhere(w) /\ KnowsSame(w) /\ Calling(w) /\ steers[w][m] = "no"
           /\ steers'[w][m] = "none" /\ \A x \in Words \ {m} : steers'[w][x] = steers[w][x]
           /\ copy'[w].held = copy[w].held
           /\ \A x \in Words :
                 /\ Plain(copy'[w].queue, x)
                       <=> IF x = m THEN InQueue(copy[w].queue, x) ELSE Plain(copy[w].queue, x)
                 /\ Marked(copy'[w].queue, x) <=> Marked(copy[w].queue, x) /\ x # m
<1> DEFINE q == copy[w].queue
           n == Mark(q, {m}, FALSE)
           r == [copy[w] EXCEPT !.queue = Mark(@, {m}, FALSE)]
<1>1. copy[w] \in PaneCopies /\ q \in Seq(Item)
  BY CopyTyped
<1>2. /\ UNCHANGED <<sessionVars, adrift, moveVars, dropped, crossed, torn, written>>
      /\ steers[w][m] = "no" /\ steers' = [steers EXCEPT ![w][m] = "none"] /\ Keeps(w, r)
  BY DEF SteerRefused, ByCall
<1>3. /\ n \in Seq(Item)
      /\ \A x \in Words :
            /\ Plain(n, x) <=> IF x \in {m} THEN ~FALSE /\ InQueue(q, x) ELSE Plain(q, x)
            /\ Marked(n, x) <=> IF x \in {m} THEN FALSE /\ InQueue(q, x) ELSE Marked(q, x)
  BY <1>1, MarkItems
<1>4. r = [copy[w] EXCEPT !.queue = n]
  OBVIOUS
<1> HIDE DEF n
<1>5. r \in PaneCopies /\ r.queue = n /\ r.session = copy[w].session /\ r.working = copy[w].working
      /\ r.held = copy[w].held
  BY <1>1, <1>3, <1>4 DEF PaneCopies
<1> HIDE DEF r
<1>6. copy'[w] = r /\ UNCHANGED <<draining, left>>
      /\ \A v \in Window \ {w} : copy'[v] = copy[v] /\ draining'[v] = draining[v]
  BY <1>2, DrainsElse DEF Keeps
<1>7. /\ steers'[w][m] = "none" /\ \A x \in Words \ {m} : steers'[w][x] = steers[w][x]
      /\ \A v \in Window \ {w} : steers'[v] = steers[v]
  BY <1>2, SteersTyped
<1>8. Elsewhere(w) /\ KnowsSame(w)
  BY <1>3, <1>5, <1>6, <1>7 DEF Elsewhere, KnowsSame
<1>9. Calling(w)
  BY <1>2 DEF Calling
<1>10. \A x \in Words :
          /\ Plain(copy'[w].queue, x) <=> IF x = m THEN InQueue(q, x) ELSE Plain(q, x)
          /\ Marked(copy'[w].queue, x) <=> Marked(q, x) /\ x # m
  BY <1>3, <1>5, <1>6
<1> QED BY <1>2, <1>5, <1>6, <1>7, <1>8, <1>9, <1>10

\* What becomes of a window's queue q by what it hears, e.
HeardAs(w, e, q) ==
    \/ /\ e.is \in {"started", "failed", "finished"} /\ copy'[w].queue = q
       /\ e.is = "started" => copy'[w].working
       /\ e.is = "failed" => ~Free(copy'[w])
       /\ e.is = "finished" => QueueIsElsewhere(w) \/ ~Free(copy'[w])
    \/ /\ e.is = "finished" /\ ~QueueIsElsewhere(w) /\ Tries(w)
       /\ \A x \in Words : /\ Plain(copy'[w].queue, x) <=> Plain(q, x)
                           /\ ~Marked(copy'[w].queue, x)
    \/ /\ e.is = "echo" /\ copy'[w].working = copy[w].working /\ copy'[w].held = copy[w].held
       /\ \A x \in Words : /\ Plain(copy'[w].queue, x) <=> Plain(q, x)
                           /\ Marked(copy'[w].queue, x) <=> Marked(q, x) /\ x # e.word
    \/ /\ e.is = "exit" /\ ~Free(copy'[w])
       /\ \A x \in Words : /\ Plain(copy'[w].queue, x) <=> InQueue(q, x)
                           /\ ~Marked(copy'[w].queue, x)

\* A window hears one thing of the session.
LEMMA HearDoes ==
    ASSUME SessionTyped, CallTyped, NEW w \in Window, Hear(w)
    PROVE  /\ UNCHANGED <<opening, alive, running, taken, adrift, moveVars, crossed, torn, steers,
                          written>>
           /\ coming[w] # <<>> /\ coming'[w] = Tail(coming[w])
           /\ \A v \in Window \ {w} : coming'[v] = coming[v]
           /\ dropped' = IF Head(coming[w]).is = "finished"
                         THEN dropped \cup {m \in Words : steers[w][m] # "none"} ELSE dropped
           /\ Elsewhere(w) /\ copy'[w].session = copy[w].session /\ copy'[w].queue \in Seq(Item)
           /\ \/ UNCHANGED <<draining, left>>
              \/ ~QueueIsElsewhere(w) /\ Tries(w) /\ Head(coming[w]).is = "finished"
           /\ HeardAs(w, Head(coming[w]), copy[w].queue)
<1> DEFINE e == Head(coming[w])
           p == copy[w]
           q == copy[w].queue
<1>1. p \in PaneCopies /\ q \in Seq(Item)
  BY CopyTyped
<1>2. /\ UNCHANGED <<opening, alive, running, taken, adrift, moveVars, crossed, torn, steers, written>>
      /\ coming[w] # <<>> /\ coming' = [coming EXCEPT ![w] = Tail(@)]
      /\ dropped' = IF e.is = "finished" THEN dropped \cup {m \in Words : steers[w][m] # "none"}
                    ELSE dropped
  BY DEF Hear
<1>3. coming'[w] = Tail(coming[w]) /\ \A v \in Window \ {w} : coming'[v] = coming[v]
  BY <1>2 DEF SessionTyped
<1> SUFFICES /\ Elsewhere(w) /\ copy'[w].session = copy[w].session /\ copy'[w].queue \in Seq(Item)
             /\ \/ UNCHANGED <<draining, left>>
                \/ ~QueueIsElsewhere(w) /\ Tries(w) /\ e.is = "finished"
             /\ HeardAs(w, e, q)
  BY <1>2, <1>3
<1> HIDE DEF e
<1>4. ASSUME NEW r \in PaneCopies, Keeps(w, r)
      PROVE  copy'[w] = r /\ Elsewhere(w) /\ UNCHANGED <<draining, left>>
  BY <1>2, <1>4, DrainsElse DEF Keeps, Elsewhere
<1>5. ASSUME NEW r \in PaneCopies, Drains(w, r)
      PROVE  copy'[w] = r /\ Elsewhere(w) /\ Tries(w)
  BY <1>2, <1>5, DrainsDoes DEF Elsewhere
<1>6. CASE e.is = "started" /\ Keeps(w, [p EXCEPT !.working = TRUE])
  <2> DEFINE r == [p EXCEPT !.working = TRUE]
  <2>1. r \in PaneCopies /\ r.queue = q /\ r.working /\ r.session = p.session
    BY <1>1 DEF PaneCopies
  <2>2. copy'[w] = r /\ Elsewhere(w) /\ UNCHANGED <<draining, left>>
    BY <1>4, <1>6, <2>1
  <2> HIDE DEF r
  <2> QED BY <1>1, <1>6, <2>1, <2>2 DEF HeardAs
<1>7. CASE e.is = "finished" /\ ~(q # <<>> /\ ~QueueIsElsewhere(w)) /\ Keeps(w, [p EXCEPT !.working = FALSE])
  <2> DEFINE r == [p EXCEPT !.working = FALSE]
  <2>1. r \in PaneCopies /\ r.queue = q /\ r.session = p.session
    BY <1>1 DEF PaneCopies
  <2>2. copy'[w] = r /\ Elsewhere(w) /\ UNCHANGED <<draining, left>>
    BY <1>4, <1>7, <2>1
  <2> HIDE DEF r
  <2>3. q = <<>> => ~Free(r)
    <3>1. ASSUME q = <<>>, Free(r) PROVE FALSE
      <4>1. Waiting(q) # <<>>
        BY <2>1, <3>1 DEF Free
      <4>2. \E m \in Words : Plain(q, m)
        BY <1>1, <4>1, WaitingItems
      <4> QED BY <3>1, <4>2, EmptyItems DEF InQueue
    <3> QED BY <3>1
  <2> QED BY <1>1, <1>7, <2>1, <2>2, <2>3 DEF HeardAs
<1>8. CASE /\ e.is = "finished" /\ ~QueueIsElsewhere(w)
           /\ Drains(w, [p EXCEPT !.working = FALSE, !.queue = Waiting(@)])
  <2> DEFINE n == Waiting(q)
             r == [p EXCEPT !.working = FALSE, !.queue = Waiting(@)]
  <2>1. n \in Seq(Item) /\ \A x \in Words : (Plain(n, x) <=> Plain(q, x)) /\ ~Marked(n, x)
    BY <1>1, WaitingItems
  <2>2. r = [p EXCEPT !.working = FALSE, !.queue = n]
    OBVIOUS
  <2> HIDE DEF n
  <2>3. r \in PaneCopies /\ r.queue = n /\ r.session = p.session
    BY <1>1, <2>1, <2>2 DEF PaneCopies
  <2>4. copy'[w] = r /\ Elsewhere(w) /\ Tries(w)
    BY <1>5, <1>8, <2>3
  <2> HIDE DEF r
  <2> QED BY <1>8, <2>1, <2>3, <2>4 DEF HeardAs
<1>9. CASE e.is = "failed" /\ Keeps(w, Held([p EXCEPT !.working = FALSE]))
  <2> DEFINE h == [p EXCEPT !.working = FALSE]
  <2>1. h \in PaneCopies /\ h.queue = q /\ h.session = p.session
    BY <1>1 DEF PaneCopies
  <2> HIDE DEF h
  <2>2. Held(h) \in PaneCopies /\ ~Free(Held(h)) /\ Held(h).queue = q /\ Held(h).session = p.session
    BY <2>1, HeldFree, HeldTyped
  <2>3. copy'[w] = Held(h) /\ Elsewhere(w) /\ UNCHANGED <<draining, left>>
    BY <1>4, <1>9, <2>2 DEF h
  <2> QED BY <1>1, <1>9, <2>2, <2>3 DEF HeardAs
<1>10. CASE e.is = "echo" /\ Keeps(w, [p EXCEPT !.queue = Echoed(@, e.word)])
  <2> DEFINE n == Echoed(q, e.word)
             r == [p EXCEPT !.queue = Echoed(@, e.word)]
  <2>1. n \in Seq(Item)
        /\ \A x \in Words : (Plain(n, x) <=> Plain(q, x)) /\ (Marked(n, x) <=> Marked(q, x) /\ x # e.word)
    <3> DEFINE m == e.word
               S == Item \ {[word |-> m, steered |-> TRUE]}
    <3>0. Echoed(q, e.word) = Only(q, S)
      BY DEF Echoed
    <3> HIDE DEF S, m
    <3>1. /\ Only(q, S) \in Seq(Item)
          /\ \A x \in Words :
                /\ Plain(Only(q, S), x) <=> Plain(q, x) /\ [word |-> x, steered |-> FALSE] \in S
                /\ Marked(Only(q, S), x) <=> Marked(q, x) /\ [word |-> x, steered |-> TRUE] \in S
      BY <1>1, OnlyItems
    <3>2. \A x \in Words : /\ [word |-> x, steered |-> FALSE] \in S
                           /\ [word |-> x, steered |-> TRUE] \in S <=> x # m
      BY DEF S, Item
    <3> HIDE DEF q
    <3> QED BY <3>0, <3>1, <3>2 DEF m
  <2>2. r = [p EXCEPT !.queue = n]
    OBVIOUS
  <2> HIDE DEF n
  <2>3. r \in PaneCopies /\ r.queue = n /\ r.session = p.session /\ r.working = p.working
        /\ r.held = p.held
    BY <1>1, <2>1, <2>2 DEF PaneCopies
  <2>4. copy'[w] = r /\ Elsewhere(w) /\ UNCHANGED <<draining, left>>
    BY <1>4, <1>10, <2>3
  <2> HIDE DEF r
  <2> QED BY <1>10, <2>1, <2>3, <2>4 DEF HeardAs
<1>11. CASE /\ e.is = "exit"
            /\ Keeps(w, Held([p EXCEPT !.working = FALSE, !.ended = TRUE, !.queue = Mark(@, Words, FALSE)]))
  <2> DEFINE n == Mark(q, Words, FALSE)
             h == [p EXCEPT !.working = FALSE, !.ended = TRUE, !.queue = Mark(@, Words, FALSE)]
  <2>1. /\ n \in Seq(Item)
        /\ \A x \in Words :
              /\ Plain(n, x) <=> IF x \in Words THEN ~FALSE /\ InQueue(q, x) ELSE Plain(q, x)
              /\ Marked(n, x) <=> IF x \in Words THEN FALSE /\ InQueue(q, x) ELSE Marked(q, x)
    BY <1>1, MarkItems
  <2>2. h = [p EXCEPT !.working = FALSE, !.ended = TRUE, !.queue = n]
    OBVIOUS
  <2> HIDE DEF n
  <2>3. h \in PaneCopies /\ h.queue = n /\ h.session = p.session
    BY <1>1, <2>1, <2>2 DEF PaneCopies
  <2> HIDE DEF h
  <2>4. Held(h) \in PaneCopies /\ ~Free(Held(h)) /\ Held(h).queue = n /\ Held(h).session = p.session
    BY <2>3, HeldFree, HeldTyped
  <2>5. copy'[w] = Held(h) /\ Elsewhere(w) /\ UNCHANGED <<draining, left>>
    BY <1>4, <1>11, <2>4 DEF h
  <2>6. \A x \in Words : (Plain(n, x) <=> InQueue(q, x)) /\ ~Marked(n, x)
    BY <2>1
  <2> QED BY <1>11, <2>1, <2>4, <2>5, <2>6 DEF HeardAs
<1> QED BY <1>6, <1>7, <1>8, <1>9, <1>10, <1>11 DEF Hear, e

\* The main window's record takes what it is told of the pane.
LEMMA TakeDoes ==
    ASSUME SessionTyped, CallTyped, NEW s \in State, Take(s)
    PROVE  /\ copy'["main"].queue = s.queue /\ copy'["main"].held = s.held
           /\ copy'["main"].session = s.session
           /\ copy'["own"] = copy["own"] /\ coming'["own"] = coming["own"]
           /\ \/ coming'["main"] = coming["main"] /\ copy'["main"].session = copy["main"].session
              \/ coming'["main"] = <<>>
<1>1. copy["main"] \in PaneCopies
  BY CopyTyped DEF Window
<1>2. copy'["main"] = Synced(s) /\ copy'["own"] = copy["own"] /\ coming'["own"] = coming["own"]
      /\ coming'["main"] = IF s.session = copy["main"].session THEN coming["main"] ELSE <<>>
  BY DEF Take, CallTyped, SessionTyped, Window
<1>3. Synced(s).queue = s.queue /\ Synced(s).held = s.held /\ Synced(s).session = s.session
  <2> DEFINE p == [copy["main"] EXCEPT !.queue = s.queue, !.held = s.held]
  <2>1. p \in [session : BOOLEAN, queue : {s.queue}, held : {s.held}, working : BOOLEAN,
               ended : BOOLEAN]
    BY <1>1 DEF PaneCopies
  <2>2. s.session \in BOOLEAN
    BY DEF State
  <2>3. Synced(s) = IF s.session = p.session THEN p
                    ELSE IF s.session THEN Attached(p)
                    ELSE [p EXCEPT !.session = FALSE, !.working = FALSE, !.ended = FALSE]
    BY DEF Synced
  <2> HIDE DEF p
  <2>4. p.queue = s.queue /\ p.held = s.held
    BY <2>1
  <2>5. CASE s.session = p.session
    BY <2>3, <2>4, <2>5
  <2>6. CASE s.session # p.session /\ s.session
    <3>1. Attached(p).queue = p.queue /\ Attached(p).held = p.held /\ Attached(p).session = TRUE
      BY <2>1 DEF Attached
    <3> QED BY <2>2, <2>3, <2>4, <2>6, <3>1
  <2>7. CASE s.session # p.session /\ ~s.session
    <3> DEFINE z == [p EXCEPT !.session = FALSE, !.working = FALSE, !.ended = FALSE]
    <3>1. z.queue = p.queue /\ z.held = p.held /\ z.session = FALSE
      BY <2>1
    <3>2. Synced(s) = z
      BY <2>3, <2>7
    <3> HIDE DEF z
    <3> QED BY <2>2, <2>4, <2>7, <3>1, <3>2
  <2> QED BY <2>5, <2>6, <2>7
<1> QED BY <1>2, <1>3

\* A move of the pane, and what comes of one.
Moves ==
    \/ \E i \in Pop : PopOut(i) \/ Insert(i) \/ Build(i) \/ PopFails(i)
    \/ Adopt \/ Lost \/ Wire \/ Reports \/ ReportLands \/ CloseRequested \/ CloseUnbuilt
    \/ Destroyed \/ HearWindow

\* What the windows have still to hear survives a move or is gone with the pane.
LEMMA MovesLeave ==
    ASSUME PopTyped, Moves
    PROVE  /\ UNCHANGED <<opening, alive, running, taken, written, dropped>>
           /\ \A w \in Window :
                 /\ \/ coming'[w] = coming[w] /\ copy'[w].session = copy[w].session
                    \/ coming'[w] = <<>>
                 /\ draining'[w] = draining[w] \/ draining'[w] = NoCall
                 /\ \A m \in Words : steers'[w][m] = steers[w][m] \/ steers'[w][m] = "none"
<1>0. SessionTyped /\ CallTyped /\ MoveTyped /\ FrontInv
  BY DEF PopTyped
<1>1. UNCHANGED <<opening, alive, running, taken, written, dropped>>
  BY DEF Moves, PopOut, Insert, Build, PopFails, Adopt, Lost, Wire, Reports, ReportLands,
         CloseRequested, CloseUnbuilt, Destroyed, HearWindow, BySession, ByMove
<1>2. ASSUME UNCHANGED <<coming, copy, callVars>> PROVE
      \A w \in Window :
         /\ \/ coming'[w] = coming[w] /\ copy'[w].session = copy[w].session
            \/ coming'[w] = <<>>
         /\ draining'[w] = draining[w] \/ draining'[w] = NoCall
         /\ \A m \in Words : steers'[w][m] = steers[w][m] \/ steers'[w][m] = "none"
  BY <1>2 DEF callVars
<1>3. ASSUME NEW s \in State, Take(s), UNCHANGED callVars PROVE
      \A w \in Window :
         /\ \/ coming'[w] = coming[w] /\ copy'[w].session = copy[w].session
            \/ coming'[w] = <<>>
         /\ draining'[w] = draining[w] \/ draining'[w] = NoCall
         /\ \A m \in Words : steers'[w][m] = steers[w][m] \/ steers'[w][m] = "none"
  BY <1>0, <1>3, TakeDoes DEF callVars, Window
<1>4. ASSUME NEW i \in Pop, PopOut(i) \/ Insert(i) \/ Build(i)
      PROVE  UNCHANGED <<coming, copy, callVars>>
  BY <1>4 DEF PopOut, Insert, Build, BySession
<1>5. ASSUME Lost \/ Wire \/ Reports \/ ReportLands \/ CloseRequested \/ CloseUnbuilt
      PROVE  UNCHANGED <<coming, copy, callVars>>
  BY <1>5 DEF Lost, Wire, Reports, ReportLands, CloseRequested, CloseUnbuilt, BySession
<1>6. ASSUME NEW i \in Pop, PopFails(i)
      PROVE  /\ UNCHANGED callVars
             /\ UNCHANGED <<coming, copy>> \/ \E s \in State : Take(s)
  <2>1. Goes(i) /\ popped[i].state \in State
    BY <1>0, <1>6 DEF PopFails, Goes, MoveTyped
  <2> QED BY <1>6, <2>1 DEF PopFails, Returned
<1>7. ASSUME HearWindow
      PROVE  /\ UNCHANGED callVars
             /\ UNCHANGED <<coming, copy>> \/ \E s \in State : Take(s)
  <2>1. Head(inbox).state \in State
    BY <1>0, <1>7, InboxShrinks DEF HearWindow
  <2> QED BY <1>7, <2>1 DEF HearWindow, Returned
<1>8. ASSUME Adopt PROVE
      \A w \in Window :
         /\ \/ coming'[w] = coming[w] /\ copy'[w].session = copy[w].session
            \/ coming'[w] = <<>>
         /\ draining'[w] = draining[w] \/ draining'[w] = NoCall
         /\ \A m \in Words : steers'[w][m] = steers[w][m] \/ steers'[w][m] = "none"
  <2>1. UNCHANGED <<coming, callVars>> /\ copy'["main"] = copy["main"] /\ front = "starting"
    BY <1>0, <1>8 DEF Adopt, BySession, CallTyped, Window
  <2>2. coming["own"] = <<>>
    BY <1>0, <2>1 DEF FrontInv, Runs
  <2> QED BY <2>1, <2>2 DEF callVars, Window
<1>9. ASSUME Destroyed PROVE
      \A w \in Window :
         /\ \/ coming'[w] = coming[w] /\ copy'[w].session = copy[w].session
            \/ coming'[w] = <<>>
         /\ draining'[w] = draining[w] \/ draining'[w] = NoCall
         /\ \A m \in Words : steers'[w][m] = steers[w][m] \/ steers'[w][m] = "none"
  <2>1. /\ copy' = [copy EXCEPT !["own"] = Blank]
        /\ coming' = [coming EXCEPT !["own"] = <<>>]
        /\ draining' = [draining EXCEPT !["own"] = NoCall]
        /\ steers' = [steers EXCEPT !["own"] = [m \in Words |-> "none"]]
    BY <1>9 DEF Destroyed
  <2>2. /\ copy'["main"] = copy["main"] /\ coming'["main"] = coming["main"]
        /\ draining'["main"] = draining["main"] /\ steers'["main"] = steers["main"]
        /\ coming'["own"] = <<>> /\ draining'["own"] = NoCall
        /\ steers'["own"] = [m \in Words |-> "none"]
    BY <1>0, <2>1 DEF CallTyped, SessionTyped, Window
  <2> QED BY <2>2 DEF Window
<1>10. CASE (\E i \in Pop : PopOut(i) \/ Insert(i) \/ Build(i))
            \/ Lost \/ Wire \/ Reports \/ ReportLands \/ CloseRequested \/ CloseUnbuilt
  BY <1>1, <1>2, <1>4, <1>5, <1>10
<1>11. CASE HearWindow \/ \E i \in Pop : PopFails(i)
  BY <1>1, <1>2, <1>3, <1>6, <1>7, <1>11
<1>12. CASE Adopt \/ Destroyed
  BY <1>1, <1>8, <1>9, <1>12
<1> QED BY <1>10, <1>11, <1>12 DEF Moves

\* The steps again, by what they are.
LEMMA PopOutKinds ==
    ASSUME [PopOutNext]_popOutVars
    PROVE  \/ TurnBegins \/ TurnEnds("finished") \/ TurnEnds("failed") \/ Exits \/ ClaimOrClose
           \/ \E w \in Window : Interrupt(w) \/ Awaited(w) \/ SendLands(w) \/ SendReplies(w) \/ Hear(w)
           \/ \E w \in Window, m \in Words :
                 \/ Enqueue(w, m) \/ SteerQueued(w, m) \/ RemoveQueued(w, m)
                 \/ SteerLands(w, m) \/ SteerRefused(w, m)
           \/ \E c \in adrift : AdriftLands(c)
           \/ Moves
           \/ UNCHANGED popOutVars
  BY PopOutSteps DEF Moves

-----------------------------------------------------------------------------
(* A window that has no session hears nothing.                             *)

MuteInv == \A w \in Window : ~copy[w].session => coming[w] = <<>>

\* Says keeps it so.
LEMMA MuteSays ==
    ASSUME SessionTyped, CallTyped, MuteInv, NEW events \in Seq(Signals), Says(events), UNCHANGED copy
    PROVE  MuteInv'
  BY SaysTyped DEF MuteInv

LEMMA MuteGets ==
    ASSUME SessionTyped, CallTyped, MuteInv, NEW m \in Words, NEW how, Given(m, how), UNCHANGED copy
    PROVE  MuteInv'
  BY GivenIs DEF MuteInv

LEMMA MuteActs ==
    ASSUME MuteInv, NEW w \in Window, Elsewhere(w), copy'[w].session = copy[w].session,
           UNCHANGED coming \/ (coming[w] # <<>> /\ \A v \in Window \ {w} : coming'[v] = coming[v])
    PROVE  MuteInv'
  BY DEF MuteInv, Elsewhere

LEMMA MuteInit == PopOutInit => MuteInv
  BY DEF PopOutInit, MuteInv

LEMMA MuteStep == ASSUME PopTyped, MuteInv, [PopOutNext]_popOutVars PROVE MuteInv'
<1>0. SessionTyped /\ CallTyped
  BY DEF PopTyped
<1>1. CASE TurnBegins \/ TurnEnds("finished") \/ TurnEnds("failed") \/ Exits
  <2>1. UNCHANGED copy
    BY <1>1 DEF TurnBegins, TurnEnds, Exits, Alone
  <2>2. \E kind \in {"started", "finished", "failed", "exit"} : Says(<<Event(kind)>>)
    BY <1>1 DEF TurnBegins, TurnEnds, Exits
  <2> QED BY <1>0, <2>1, <2>2, MuteSays, SignalsAre
<1>2. CASE ClaimOrClose
  <2>1. UNCHANGED coming /\ copy' = [copy EXCEPT !["main"] = Attached(@)]
    BY <1>2 DEF ClaimOrClose
  <2>2. copy'["main"] = Attached(copy["main"]) /\ copy'["own"] = copy["own"]
    BY <1>0, <2>1 DEF CallTyped, Window
  <2>3. Attached(copy["main"]).session
    <3>1. copy["main"] \in PaneCopies
      BY <1>0, CopyTyped DEF Window
    <3> QED BY <3>1 DEF Attached, PaneCopies
  <2> QED BY <2>1, <2>2, <2>3 DEF MuteInv, Window
<1>3. CASE \E w \in Window : Interrupt(w) \/ Awaited(w) \/ SendLands(w) \/ SendReplies(w) \/ Hear(w)
  <2>1. PICK w \in Window : Interrupt(w) \/ Awaited(w) \/ SendLands(w) \/ SendReplies(w) \/ Hear(w)
    BY <1>3
  <2>2. CASE Interrupt(w)
    BY <1>0, <2>2, InterruptDoes, MuteActs DEF KnowsSame, sessionVars
  <2>3. CASE Awaited(w)
    BY <1>0, <2>3, AwaitedDoes, MuteActs DEF sessionVars
  <2>4. CASE SendLands(w)
    <3>1. UNCHANGED copy /\ Elsewhere(w) /\ draining[w].word \in Words
      BY <1>0, <2>4, SendLandsDoes
    <3>2. Given(draining[w].word, "send") \/ UNCHANGED coming
      BY <2>4 DEF SendLands, sessionVars
    <3> QED BY <1>0, <3>1, <3>2, MuteGets, MuteActs
  <2>5. CASE SendReplies(w)
    BY <1>0, <2>5, SendRepliesDoes, MuteActs DEF KnowsSame, sessionVars
  <2>6. CASE Hear(w)
    BY <1>0, <2>6, HearDoes, MuteActs
  <2> QED BY <2>1, <2>2, <2>3, <2>4, <2>5, <2>6
<1>4. CASE \E w \in Window, m \in Words :
              \/ Enqueue(w, m) \/ SteerQueued(w, m) \/ RemoveQueued(w, m)
              \/ SteerLands(w, m) \/ SteerRefused(w, m)
  <2>1. PICK w \in Window, m \in Words :
              \/ Enqueue(w, m) \/ SteerQueued(w, m) \/ RemoveQueued(w, m)
              \/ SteerLands(w, m) \/ SteerRefused(w, m)
    BY <1>4
  <2>2. CASE Enqueue(w, m)
    BY <1>0, <2>2, EnqueueDoes, MuteActs DEF KnowsSame, sessionVars
  <2>3. CASE SteerQueued(w, m)
    BY <1>0, <2>3, SteerDoes, MuteActs DEF KnowsSame, sessionVars
  <2>4. CASE RemoveQueued(w, m)
    BY <1>0, <2>4, RemoveDoes, MuteActs DEF KnowsSame, sessionVars
  <2>5. CASE SteerLands(w, m)
    <3>1. UNCHANGED copy /\ Elsewhere(w)
      BY <1>0, <2>5, SteerLandsDoes
    <3>2. Given(m, "steer") \/ UNCHANGED coming
      BY <2>5 DEF SteerLands, sessionVars
    <3> QED BY <1>0, <3>1, <3>2, MuteGets, MuteActs
  <2>6. CASE SteerRefused(w, m)
    BY <1>0, <2>6, SteerRefusedDoes, MuteActs DEF KnowsSame, sessionVars
  <2> QED BY <2>1, <2>2, <2>3, <2>4, <2>5, <2>6
<1>5. ASSUME NEW c \in adrift, AdriftLands(c) PROVE MuteInv'
  <2>1. UNCHANGED copy /\ (Given(c.word, c.how) \/ UNCHANGED coming)
    BY <1>5 DEF AdriftLands, sessionVars
  <2>2. c.word \in Words
    BY <1>0 DEF CallTyped
  <2>3. CASE Given(c.word, c.how)
    BY <1>0, <2>1, <2>2, <2>3, MuteGets
  <2>4. CASE UNCHANGED coming
    BY <2>1, <2>4 DEF MuteInv
  <2> QED BY <2>1, <2>3, <2>4
<1>6. CASE Moves
  BY <1>6, MovesLeave DEF MuteInv
<1>7. CASE UNCHANGED popOutVars
  BY <1>7 DEF MuteInv, popOutVars, sessionVars
<1> QED BY <1>1, <1>2, <1>3, <1>4, <1>5, <1>6, <1>7, PopOutKinds

LEMMA HeardInit == PopOutInit => HeardInv
<1> SUFFICES ASSUME PopOutInit PROVE HeardInv
  OBVIOUS
<1>1. /\ \A w \in Window : coming[w] = <<>> /\ draining[w].stage = "none"
      /\ \A w \in Window, m \in Words : steers[w][m] = "none"
  BY DEF PopOutInit, NoCall
<1> QED BY <1>1 DEF HeardInv

\* The session's own steps.
LEMMA HeardSays ==
    ASSUME PopTyped, HeardInv, MuteInv,
           TurnBegins \/ TurnEnds("finished") \/ TurnEnds("failed") \/ Exits
    PROVE  HeardInv'
<1>0. SessionTyped /\ CallTyped
  BY DEF PopTyped
<1>1. PICK kind \in {"started", "finished", "failed", "exit"} :
         /\ Says(<<Event(kind)>>) /\ alive
         /\ \/ kind # "exit" /\ alive' = alive
            \/ kind = "exit" /\ alive' = FALSE
  BY DEF TurnBegins, TurnEnds, Exits
<1> DEFINE events == <<Event(kind)>>
<1>2. /\ events \in Seq(Signals) /\ Len(events) = 1 /\ DOMAIN events = 1 .. 1
      /\ events # <<>> /\ events[1].is = kind
  BY SignalsAre DEF Event
<1>3. UNCHANGED <<copy, callVars, taken>>
  BY DEF TurnBegins, TurnEnds, Exits, Alone
<1> HIDE DEF events
<1>4. \A w \in Window : coming'[w] = IF copy[w].session THEN coming[w] \o events ELSE coming[w]
  BY <1>0, <1>1, <1>2, SaysTyped DEF events
<1>5. ASSUME NEW w \in Window, coming'[w] = coming[w] PROVE coming[w] = <<>>
  <2>1. CASE copy[w].session
    <3>1. coming[w] \in Seq(Signals)
      BY <1>0 DEF SessionTyped
    <3>2. Len(coming[w] \o events) = Len(coming[w]) + 1 /\ Len(coming[w]) \in Nat
      <4>1. \A s, t \in Seq(Signals) : Len(s \o t) = Len(s) + Len(t) /\ Len(s) \in Nat
        OBVIOUS
      <4> QED BY <1>2, <3>1, <4>1
    <3>3. coming[w] \o events = coming[w]
      BY <1>4, <1>5, <2>1
    <3> QED BY <3>2, <3>3
  <2>2. CASE ~copy[w].session
    BY <2>2 DEF MuteInv
  <2> QED BY <2>1, <2>2
<1>6. \A m \in Words : taken'[m] >= taken[m] /\ taken'[m] \in 0 .. 2
  BY <1>0, <1>3 DEF SessionTyped
<1>7. \A k \in DOMAIN events : events[k].is = kind
  BY <1>2
<1>8. \A w \in Window, m \in Words : steers'[w][m] # "no"
  BY <1>1, <1>3 DEF HeardInv, callVars
<1>9. \A w \in Window : draining'[w].stage = "yes" => taken'[draining'[w].word] >= 1
  BY <1>3 DEF HeardInv, callVars
<1>10. \A w \in Window : coming'[w] = coming[w] \/ coming'[w] = coming[w] \o events
  BY <1>4
<1>11. \A k \in DOMAIN events : events[k].is = "echo" => taken'[events[k].word] >= 1
  BY <1>7
<1>12. \/ alive' /\ \A k \in DOMAIN events : events[k].is # "exit"
       \/ /\ ~alive' /\ events # <<>> /\ events[Len(events)].is = "exit"
          /\ \A w \in Window : coming'[w] = coming[w] => coming[w] = <<>>
  BY <1>1, <1>2, <1>5, <1>7
<1> QED BY <1>0, <1>1, <1>2, <1>6, <1>8, <1>9, <1>10, <1>11, <1>12, HeardMore

\* A call reaches the session.
LEMMA HeardGets ==
    ASSUME PopTyped, HeardInv, NEW m \in Words, NEW how, Given(m, how),
           \A w \in Window, x \in Words : steers'[w][x] = steers[w][x] \/ steers'[w][x] = "none",
           \A w \in Window : \/ draining'[w] = draining[w]
                             \/ draining'[w].word = m
    PROVE  HeardInv'
<1>0. SessionTyped /\ CallTyped
  BY DEF PopTyped
<1> DEFINE events == Saying(m, how)
<1>1. /\ events \in Seq(Signals)
      /\ \A k \in DOMAIN events : events[k] \in {Event("started"), Echo(m)}
  BY SayingIs
<1> HIDE DEF events
<1>2. /\ alive /\ alive' = alive
      /\ taken' \in [Words -> 0 .. 2]
      /\ taken'[m] = (IF taken[m] < 2 THEN taken[m] + 1 ELSE taken[m])
      /\ \A x \in Words \ {m} : taken'[x] = taken[x]
      /\ \A w \in Window : coming'[w] = IF copy[w].session THEN coming[w] \o events ELSE coming[w]
  BY <1>0, GivenIs DEF events
<1>3. \A x \in Words : taken[x] \in 0 .. 2 /\ taken'[x] \in 0 .. 2
  BY <1>0, <1>2 DEF SessionTyped
<1>4. \A x \in Words : taken'[x] >= taken[x]
  <2>1. ASSUME NEW x \in Words PROVE taken'[x] >= taken[x]
    <3>1. CASE x = m
      BY <1>2, <1>3, <3>1
    <3>2. CASE x # m
      BY <1>2, <1>3, <3>2
    <3> QED BY <3>1, <3>2
  <2> QED BY <2>1
<1>5. taken'[m] >= 1
  BY <1>2, <1>3
<1>6. \A k \in DOMAIN events : /\ events[k].is # "exit"
                               /\ events[k].is = "echo" => taken'[events[k].word] >= 1
  <2>1. ASSUME NEW k \in DOMAIN events
        PROVE  /\ events[k].is # "exit"
               /\ events[k].is = "echo" => taken'[events[k].word] >= 1
    <3>1. CASE events[k] = Event("started")
      BY <3>1 DEF Event
    <3>2. CASE events[k] = Echo(m)
      BY <1>5, <3>2 DEF Echo
    <3> QED BY <1>1, <3>1, <3>2
  <2> QED BY <2>1
<1>7. \A w \in Window, x \in Words : steers'[w][x] # "no"
  BY <1>2 DEF HeardInv
<1>8. ASSUME NEW w \in Window, draining'[w].stage = "yes" PROVE taken'[draining'[w].word] >= 1
  <2>1. CASE draining'[w].word = m
    BY <1>5, <2>1
  <2>2. CASE draining'[w] = draining[w]
    <3>1. draining[w].word \in Words
      BY <1>0, <1>8, <2>2, DrainTyped
    <3>2. taken[draining[w].word] >= 1
      BY <1>8, <2>2 DEF HeardInv
    <3> QED BY <1>3, <1>4, <2>2, <3>1, <3>2
  <2> QED BY <2>1, <2>2
<1>9. \A w \in Window : coming'[w] = coming[w] \/ coming'[w] = coming[w] \o events
  BY <1>2
<1> QED BY <1>0, <1>1, <1>2, <1>3, <1>4, <1>6, <1>7, <1>8, <1>9, HeardMore

\* Any other step.
LEMMA HeardActs ==
    ASSUME PopTyped, HeardInv, UNCHANGED <<alive, taken>>, NEW w \in Window, Elsewhere(w),
           UNCHANGED coming \/ (/\ coming[w] # <<>> /\ coming'[w] = Tail(coming[w])
                                /\ \A v \in Window \ {w} : coming'[v] = coming[v]),
           draining'[w].stage = "yes" => draining'[w] = draining[w],
           \A m \in Words : steers'[w][m] = "no" => steers[w][m] = "no" \/ ~alive
    PROVE  HeardInv'
<1>0. SessionTyped
  BY DEF PopTyped
<1>1. ASSUME NEW v \in Window PROVE Rest(coming[v], coming'[v])
  <2>1. coming[v] \in Seq(Signals)
    BY <1>0 DEF SessionTyped
  <2> QED BY <2>1, RestsOf
<1>2. \A v \in Window : draining'[v].stage = "yes" => draining'[v] = draining[v]
  BY DEF Elsewhere
<1>3. \A v \in Window, m \in Words : steers'[v][m] = "no" => steers[v][m] = "no" \/ ~alive
  BY DEF Elsewhere
<1> QED BY <1>1, <1>2, <1>3, HeardLess

LEMMA TriesYes ==
    ASSUME NEW w \in Window, Tries(w) \/ draining' = draining
    PROVE  draining'[w].stage = "yes" => draining'[w] = draining[w]
  BY DEF Tries

LEMMA HeardStep == ASSUME PopTyped, HeardInv, MuteInv, [PopOutNext]_popOutVars PROVE HeardInv'
<1>0. SessionTyped /\ CallTyped
  BY DEF PopTyped
<1>1. CASE TurnBegins \/ TurnEnds("finished") \/ TurnEnds("failed") \/ Exits
  BY <1>1, HeardSays
<1>2. CASE ClaimOrClose
  BY <1>2 DEF ClaimOrClose, callVars, HeardInv
<1>3. CASE \E w \in Window : Interrupt(w) \/ Awaited(w) \/ SendLands(w) \/ SendReplies(w) \/ Hear(w)
  <2>1. PICK w \in Window : Interrupt(w) \/ Awaited(w) \/ SendLands(w) \/ SendReplies(w) \/ Hear(w)
    BY <1>3
  <2>2. CASE Interrupt(w)
    BY <1>0, <2>2, InterruptDoes, HeardActs DEF sessionVars
  <2>3. CASE Awaited(w)
    BY <1>0, <2>3, AwaitedDoes, HeardActs DEF sessionVars
  <2>4. CASE SendLands(w)
    <3>1. /\ UNCHANGED steers /\ Elsewhere(w) /\ draining[w].word \in Words
          /\ \/ draining'[w] = [word |-> draining[w].word, stage |-> "yes"]
             \/ draining'[w] = [word |-> draining[w].word, stage |-> "no"]
      BY <1>0, <2>4, SendLandsDoes
    <3>2. draining'[w].word = draining[w].word
      BY <3>1
    <3>3. CASE Given(draining[w].word, "send")
      BY <3>1, <3>2, <3>3, HeardGets DEF Elsewhere
    <3>4. CASE ~Given(draining[w].word, "send")
      <4>1. UNCHANGED <<coming, alive, taken>> /\ draining'[w].stage = "no"
        <5>1. /\ ~alive /\ UNCHANGED sessionVars
              /\ draining'[w] = [word |-> draining[w].word, stage |-> "no"]
          BY <1>0, <2>4, <3>4, SendLandsDoes DEF Gets
        <5>2. draining'[w].stage = "no"
          BY <5>1
        <5> QED BY <5>1, <5>2 DEF sessionVars
      <4> QED BY <3>1, <4>1, HeardActs
    <3> QED BY <3>3, <3>4
  <2>5. CASE SendReplies(w)
    <3>1. UNCHANGED <<coming, alive, taken, steers>> /\ Elsewhere(w) /\ draining'[w].stage = "none"
      BY <1>0, <2>5, SendRepliesDoes DEF sessionVars, NoCall
    <3> QED BY <3>1, HeardActs
  <2>6. CASE Hear(w)
    <3>1. /\ UNCHANGED <<alive, taken, steers>> /\ Elsewhere(w)
          /\ coming[w] # <<>> /\ coming'[w] = Tail(coming[w])
          /\ \A v \in Window \ {w} : coming'[v] = coming[v]
          /\ draining' = draining \/ Tries(w)
      BY <1>0, <2>6, HearDoes
    <3> QED BY <3>1, TriesYes, HeardActs
  <2> QED BY <2>1, <2>2, <2>3, <2>4, <2>5, <2>6
<1>4. CASE \E w \in Window, m \in Words :
              \/ Enqueue(w, m) \/ SteerQueued(w, m) \/ RemoveQueued(w, m)
              \/ SteerLands(w, m) \/ SteerRefused(w, m)
  <2>1. PICK w \in Window, m \in Words :
              \/ Enqueue(w, m) \/ SteerQueued(w, m) \/ RemoveQueued(w, m)
              \/ SteerLands(w, m) \/ SteerRefused(w, m)
    BY <1>4
  <2>2. CASE Enqueue(w, m)
    <3>1. UNCHANGED <<alive, taken, coming, steers>> /\ Elsewhere(w) /\ Tries(w)
      BY <1>0, <2>2, EnqueueDoes DEF sessionVars
    <3> QED BY <3>1, TriesYes, HeardActs
  <2>3. CASE SteerQueued(w, m)
    <3>1. UNCHANGED <<alive, taken, coming>> /\ Elsewhere(w) /\ (Tries(w) \/ draining' = draining)
      BY <1>0, <2>3, SteerDoes DEF sessionVars
    <3>2. \A x \in Words : steers'[w][x] = "no" => steers[w][x] = "no" \/ ~alive
      BY <1>0, <2>3, SteerDoes
    <3> QED BY <3>1, <3>2, TriesYes, HeardActs
  <2>4. CASE RemoveQueued(w, m)
    <3>1. UNCHANGED <<alive, taken, coming, steers>> /\ Elsewhere(w) /\ Tries(w)
      BY <1>0, <2>4, RemoveDoes DEF sessionVars
    <3> QED BY <3>1, TriesYes, HeardActs
  <2>5. CASE SteerLands(w, m)
    <3>1. /\ UNCHANGED draining /\ Elsewhere(w)
          /\ \A x \in Words \ {m} : steers'[w][x] = steers[w][x]
      BY <1>0, <2>5, SteerLandsDoes
    <3>2. CASE alive
      <4>1. Given(m, "steer") /\ steers'[w][m] = "none"
        BY <1>0, <2>5, <3>2, SteerLandsDoes DEF Gets
      <4>2. \A v \in Window, x \in Words : steers'[v][x] = steers[v][x] \/ steers'[v][x] = "none"
        BY <3>1, <4>1 DEF Elsewhere
      <4> QED BY <3>1, <4>1, <4>2, HeardGets
    <3>3. CASE ~alive
      <4>1. UNCHANGED <<alive, taken, coming>>
        BY <1>0, <2>5, <3>3, SteerLandsDoes DEF Gets, sessionVars
      <4> QED BY <3>1, <3>3, <4>1, HeardActs
    <3> QED BY <3>2, <3>3
  <2>6. CASE SteerRefused(w, m)
    <3>1. /\ UNCHANGED <<alive, taken, coming, draining>> /\ Elsewhere(w)
          /\ steers'[w][m] = "none" /\ \A x \in Words \ {m} : steers'[w][x] = steers[w][x]
      BY <1>0, <2>6, SteerRefusedDoes DEF sessionVars
    <3>2. \A x \in Words : steers'[w][x] = "no" => steers[w][x] = "no" \/ ~alive
      BY <3>1
    <3> QED BY <3>1, <3>2, HeardActs
  <2> QED BY <2>1, <2>2, <2>3, <2>4, <2>5, <2>6
<1>5. ASSUME NEW c \in adrift, AdriftLands(c) PROVE HeardInv'
  <2>1. UNCHANGED <<draining, steers>> /\ (Given(c.word, c.how) \/ UNCHANGED <<alive, taken, coming>>)
    BY <1>5 DEF AdriftLands, sessionVars
  <2>2. c.word \in Words
    BY <1>0 DEF CallTyped
  <2>3. CASE Given(c.word, c.how)
    BY <2>1, <2>2, <2>3, HeardGets
  <2>4. CASE UNCHANGED <<alive, taken, coming>>
    BY <2>1, <2>4 DEF HeardInv
  <2> QED BY <2>1, <2>3, <2>4
<1>6. CASE Moves
  <2>1. ASSUME NEW v \in Window PROVE Rest(coming[v], coming'[v])
    <3>1. coming[v] \in Seq(Signals)
      BY <1>0 DEF SessionTyped
    <3> QED BY <1>6, <3>1, RestsOf, MovesLeave
  <2>2. UNCHANGED <<alive, taken>>
    BY <1>6, MovesLeave
  <2>3. \A v \in Window : draining'[v].stage = "yes" => draining'[v] = draining[v]
    BY <1>6, MovesLeave DEF NoCall
  <2>4. \A v \in Window, m \in Words : steers'[v][m] = "no" => steers[v][m] = "no" \/ ~alive
    BY <1>6, MovesLeave
  <2> QED BY <2>1, <2>2, <2>3, <2>4, HeardLess
<1>7. CASE UNCHANGED popOutVars
  BY <1>7 DEF HeardInv, popOutVars, sessionVars, callVars
<1> QED BY <1>1, <1>2, <1>3, <1>4, <1>5, <1>6, <1>7, PopOutKinds

-----------------------------------------------------------------------------
(* Where the queue is.                                                     *)

\* The queue of the pane, wherever the pane is.
Kept ==
    IF ~out THEN copy["main"].queue
    ELSE IF \E i \in Pop : Goes(i) THEN popped[CHOOSE i \in Pop : Goes(i)].state.queue
    ELSE IF Runs THEN copy["own"].queue
    ELSE IF frame # "none" THEN entry.queue
    ELSE inbox[Len(inbox)].state.queue

KeptWhere ==
    /\ ~out => Kept = copy["main"].queue
    /\ \A i \in Pop : Goes(i) => Kept = popped[i].state.queue
    /\ Runs => Kept = copy["own"].queue
    /\ frame # "none" /\ ~Runs => Kept = entry.queue
    /\ out /\ frame = "none" /\ (\A i \in Pop : ~Goes(i)) => Kept = inbox[Len(inbox)].state.queue

LEMMA KeptFound == FrontInv /\ PlaceNow => KeptWhere
<1> SUFFICES ASSUME FrontInv, PlaceNow PROVE KeptWhere
  OBVIOUS
<1>1. ASSUME NEW i \in Pop, Goes(i) PROVE Kept = popped[i].state.queue
  <2>1. out
    BY <1>1 DEF PlaceNow
  <2>2. (CHOOSE j \in Pop : Goes(j)) = i
    <3>1. \A j \in Pop : Goes(j) => j = i
      BY <1>1 DEF PlaceNow
    <3> QED BY <1>1, <3>1
  <2> QED BY <1>1, <2>1, <2>2 DEF Kept
<1>2. ASSUME frame # "none" PROVE out /\ \A i \in Pop : ~Goes(i)
  BY <1>2 DEF PlaceNow
<1>3. Runs => frame # "none"
  BY DEF FrontInv, Runs
<1> QED BY <1>1, <1>2, <1>3 DEF Kept, Runs, KeptWhere

LEMMA KeptIs ==
    ASSUME FrontInv, PlaceNow
    PROVE  /\ ~out => Kept = copy["main"].queue
           /\ \A i \in Pop : Goes(i) => Kept = popped[i].state.queue
           /\ Runs => Kept = copy["own"].queue
           /\ frame # "none" /\ ~Runs => Kept = entry.queue
           /\ out /\ frame = "none" /\ (\A i \in Pop : ~Goes(i)) => Kept = inbox[Len(inbox)].state.queue
  BY KeptFound DEF KeptWhere

LEMMA KeptThere == FrontInv' /\ PlaceNow' => KeptWhere'
  BY KeptFound, PTL

LEMMA KeptNext ==
    ASSUME FrontInv', PlaceNow'
    PROVE  /\ ~out' => Kept' = copy'["main"].queue
           /\ \A i \in Pop : Goes(i)' => Kept' = popped'[i].state.queue
           /\ Runs' => Kept' = copy'["own"].queue
           /\ frame' # "none" /\ ~Runs' => Kept' = entry'.queue
           /\ out' /\ frame' = "none" /\ (\A i \in Pop : ~Goes(i)') => Kept' = inbox'[Len(inbox')].state.queue
  BY KeptThere DEF KeptWhere

\* The window that shows the pane has the queue.
LEMMA OwnerKept ==
    ASSUME FrontInv, PlaceNow, ~out \/ Runs
    PROVE  Kept = copy[Owner].queue /\ (Owner = "own" <=> Runs)
<1>1. Runs => out
  BY RunsOut
<1> QED BY <1>1, KeptIs DEF Owner

\* A step of the window that shows the pane changes its queue, another step none.
LEMMA KeptThen ==
    ASSUME FrontInv, PlaceNow, UNCHANGED moveVars,
           (copy[Owner])' = copy[Owner] \/ ~out \/ Runs
    PROVE  /\ Owner' = Owner
           /\ ~out \/ Runs => Kept' = (copy[Owner].queue)'
           /\ (copy[Owner])' = copy[Owner] => Kept' = Kept
<1>1. UNCHANGED <<out, popped, entry, frame, front, inbox>>
  BY DEF moveVars
<1>2. Owner' = Owner /\ (Runs' <=> Runs) /\ \A i \in Pop : Goes(i)' <=> Goes(i)
  BY <1>1 DEF Owner, Runs, Goes
<1>3. Runs => out /\ \A i \in Pop : ~Goes(i)
  BY RunsOut
<1>4. ~out \/ Runs => Kept' = (copy[Owner].queue)'
  BY <1>1, <1>2, <1>3 DEF Kept, Owner
<1>5. ASSUME (copy[Owner])' = copy[Owner] PROVE Kept' = Kept
  <2>1. CASE ~out \/ Runs
    BY <1>4, <1>5, <2>1, OwnerKept
  <2>2. CASE out /\ ~Runs
    <3>1. (CHOOSE i \in Pop : Goes(i))' = (CHOOSE i \in Pop : Goes(i))
      BY <1>1 DEF Goes
    <3> QED BY <1>1, <1>2, <2>2, <3>1 DEF Kept
  <2> QED BY <2>1, <2>2
<1> QED BY <1>2, <1>4, <1>5

\* The pane's calls stay with it, and its queue.
Follows == /\ Kept' = Kept
           /\ (draining[Owner])' = draining[Owner]
           /\ \A m \in Words : (steers[Owner][m])' = steers[Owner][m]

LEMMA PopsFollow ==
    ASSUME PopTyped, PopTyped', PlaceNow, PlaceNow', LinkNow, Safe', NEW i \in Pop,
           PopOut(i) \/ Insert(i) \/ Build(i) \/ PopFails(i)
    PROVE  Follows
<1>0. MoveTyped /\ FrontInv /\ CallTyped /\ SessionTyped /\ FrontInv'
  BY DEF PopTyped
<1>1. CASE PopOut(i)
  <2>1. /\ ~out /\ out' /\ UNCHANGED <<copy, callVars, frame, front>>
        /\ popped' = [popped EXCEPT ![i] = [stage |-> "going", state |-> StateOf("main")]]
        /\ torn' = (torn \/ Calling("main") \/ opening)
    BY <1>1 DEF PopOut
  <2>2. ~Calling("main")
    BY <2>1 DEF Safe
  <2>3. ~Calling("own")
    <3>1. frame = "none"
      BY <2>1 DEF PlaceNow
    <3> QED BY <1>0, <3>1 DEF FrontInv, Runs
  <2>4. popped'[i] = [stage |-> "going", state |-> StateOf("main")]
    BY <1>0, <2>1 DEF MoveTyped
  <2>5. Goes(i)' /\ (popped[i].state.queue)' = copy["main"].queue
    BY <2>4 DEF Goes, StateOf
  <2>6. Kept' = Kept
    <3>1. Kept' = (popped[i].state.queue)'
      BY <1>0, <2>5, KeptIs, KeptNext
    <3> QED BY <1>0, <2>1, <2>5, <3>1, KeptIs, KeptNext
  <2> QED BY <2>1, <2>2, <2>3, <2>6 DEF Follows, Owner, Calling, callVars
<1>2. CASE Insert(i)
  <2>1. /\ UNCHANGED <<callVars, out, frame>> /\ Goes(i)
    BY <1>2 DEF Insert, Goes
  <2>2. frame = "none" /\ entry = NoState
    <3>1. frame = "none" /\ \A j \in Pop \ {i} : ~Goes(j)
      BY <2>1 DEF PlaceNow
    <3> QED BY <1>2, <3>1 DEF PlaceNow, Goes, Insert
  <2>3. popped' = [popped EXCEPT ![i].stage = "building"]
    BY <1>2, <2>2 DEF Insert
  <2>4. Goes(i)' /\ popped'[i].state = popped[i].state
    BY <1>0, <2>3 DEF MoveTyped, Goes
  <2>5. Kept' = Kept
    BY <1>0, <2>1, <2>4, KeptIs, KeptNext
  <2> QED BY <2>1, <2>5 DEF Follows, Owner, callVars
<1>3. CASE Build(i)
  <2>1. /\ UNCHANGED <<callVars, out>> /\ Goes(i)
    BY <1>3 DEF Build, Goes
  <2>2. Kept = popped[i].state.queue
    BY <1>0, <2>1, KeptIs, KeptNext
  <2>3. Kept' = Kept
    <3>1. CASE frame' = "up" /\ front' = "starting" /\ UNCHANGED entry
      <4>1. Kept' = entry.queue
        BY <1>0, <3>1, KeptIs, KeptNext DEF Runs
      <4>2. entry = popped[i].state
        BY <1>3 DEF Build, LinkNow
      <4> QED BY <2>2, <4>1, <4>2
    <3>2. CASE popped' = [popped EXCEPT ![i].stage = "failed"]
      <4>1. Goes(i)' /\ popped'[i].state = popped[i].state
        BY <1>0, <3>2 DEF MoveTyped, Goes
      <4> QED BY <1>0, <2>2, <4>1, KeptIs, KeptNext
    <3> QED BY <1>3, <3>1, <3>2 DEF Build
  <2> QED BY <2>1, <2>3 DEF Follows, Owner, callVars
<1>4. CASE PopFails(i)
  <2>1. /\ UNCHANGED callVars /\ Goes(i) /\ Returned(popped[i].state)
    BY <1>4 DEF PopFails, Goes
  <2>2. out /\ frame = "none" /\ popped[i].state \in State
    BY <1>0, <2>1 DEF PlaceNow, MoveTyped
  <2>3. ~out' /\ Take(popped[i].state)
    BY <2>1, <2>2 DEF Returned
  <2>4. Kept' = Kept
    <3>1. Kept = popped[i].state.queue
      BY <1>0, <2>1, KeptIs, KeptNext
    <3>2. Kept' = copy'["main"].queue
      BY <1>0, <2>3, KeptIs, KeptNext
    <3> QED BY <1>0, <2>2, <2>3, <3>1, <3>2, TakeDoes
  <2>5. ~Calling("own") /\ ~Calling("main")
    BY <1>0, <2>2 DEF FrontInv, Runs, LinkNow
  <2> QED BY <2>1, <2>2, <2>3, <2>4, <2>5 DEF Follows, Owner, Calling, callVars
<1> QED BY <1>1, <1>2, <1>3, <1>4

LEMMA WindowFollows ==
    ASSUME PopTyped, PopTyped', PlaceNow, PlaceNow', LinkNow, Safe',
           \/ Adopt \/ Lost \/ Wire \/ Reports \/ ReportLands \/ CloseRequested \/ CloseUnbuilt
           \/ Destroyed \/ HearWindow
    PROVE  Follows
<1>0. MoveTyped /\ FrontInv /\ CallTyped /\ SessionTyped /\ FrontInv'
  BY DEF PopTyped
<1>1. CASE Adopt
  <2>1. /\ UNCHANGED <<callVars, out>> /\ front = "starting" /\ front' = "adopted" /\ entry \in State
        /\ copy' = [copy EXCEPT !["own"] =
                   [(IF entry.session THEN Attached(Blank) ELSE Blank)
                        EXCEPT !.queue = entry.queue, !.held = entry.held, !.ended = entry.ended]]
    BY <1>0, <1>1 DEF Adopt, MoveTyped
  <2>2. Kept = entry.queue
    BY <1>0, <2>1, KeptIs, KeptNext DEF FrontInv, Runs
  <2>3. copy'["own"].queue = entry.queue
    <3> DEFINE b == IF entry.session THEN Attached(Blank) ELSE Blank
               z == [b EXCEPT !.queue = entry.queue, !.held = entry.held, !.ended = entry.ended]
    <3>1. DOMAIN b = {"session", "queue", "held", "working", "ended"}
      BY DEF Attached, Blank
    <3>2. z.queue = entry.queue
      <4> HIDE DEF b
      <4> QED BY <3>1
    <3>3. copy'["own"] = z
      BY <1>0, <2>1 DEF CallTyped, Window
    <3> HIDE DEF z
    <3> QED BY <3>2, <3>3
  <2>4. Kept' = copy'["own"].queue
    BY <1>0, <2>1, KeptIs, KeptNext DEF Runs
  <2> QED BY <2>1, <2>2, <2>3, <2>4 DEF Follows, Owner, callVars
<1>2. CASE Lost \/ CloseRequested
  <2>1. /\ UNCHANGED <<callVars, out, entry, copy>> /\ frame # "none" /\ frame' # "none"
        /\ (Runs' <=> Runs)
    BY <1>0, <1>2 DEF Lost, CloseRequested, Runs, FrontInv
  <2>2. Kept' = Kept
    BY <1>0, <2>1, KeptIs, KeptNext
  <2> QED BY <2>1, <2>2 DEF Follows, Owner, callVars
<1>3. CASE Wire \/ Reports \/ ReportLands
  <2>1. /\ UNCHANGED <<callVars, out, copy>> /\ Runs /\ Runs'
    BY <1>0, <1>3 DEF Wire, Reports, ReportLands, Unsent, Runs, LinkNow
  <2>2. Kept' = Kept
    BY <1>0, <2>1, KeptIs, KeptNext
  <2> QED BY <2>1, <2>2 DEF Follows, Owner, callVars
<1>4. CASE CloseUnbuilt
  BY <1>4 DEF CloseUnbuilt, Safe
<1>5. CASE Destroyed
  <2>1. /\ UNCHANGED <<out, popped>>
        /\ frame = "closing" /\ frame' = "none" /\ front' = "none" /\ entry' = NoState
        /\ draining' = [draining EXCEPT !["own"] = NoCall]
        /\ steers' = [steers EXCEPT !["own"] = [m \in Words |-> "none"]]
        /\ inbox' = IF entry = NoState THEN inbox ELSE Append(inbox, Word("closed", entry))
        /\ torn' = (torn \/ (Runs /\ (entry # StateOf("own") \/ Calling("own") \/ report # NoState)))
    BY <1>5 DEF Destroyed, Runs
  <2>2. out /\ (\A j \in Pop : ~Goes(j)) /\ entry \in State /\ entry # NoState
    BY <1>0, <2>1 DEF PlaceNow, MoveTyped
  <2>3. inbox' = Append(inbox, Word("closed", entry))
    BY <2>1, <2>2
  <2>4. (inbox[Len(inbox)])'.state = entry
    BY <1>0, <2>2, <2>3, InboxGrows
  <2>5. \A j \in Pop : ~Goes(j)'
    BY <2>1, <2>2 DEF Goes
  <2>6. Kept' = entry.queue
    BY <1>0, <2>1, <2>2, <2>4, <2>5, KeptIs, KeptNext
  <2>7. Kept = entry.queue /\ ~Calling("own")
    <3>1. CASE Runs
      <4>1. entry = StateOf("own") /\ ~Calling("own")
        BY <2>1, <3>1 DEF Safe
      <4> QED BY <1>0, <3>1, <4>1, KeptIs, KeptNext DEF StateOf
    <3>2. CASE ~Runs
      BY <1>0, <2>1, <3>2, KeptIs, KeptNext DEF FrontInv
    <3> QED BY <3>1, <3>2
  <2>8. draining'["own"] = NoCall /\ \A m \in Words : steers'["own"][m] = "none"
    BY <1>0, <2>1 DEF CallTyped, Window
  <2> QED BY <2>1, <2>2, <2>6, <2>7, <2>8 DEF Follows, Owner, Calling
<1>6. CASE HearWindow
  <2>1. /\ UNCHANGED <<callVars, popped, entry, frame, front>> /\ inbox # <<>> /\ inbox' = Tail(inbox)
    BY <1>6 DEF HearWindow
  <2>2. /\ Head(inbox) = inbox[1] /\ 1 \in DOMAIN inbox
        /\ Head(inbox).is \in {"synced", "closed"} /\ Head(inbox).state \in State
        /\ Len(inbox) \in Nat
        /\ inbox' = <<>> <=> Len(inbox) = 1
        /\ inbox' # <<>> => inbox'[Len(inbox')] = inbox[Len(inbox)]
    BY <1>0, <2>1, InboxShrinks
  <2>3. out /\ \A j \in Pop : ~Goes(j) /\ ~Goes(j)'
    BY <2>1 DEF LinkNow, Goes
  <2>4. CASE Head(inbox).is = "closed"
    <3>1. Len(inbox) = 1 /\ ClosedLast
      BY <2>1, <2>2, <2>4 DEF PlaceNow, ClosedLast
    <3>2. frame = "none" /\ front = "none"
      BY <1>0, <3>1 DEF PlaceNow, FrontInv
    <3>3. ~out' /\ Take(Head(inbox).state)
      BY <1>6, <2>3, <2>4 DEF HearWindow, Returned
    <3>4. Kept = Head(inbox).state.queue
      BY <1>0, <2>2, <2>3, <3>1, <3>2, KeptIs, KeptNext
    <3>5. Kept' = copy'["main"].queue
      BY <1>0, <3>3, KeptIs, KeptNext
    <3>6. Kept' = Kept
      BY <1>0, <2>2, <3>3, <3>4, <3>5, TakeDoes
    <3>7. ~Calling("own") /\ ~Calling("main")
      BY <1>0, <2>3, <3>2 DEF FrontInv, Runs, LinkNow
    <3> QED BY <2>1, <2>3, <3>3, <3>6, <3>7 DEF Follows, Owner, Calling, callVars
  <2>5. CASE Head(inbox).is = "synced"
    <3>1. out' = out /\ Take(Head(inbox).state)
      BY <1>6, <2>3, <2>5 DEF HearWindow
    <3>2. copy'["own"] = copy["own"] /\ (Runs' <=> Runs)
      BY <1>0, <2>1, <2>2, <3>1, TakeDoes DEF Runs
    <3>3. Kept' = Kept
      <4>1. CASE Runs
        BY <1>0, <3>2, <4>1, KeptIs, KeptNext
      <4>2. CASE ~Runs /\ frame # "none"
        BY <1>0, <2>1, <3>2, <4>2, KeptIs, KeptNext
      <4>3. CASE ~Runs /\ frame = "none"
        <5>1. ClosedLast
          BY <2>3, <4>3 DEF PlaceNow
        <5>2. inbox' # <<>>
          BY <2>2, <2>5, <5>1 DEF ClosedLast
        <5> QED BY <1>0, <2>1, <2>2, <2>3, <3>1, <4>3, <5>2, KeptIs, KeptNext
      <4> QED BY <4>1, <4>2, <4>3
    <3> QED BY <2>1, <3>1, <3>3 DEF Follows, Owner, callVars
  <2> QED BY <2>2, <2>4, <2>5
<1> QED BY <1>1, <1>2, <1>3, <1>4, <1>5, <1>6

LEMMA MovesFollow ==
    ASSUME PopTyped, PopTyped', PlaceNow, PlaceNow', LinkNow, Safe', Moves
    PROVE  Follows
  BY PopsFollow, WindowFollows DEF Moves

\* A pane that is in the main window, with nothing of it on its way, moves by going out.
LEMMA MovesOut ==
    ASSUME PopTyped, PlaceNow, LinkNow, Moves
    PROVE  out \/ \E i \in Pop : PopOut(i)
<1>0. FrontInv
  BY DEF PopTyped
<1>1. ASSUME NEW i \in Pop, Insert(i) \/ Build(i) \/ PopFails(i) PROVE out
  BY <1>1 DEF Insert, Build, PopFails, Goes, PlaceNow
<1>2. ASSUME Adopt \/ Lost \/ Wire \/ Reports \/ ReportLands \/ CloseRequested \/ CloseUnbuilt
             \/ Destroyed \/ HearWindow
      PROVE  out
  BY <1>0, <1>2 DEF Adopt, Lost, Wire, Reports, ReportLands, CloseRequested, CloseUnbuilt,
                    Destroyed, HearWindow, Unsent, PlaceNow, LinkNow, FrontInv
<1> QED BY <1>1, <1>2 DEF Moves

\* The pane's record stays where it is, or nothing is on its way where it comes.
LEMMA MovesSettle ==
    ASSUME PopTyped, PlaceNow, LinkNow, Safe', Moves
    PROVE  \/ /\ Owner' = Owner /\ copy'[Owner] = copy[Owner] /\ coming'[Owner] = coming[Owner]
              /\ left' = left
           \/ /\ \A m \in Words : (steers[Owner][m])' = "none"
              /\ left' \/ ~Free((copy[Owner])')
<1>0. MoveTyped /\ FrontInv /\ CallTyped /\ SessionTyped
  BY DEF PopTyped
<1>1. ~Free(Blank)
  <2>1. <<>> \in Seq(Item) /\ Blank.queue = <<>>
    BY DEF Blank
  <2>2. Waiting(<<>>) = <<>>
    BY <2>1, WaitingItems, EmptyItems DEF InQueue
  <2> QED BY <2>1, <2>2 DEF Free
<1>2. ASSUME NEW i \in Pop, PopOut(i)
      PROVE  (\A m \in Words : (steers[Owner][m])' = "none") /\ ~Free((copy[Owner])')
  <2>1. ~out /\ out' /\ UNCHANGED <<copy, callVars>>
    BY <1>2 DEF PopOut
  <2>2. copy["own"] = Blank /\ ~Calling("own")
    BY <1>0, <2>1 DEF PlaceNow, FrontInv, Runs
  <2> QED BY <1>1, <2>1, <2>2 DEF Owner, Calling, callVars
<1>3. ASSUME NEW i \in Pop, PopFails(i)
      PROVE  (\A m \in Words : (steers[Owner][m])' = "none") /\ left'
  <2>1. Goes(i) /\ UNCHANGED callVars /\ Returned(popped[i].state)
    BY <1>3 DEF PopFails, Goes
  <2>2. out
    BY <2>1 DEF PlaceNow
  <2>3. ~out' /\ left' /\ ~Calling("main")
    BY <2>1, <2>2 DEF Returned, LinkNow
  <2> QED BY <2>1, <2>3 DEF Owner, Calling, callVars
<1>4. ASSUME (\E i \in Pop : Insert(i) \/ Build(i))
             \/ Lost \/ Wire \/ Reports \/ ReportLands \/ CloseRequested
      PROVE  UNCHANGED <<out, copy, coming, left>>
  BY <1>4 DEF Insert, Build, Lost, Wire, Reports, ReportLands, CloseRequested, BySession
<1>5. ASSUME Adopt
      PROVE  (\A m \in Words : (steers[Owner][m])' = "none") /\ left'
  <2>1. UNCHANGED <<callVars, out>> /\ left' /\ front = "starting"
    BY <1>5 DEF Adopt
  <2>2. out /\ ~Calling("own")
    BY <1>0, <2>1 DEF PlaceNow, FrontInv, Runs
  <2> QED BY <2>1, <2>2 DEF Owner, Calling, callVars
<1>6. ASSUME Destroyed
      PROVE  (\A m \in Words : (steers[Owner][m])' = "none") /\ ~Free((copy[Owner])')
  <2>1. /\ UNCHANGED out /\ frame = "closing"
        /\ copy' = [copy EXCEPT !["own"] = Blank]
        /\ steers' = [steers EXCEPT !["own"] = [m \in Words |-> "none"]]
    BY <1>6 DEF Destroyed
  <2>2. out
    BY <2>1 DEF PlaceNow
  <2>3. copy'["own"] = Blank /\ steers'["own"] = [m \in Words |-> "none"]
    BY <1>0, <2>1 DEF CallTyped, Window
  <2> QED BY <1>1, <2>1, <2>2, <2>3 DEF Owner
<1>7. ASSUME HearWindow
      PROVE  \/ /\ Owner' = Owner /\ copy'[Owner] = copy[Owner] /\ coming'[Owner] = coming[Owner]
                /\ left' = left
             \/ (\A m \in Words : (steers[Owner][m])' = "none") /\ left'
  <2>1. UNCHANGED callVars /\ inbox # <<>> /\ inbox' = Tail(inbox)
    BY <1>7 DEF HearWindow
  <2>2. out /\ ~Calling("main")
    BY <2>1 DEF LinkNow
  <2>3. Head(inbox).state \in State /\ Head(inbox).is \in {"synced", "closed"}
    BY <1>0, <2>1, InboxShrinks
  <2>4. CASE Head(inbox).is = "closed"
    <3>1. ~out' /\ left'
      BY <1>7, <2>2, <2>4 DEF HearWindow, Returned
    <3> QED BY <2>1, <2>2, <3>1 DEF Owner, Calling, callVars
  <2>5. CASE Head(inbox).is = "synced"
    <3>1. out' = out /\ Take(Head(inbox).state) /\ left' = left
      BY <1>7, <2>2, <2>5 DEF HearWindow
    <3>2. copy'["own"] = copy["own"] /\ coming'["own"] = coming["own"]
      BY <1>0, <2>3, <3>1, TakeDoes
    <3> QED BY <2>2, <3>1, <3>2 DEF Owner
  <2> QED BY <2>3, <2>4, <2>5
<1>8. ~CloseUnbuilt
  BY DEF CloseUnbuilt, Safe
<1> QED BY <1>2, <1>3, <1>4, <1>5, <1>6, <1>7, <1>8 DEF Moves, Owner

\* Until the CLI has an id, the pane is in the main window.
OpenInv == Safe /\ opening => ~out /\ ~copy["main"].session /\ ~copy["main"].working

LEMMA OpenInit == PopOutInit => OpenInv
<1> SUFFICES ASSUME PopOutInit, opening PROVE OpenInv
  BY DEF OpenInv
<1>1. copy["main"] = [Blank EXCEPT !.session = "main" = "main" /\ ~opening]
  BY DEF PopOutInit, Window
<1>2. ~copy["main"].session /\ ~copy["main"].working
  BY <1>1 DEF Blank
<1> QED BY <1>2 DEF OpenInv, PopOutInit

LEMMA OpenActs ==
    ASSUME OpenInv, Safe, UNCHANGED <<opening, out>>, NEW w \in Window, Elsewhere(w),
           KnowsSame(w) \/ UNCHANGED copy
    PROVE  OpenInv'
  BY DEF OpenInv, Elsewhere, KnowsSame, Window

LEMMA OpenStep ==
    ASSUME PopTyped, PlaceInv, LinkInv, MuteInv, OpenInv, [PopOutNext]_popOutVars PROVE OpenInv'
<1> SUFFICES ASSUME Safe', opening' PROVE OpenInv'
  BY DEF OpenInv
<1>0. Safe /\ PlaceNow /\ LinkNow /\ SessionTyped /\ CallTyped
  BY SafeBefore DEF PopTyped, PlaceInv, LinkInv, Safe
<1>1. CASE TurnBegins \/ TurnEnds("finished") \/ TurnEnds("failed") \/ Exits
  BY <1>0, <1>1 DEF TurnBegins, TurnEnds, Exits, Alone, moveVars, OpenInv
<1>2. CASE ClaimOrClose
  BY <1>2 DEF ClaimOrClose
<1>3. CASE \E w \in Window : Interrupt(w) \/ Awaited(w) \/ SendLands(w) \/ SendReplies(w) \/ Hear(w)
  <2>1. PICK w \in Window : Interrupt(w) \/ Awaited(w) \/ SendLands(w) \/ SendReplies(w) \/ Hear(w)
    BY <1>3
  <2>2. CASE Interrupt(w)
    BY <1>0, <2>2, InterruptDoes, OpenActs DEF sessionVars, moveVars
  <2>3. CASE Awaited(w)
    BY <1>0, <2>3, AwaitedDoes, OpenActs DEF sessionVars, moveVars
  <2>4. CASE SendLands(w)
    BY <1>0, <2>4, SendLandsDoes, OpenActs DEF sessionVars, moveVars, Gets
  <2>5. CASE SendReplies(w)
    BY <1>0, <2>5, SendRepliesDoes, OpenActs DEF sessionVars, moveVars
  <2>6. CASE Hear(w)
    <3>1. UNCHANGED <<opening, out>> /\ Elsewhere(w) /\ coming[w] # <<>>
      BY <1>0, <2>6, HearDoes DEF moveVars
    <3>2. w # "main"
      BY <1>0, <3>1 DEF OpenInv, MuteInv, Window
    <3> QED BY <1>0, <3>1, <3>2 DEF OpenInv, Elsewhere, Window
  <2> QED BY <2>1, <2>2, <2>3, <2>4, <2>5, <2>6
<1>4. CASE \E w \in Window, m \in Words :
              \/ Enqueue(w, m) \/ SteerQueued(w, m) \/ RemoveQueued(w, m)
              \/ SteerLands(w, m) \/ SteerRefused(w, m)
  <2>1. PICK w \in Window, m \in Words :
              \/ Enqueue(w, m) \/ SteerQueued(w, m) \/ RemoveQueued(w, m)
              \/ SteerLands(w, m) \/ SteerRefused(w, m)
    BY <1>4
  <2>2. CASE Enqueue(w, m)
    BY <1>0, <2>2, EnqueueDoes, OpenActs DEF sessionVars, moveVars
  <2>3. CASE SteerQueued(w, m)
    BY <1>0, <2>3, SteerDoes, OpenActs DEF sessionVars, moveVars
  <2>4. CASE RemoveQueued(w, m)
    BY <1>0, <2>4, RemoveDoes, OpenActs DEF sessionVars, moveVars
  <2>5. CASE SteerLands(w, m)
    BY <1>0, <2>5, SteerLandsDoes, OpenActs DEF sessionVars, moveVars, Gets
  <2>6. CASE SteerRefused(w, m)
    BY <1>0, <2>6, SteerRefusedDoes, OpenActs DEF sessionVars, moveVars
  <2> QED BY <2>1, <2>2, <2>3, <2>4, <2>5, <2>6
<1>5. ASSUME NEW c \in adrift, AdriftLands(c) PROVE OpenInv'
  BY <1>0, <1>5 DEF LinkNow
<1>6. CASE Moves
  <2>1. opening
    BY <1>6, MovesLeave
  <2>2. ~out
    BY <1>0, <2>1 DEF OpenInv
  <2>3. PICK i \in Pop : PopOut(i)
    BY <1>0, <1>6, <2>2, MovesOut
  <2>4. torn' = (torn \/ Calling("main") \/ opening)
    BY <2>3 DEF PopOut
  <2> QED BY <2>1, <2>4 DEF Safe
<1>7. CASE UNCHANGED popOutVars
  BY <1>0, <1>7 DEF OpenInv, popOutVars, sessionVars, moveVars
<1> QED BY <1>1, <1>2, <1>3, <1>4, <1>5, <1>6, <1>7, PopOutKinds

-----------------------------------------------------------------------------
(* Steers on their way, and a queue that is free.                          *)

\* What a steer that is on its way can come back to.
RefuseNow ==
    /\ \A m \in Words : steers[Owner][m] # "none" => copy[Owner].session
    /\ ~alive =>
          \A m \in Words : steers[Owner][m] # "none" /\ Marked(copy[Owner].queue, m)
                              => coming[Owner] # <<>> \/ copy[Owner].working

RefuseInv == Safe => RefuseNow

Exiting(w) == \E k \in DOMAIN coming[w] : coming[w][k].is = "exit"

\* A queue that is free is on its way, or nothing has tried it, or the exit is still to be heard.
FlowNow == Free(copy[Owner]) => left \/ draining[Owner] # NoCall \/ Exiting(Owner)

FlowInv == Safe => FlowNow

LEMMA FreeIs ==
    ASSUME NEW p \in PaneCopies
    PROVE  Free(p) <=> ~p.working /\ ~p.held /\ \E m \in Words : Plain(p.queue, m)
  BY WaitingItems, CopyParts DEF Free

LEMMA RefuseInit == PopOutInit => RefuseInv
<1> SUFFICES ASSUME PopOutInit PROVE RefuseNow
  BY DEF RefuseInv
<1>1. \A m \in Words : steers[Owner][m] = "none"
  BY DEF PopOutInit, Owner, Window
<1> QED BY <1>1 DEF RefuseNow

LEMMA FlowInit == PopOutInit => FlowInv
<1> SUFFICES ASSUME PopOutInit PROVE FlowNow
  BY DEF FlowInv
<1>1. CallTyped
  BY TypedInit DEF PopTyped
<1>2. Owner \in Window
  BY DEF Owner, Window
<1>3. copy[Owner].queue = <<>>
  BY <1>2 DEF PopOutInit, Blank
<1>4. ~Free(copy[Owner])
  BY <1>1, <1>2, <1>3, FreeIs, CopyTyped, EmptyItems DEF InQueue
<1> QED BY <1>4 DEF FlowNow

\* The window that shows the pane does something.
LEMMA RefuseActs ==
    ASSUME CallTyped, RefuseNow, NEW w \in Window, w = Owner, Owner' = Owner,
           KnowsSame(w) \/ copy' = copy, alive' = alive, alive \/ UNCHANGED coming,
           \A m \in Words : steers'[w][m] # "none"
                               => \/ steers[w][m] # "none"
                                  \/ copy[w].session /\ copy[w].working,
           \A m \in Words : Marked(copy'[w].queue, m)
                               => Marked(copy[w].queue, m) \/ copy[w].working
    PROVE  RefuseNow'
<1>1. copy'[w].session = copy[w].session /\ copy'[w].working = copy[w].working
  BY DEF KnowsSame
<1> QED BY <1>1 DEF RefuseNow

LEMMA FlowActs ==
    ASSUME Owner' = Owner,
           \/ ~Free((copy[Owner])') \/ left' \/ (draining[Owner])' # NoCall
    PROVE  FlowNow'
  BY DEF FlowNow

\* Elsewhere, nothing happens to the pane.
LEMMA StepsElse ==
    ASSUME Owner' = Owner, (copy[Owner])' = copy[Owner], (coming[Owner])' = coming[Owner],
           (draining[Owner])' = draining[Owner], left' = left, alive' = alive,
           \A m \in Words : (steers[Owner][m])' = steers[Owner][m]
    PROVE  (RefuseNow => RefuseNow') /\ (FlowNow => FlowNow')
  BY DEF RefuseNow, FlowNow, Exiting

\* A window's tail of what is still to be heard.
LEMMA TailExit ==
    ASSUME NEW w \in Window, coming[w] \in Seq(Signals), coming[w] # <<>>, coming'[w] = Tail(coming[w]),
           Head(coming[w]).is # "exit"
    PROVE  /\ Exiting(w) => Exiting(w)'
           /\ coming[w][Len(coming[w])].is = "exit" => coming'[w] # <<>>
<1>1. /\ DOMAIN coming[w] = 1 .. Len(coming[w]) /\ Len(coming[w]) \in Nat
      /\ DOMAIN coming'[w] = 1 .. Len(coming[w]) - 1
      /\ \A k \in DOMAIN coming'[w] : coming'[w][k] = coming[w][k + 1]
      /\ Head(coming[w]) = coming[w][1]
      /\ coming'[w] = <<>> => Head(coming[w]) = coming[w][Len(coming[w])]
  BY SignalTail
<1>2. ASSUME Exiting(w) PROVE Exiting(w)'
  <2>1. PICK k \in DOMAIN coming[w] : coming[w][k].is = "exit"
    BY <1>2 DEF Exiting
  <2>2. k # 1
    BY <1>1, <2>1
  <2>3. k - 1 \in DOMAIN coming'[w] /\ (k - 1) + 1 = k
    BY <1>1, <2>1, <2>2
  <2>4. coming'[w][k - 1] = coming[w][k]
    BY <1>1, <2>3
  <2> QED BY <2>1, <2>3, <2>4 DEF Exiting
<1> QED BY <1>1, <1>2

LEMMA RefuseHears ==
    ASSUME PopTyped, PlaceNow, HeardInv, RefuseNow, NEW w \in Window, Hear(w)
    PROVE  RefuseNow'
<1>0. SessionTyped /\ CallTyped /\ FrontInv
  BY DEF PopTyped
<1> DEFINE e == Head(coming[w])
<1>1. /\ UNCHANGED <<alive, steers, moveVars>>
      /\ coming[w] # <<>> /\ coming'[w] = Tail(coming[w])
      /\ \A v \in Window \ {w} : coming'[v] = coming[v]
      /\ Elsewhere(w) /\ copy'[w].session = copy[w].session
      /\ \/ UNCHANGED <<draining, left>>
         \/ ~QueueIsElsewhere(w) /\ Tries(w) /\ e.is = "finished"
      /\ HeardAs(w, e, copy[w].queue)
  BY <1>0, HearDoes
<1>2. Owner' = Owner /\ Owner \in Window
  BY <1>1 DEF moveVars, Owner, Window
<1>3. coming[w] \in Seq(Signals)
  BY <1>0 DEF SessionTyped
<1>4. CASE w = Owner
  <2>1. ASSUME ~alive, NEW m \in Words, Marked(copy'[w].queue, m)
        PROVE  coming'[w] # <<>>
    <3>1. e.is # "exit"
      BY <1>1, <2>1 DEF HeardAs
    <3>2. coming[w][Len(coming[w])].is = "exit"
      BY <1>1, <2>1 DEF HeardInv
    <3> QED BY <1>1, <1>3, <3>1, <3>2, TailExit
  <2> QED BY <1>1, <1>2, <1>4, <2>1 DEF RefuseNow
<1>5. CASE w # Owner
  <2>1. w = "main" /\ out
    BY <1>0, <1>1, <1>5, HearsWhere
  <2>2. UNCHANGED <<draining, left>>
    BY <1>1, <2>1 DEF QueueIsElsewhere
  <2> QED BY <1>1, <1>2, <1>5, <2>2, StepsElse DEF Elsewhere
<1> QED BY <1>4, <1>5

LEMMA FlowHears ==
    ASSUME PopTyped, PopTyped', PlaceNow, FlowNow, NEW w \in Window, Hear(w)
    PROVE  FlowNow'
<1>0. SessionTyped /\ CallTyped /\ FrontInv /\ CallTyped'
  BY DEF PopTyped
<1> DEFINE e == Head(coming[w])
<1>1. /\ UNCHANGED <<alive, steers, moveVars>>
      /\ coming[w] # <<>> /\ coming'[w] = Tail(coming[w])
      /\ \A v \in Window \ {w} : coming'[v] = coming[v]
      /\ Elsewhere(w) /\ copy'[w].session = copy[w].session
      /\ \/ UNCHANGED <<draining, left>>
         \/ ~QueueIsElsewhere(w) /\ Tries(w) /\ e.is = "finished"
      /\ HeardAs(w, e, copy[w].queue)
  BY <1>0, HearDoes
<1>2. Owner' = Owner /\ Owner \in Window
  BY <1>1 DEF moveVars, Owner, Window
<1>3. coming[w] \in Seq(Signals) /\ copy[w] \in PaneCopies /\ copy'[w] \in PaneCopies
  BY <1>0, CopyTyped DEF SessionTyped, CallTyped
<1>4. CASE w = Owner
  <2>1. ~QueueIsElsewhere(w)
    BY <1>4 DEF QueueIsElsewhere, Owner
  <2>2. \/ ~Free(copy'[w])
        \/ Tries(w)
        \/ e.is = "echo" /\ (Free(copy'[w]) <=> Free(copy[w])) /\ UNCHANGED <<draining, left>>
    <3>1. CASE e.is = "echo"
      <4>1. copy'[w].working = copy[w].working /\ copy'[w].held = copy[w].held
            /\ \A x \in Words : Plain(copy'[w].queue, x) <=> Plain(copy[w].queue, x)
        BY <1>1, <3>1 DEF HeardAs
      <4> QED BY <1>1, <1>3, <3>1, <4>1, FreeIs
    <3>2. CASE e.is = "started"
      BY <1>1, <1>3, <3>2, FreeIs DEF HeardAs
    <3>3. CASE e.is \notin {"started", "echo"}
      BY <1>1, <2>1, <3>3 DEF HeardAs
    <3> QED BY <3>1, <3>2, <3>3
  <2>3. Tries(w) => (Free(copy'[w]) => draining'[w] # NoCall)
    BY DEF Tries
  <2>4. CASE e.is = "echo" /\ (Free(copy'[w]) <=> Free(copy[w])) /\ UNCHANGED <<draining, left>>
    <3>1. Exiting(w) => Exiting(w)'
      BY <1>1, <1>3, <2>4, TailExit
    <3> QED BY <1>2, <1>4, <2>4, <3>1 DEF FlowNow, Exiting
  <2>5. ~Free(copy'[w]) \/ draining'[w] # NoCall => FlowNow'
    BY <1>2, <1>4, FlowActs
  <2> QED BY <2>2, <2>3, <2>4, <2>5
<1>5. CASE w # Owner
  <2>1. w = "main" /\ out
    BY <1>0, <1>1, <1>5, HearsWhere
  <2>2. UNCHANGED <<draining, left>>
    BY <1>1, <2>1 DEF QueueIsElsewhere
  <2> QED BY <1>1, <1>2, <1>5, <2>2, StepsElse DEF Elsewhere
<1> QED BY <1>4, <1>5

\* The session's own steps.
LEMMA RefuseSession ==
    ASSUME PopTyped, PlaceNow, OpenInv, Safe, RefuseNow,
           TurnBegins \/ TurnEnds("finished") \/ TurnEnds("failed") \/ Exits \/ ClaimOrClose
    PROVE  RefuseNow'
<1>0. SessionTyped /\ CallTyped
  BY DEF PopTyped
<1>1. Owner \in Window
  BY DEF Owner, Window
<1>2. CASE TurnBegins \/ TurnEnds("finished") \/ TurnEnds("failed") \/ Exits
  <2>1. UNCHANGED <<copy, callVars, moveVars>>
    BY <1>2 DEF TurnBegins, TurnEnds, Exits, Alone
  <2>2. Owner' = Owner
    BY <2>1 DEF moveVars, Owner
  <2>3. alive' \/ Exits
    BY <1>2 DEF TurnBegins, TurnEnds
  <2>4. CASE alive'
    BY <2>1, <2>2, <2>4 DEF RefuseNow, callVars
  <2>5. CASE Exits
    <3> DEFINE events == <<Event("exit")>>
    <3>1. Says(events) /\ events \in Seq(Signals) /\ events # <<>>
      BY <2>5, SignalsAre DEF Exits
    <3> HIDE DEF events
    <3>2. \A w \in Window : coming'[w] = IF copy[w].session THEN coming[w] \o events ELSE coming[w]
      BY <1>0, <3>1, SaysTyped
    <3>3. copy[Owner].session => (coming[Owner])' # <<>>
      <4>1. coming[Owner] \in Seq(Signals)
        BY <1>0, <1>1 DEF SessionTyped
      <4>2. coming[Owner] \o events # <<>>
        BY <3>1, <4>1, SignalConcat
      <4> QED BY <1>1, <2>2, <3>2, <4>2
    <3> QED BY <2>1, <2>2, <3>3 DEF RefuseNow, callVars
  <2> QED BY <2>3, <2>4, <2>5
<1>3. CASE ClaimOrClose
  <2>1. /\ opening /\ UNCHANGED <<callVars, moveVars>> /\ copy' = [copy EXCEPT !["main"] = Attached(@)]
    BY <1>3 DEF ClaimOrClose
  <2>2. Owner = "main" /\ Owner' = "main" /\ ~copy["main"].session
    BY <2>1 DEF OpenInv, Owner, moveVars
  <2>3. \A m \in Words : steers["main"][m] = "none"
    BY <2>2 DEF RefuseNow
  <2> QED BY <2>1, <2>2, <2>3 DEF RefuseNow, callVars
<1> QED BY <1>2, <1>3

LEMMA FlowSession ==
    ASSUME PopTyped, PopTyped', PlaceNow, OpenInv, HeardInv, Safe, FlowNow,
           TurnBegins \/ TurnEnds("finished") \/ TurnEnds("failed") \/ Exits \/ ClaimOrClose
    PROVE  FlowNow'
<1>0. SessionTyped /\ CallTyped /\ CallTyped'
  BY DEF PopTyped
<1>1. Owner \in Window
  BY DEF Owner, Window
<1>2. CASE TurnBegins \/ TurnEnds("finished") \/ TurnEnds("failed") \/ Exits
  <2>1. UNCHANGED <<copy, callVars, moveVars, left>> /\ alive
    BY <1>2 DEF TurnBegins, TurnEnds, Exits, Alone
  <2>2. Owner' = Owner
    BY <2>1 DEF moveVars, Owner
  <2>3. ~Exiting(Owner)
    BY <1>1, <2>1 DEF HeardInv, Exiting
  <2> QED BY <2>1, <2>2, <2>3 DEF FlowNow, callVars
<1>3. CASE ClaimOrClose
  <2>1. /\ opening /\ UNCHANGED <<callVars, moveVars, coming, left>>
        /\ copy' = [copy EXCEPT !["main"] = Attached(@)]
    BY <1>3 DEF ClaimOrClose
  <2>2. Owner = "main" /\ Owner' = "main" /\ ~copy["main"].working
    BY <2>1 DEF OpenInv, Owner, moveVars
  <2>3. copy'["main"] = Attached(copy["main"]) /\ copy["main"] \in PaneCopies /\ copy'["main"] \in PaneCopies
    BY <1>0, <2>1 DEF CallTyped, Window
  <2>4. copy'["main"].queue = copy["main"].queue /\ copy'["main"].held = copy["main"].held
    BY <2>3 DEF Attached, PaneCopies
  <2>5. Free(copy'["main"]) => Free(copy["main"])
    BY <2>2, <2>3, <2>4, FreeIs
  <2> QED BY <2>1, <2>2, <2>5 DEF FlowNow, callVars, Exiting
<1> QED BY <1>2, <1>3

\* The calls of the window that shows the pane, and what the user does there.
LEMMA ActsOwner ==
    ASSUME PopTyped, PlaceNow, LinkNow, NEW w \in Window, Shows(w) \/ Calling(w), UNCHANGED moveVars
    PROVE  w = Owner /\ Owner' = Owner
<1>0. FrontInv
  BY DEF PopTyped
<1> QED BY <1>0, ActsWhere DEF moveVars, Owner

LEMMA RefuseCalls ==
    ASSUME PopTyped, PlaceNow, LinkNow, RefuseNow, NEW w \in Window,
           Interrupt(w) \/ Awaited(w) \/ SendLands(w) \/ SendReplies(w)
    PROVE  RefuseNow'
<1>0. SessionTyped /\ CallTyped
  BY DEF PopTyped
<1>1. CASE Interrupt(w)
  BY <1>0, <1>1, InterruptDoes, RefuseActs, ActsOwner DEF sessionVars
<1>2. CASE Awaited(w)
  BY <1>0, <1>2, AwaitedDoes, RefuseActs, ActsOwner DEF sessionVars
<1>3. CASE SendLands(w)
  BY <1>0, <1>3, SendLandsDoes, RefuseActs, ActsOwner DEF sessionVars, Gets
<1>4. CASE SendReplies(w)
  <2>1. \A m \in Words : Marked(copy'[w].queue, m) => Marked(copy[w].queue, m)
    BY <1>0, <1>4, SendRepliesDoes
  <2> QED BY <1>0, <1>4, <2>1, SendRepliesDoes, RefuseActs, ActsOwner DEF sessionVars
<1> QED BY <1>1, <1>2, <1>3, <1>4

LEMMA RefuseUses ==
    ASSUME PopTyped, PlaceNow, LinkNow, RefuseNow, NEW w \in Window, NEW m \in Words,
           \/ Enqueue(w, m) \/ SteerQueued(w, m) \/ RemoveQueued(w, m)
           \/ SteerLands(w, m) \/ SteerRefused(w, m)
    PROVE  RefuseNow'
<1>0. SessionTyped /\ CallTyped
  BY DEF PopTyped
<1>1. CASE Enqueue(w, m)
  BY <1>0, <1>1, EnqueueDoes, RefuseActs, ActsOwner DEF sessionVars
<1>2. CASE SteerQueued(w, m)
  <2>1. /\ UNCHANGED <<alive, coming, moveVars>> /\ KnowsSame(w) /\ Shows(w)
        /\ \A x \in Words : steers'[w][x] # "none"
                               => \/ steers[w][x] # "none"
                                  \/ copy[w].session /\ copy[w].working
        /\ \A x \in Words : Marked(copy'[w].queue, x)
                               => Marked(copy[w].queue, x) \/ copy[w].working
    BY <1>0, <1>2, SteerDoes DEF sessionVars
  <2> QED BY <1>0, <2>1, RefuseActs, ActsOwner
<1>3. CASE RemoveQueued(w, m)
  BY <1>0, <1>3, RemoveDoes, RefuseActs, ActsOwner DEF sessionVars
<1>4. CASE SteerLands(w, m)
  <2>1. /\ UNCHANGED <<copy, moveVars>> /\ Calling(w) /\ alive' = alive /\ (alive \/ UNCHANGED coming)
        /\ \A x \in Words : steers'[w][x] # "none" => steers[w][x] # "none"
    BY <1>0, <1>4, SteerLandsDoes DEF sessionVars, Gets
  <2> QED BY <1>0, <2>1, RefuseActs, ActsOwner
<1>5. CASE SteerRefused(w, m)
  <2>1. /\ UNCHANGED <<alive, coming, moveVars>> /\ KnowsSame(w) /\ Calling(w)
        /\ \A x \in Words : steers'[w][x] # "none" => steers[w][x] # "none"
        /\ \A x \in Words : Marked(copy'[w].queue, x) => Marked(copy[w].queue, x)
    BY <1>0, <1>5, SteerRefusedDoes DEF sessionVars
  <2> QED BY <1>0, <2>1, RefuseActs, ActsOwner
<1> QED BY <1>1, <1>2, <1>3, <1>4, <1>5

LEMMA RefuseStep ==
    ASSUME PopTyped, PlaceInv, LinkInv, HeardInv, OpenInv, RefuseInv, [PopOutNext]_popOutVars
    PROVE  RefuseInv'
<1> SUFFICES ASSUME Safe' PROVE RefuseNow'
  BY DEF RefuseInv
<1>0. Safe /\ PlaceNow /\ LinkNow /\ RefuseNow
  BY SafeBefore DEF PlaceInv, LinkInv, RefuseInv, Safe
<1>1. ASSUME NEW c \in adrift, AdriftLands(c) PROVE RefuseNow'
  BY <1>0, <1>1 DEF LinkNow
<1>2. CASE Moves
  <2>1. UNCHANGED alive
    BY <1>2, MovesLeave
  <2>2. CASE \A m \in Words : (steers[Owner][m])' = "none"
    BY <2>2 DEF RefuseNow
  <2>3. CASE /\ Owner' = Owner /\ copy'[Owner] = copy[Owner] /\ coming'[Owner] = coming[Owner]
    <3>1. Owner \in Window
      BY DEF Owner, Window
    <3>2. \A m \in Words : (steers[Owner][m])' = steers[Owner][m] \/ (steers[Owner][m])' = "none"
      BY <1>2, <2>3, <3>1, MovesLeave
    <3> QED BY <1>0, <2>1, <2>3, <3>2 DEF RefuseNow
  <2> QED BY <1>0, <1>2, <2>2, <2>3, MovesSettle
<1>3. CASE UNCHANGED popOutVars
  BY <1>0, <1>3 DEF RefuseNow, popOutVars, sessionVars, moveVars, callVars, Owner
<1> QED BY <1>0, <1>1, <1>2, <1>3, RefuseSession, RefuseCalls, RefuseUses, RefuseHears, PopOutKinds

LEMMA FlowCalls ==
    ASSUME PopTyped, PlaceNow, LinkNow, FlowNow, NEW w \in Window,
           Interrupt(w) \/ Awaited(w) \/ SendLands(w) \/ SendReplies(w)
    PROVE  FlowNow'
<1>0. SessionTyped /\ CallTyped
  BY DEF PopTyped
<1>1. CASE Interrupt(w)
  BY <1>0, <1>1, InterruptDoes, FlowActs, ActsOwner
<1>2. CASE Awaited(w)
  BY <1>0, <1>2, AwaitedDoes, FlowActs, ActsOwner
<1>3. CASE SendLands(w)
  BY <1>0, <1>3, SendLandsDoes, FlowActs, ActsOwner
<1>4. CASE SendReplies(w)
  BY <1>0, <1>4, SendRepliesDoes, FlowActs, ActsOwner
<1> QED BY <1>1, <1>2, <1>3, <1>4

LEMMA FlowUses ==
    ASSUME PopTyped, PopTyped', PlaceNow, LinkNow, HeardInv, RefuseNow, FlowNow,
           NEW w \in Window, NEW m \in Words,
           \/ Enqueue(w, m) \/ SteerQueued(w, m) \/ RemoveQueued(w, m)
           \/ SteerLands(w, m) \/ SteerRefused(w, m)
    PROVE  FlowNow'
<1>0. SessionTyped /\ CallTyped /\ CallTyped'
  BY DEF PopTyped
<1>1. ASSUME Tries(w), w = Owner, Owner' = Owner PROVE FlowNow'
  <2>1. Free(copy'[w]) => draining'[w] # NoCall
    BY <1>1 DEF Tries
  <2> QED BY <1>1, <2>1, FlowActs
<1>2. CASE Enqueue(w, m)
  BY <1>0, <1>1, <1>2, EnqueueDoes, ActsOwner
<1>3. CASE SteerQueued(w, m)
  <2>1. Shows(w) /\ UNCHANGED moveVars /\ KnowsSame(w) /\ (Tries(w) \/ copy[w].working)
    BY <1>0, <1>3, SteerDoes
  <2>2. w = Owner /\ Owner' = Owner
    BY <2>1, ActsOwner
  <2>3. CASE copy[w].working
    <3>1. ~Free(copy'[w])
      BY <2>1, <2>3 DEF KnowsSame, Free
    <3> QED BY <2>2, <3>1, FlowActs
  <2> QED BY <1>1, <2>1, <2>2, <2>3
<1>4. CASE RemoveQueued(w, m)
  BY <1>0, <1>1, <1>4, RemoveDoes, ActsOwner
<1>5. CASE SteerLands(w, m)
  <2>1. UNCHANGED <<copy, moveVars, draining, left>> /\ Calling(w) /\ (alive \/ UNCHANGED coming)
    BY <1>0, <1>5, SteerLandsDoes DEF Gets, sessionVars
  <2>2. w = Owner /\ Owner' = Owner
    BY <2>1, ActsOwner
  <2>3. alive => ~Exiting(w)
    BY DEF HeardInv, Exiting
  <2> QED BY <2>1, <2>2, <2>3 DEF FlowNow, Exiting
<1>6. CASE SteerRefused(w, m)
  <2>1. /\ UNCHANGED <<alive, coming, moveVars, draining, left>> /\ Calling(w) /\ steers[w][m] = "no"
        /\ KnowsSame(w) /\ copy'[w].held = copy[w].held
        /\ \A x \in Words :
              Plain(copy'[w].queue, x)
                 <=> IF x = m THEN InQueue(copy[w].queue, x) ELSE Plain(copy[w].queue, x)
    BY <1>0, <1>6, SteerRefusedDoes DEF sessionVars
  <2>2. w = Owner /\ Owner' = Owner
    BY <2>1, ActsOwner
  <2>3. copy[w] \in PaneCopies /\ copy'[w] \in PaneCopies /\ copy'[w].working = copy[w].working
    BY <1>0, <2>1 DEF CallTyped, KnowsSame
  <2>4. CASE Marked(copy[w].queue, m)
    <3>1. ~alive
      BY <2>1 DEF HeardInv
    <3>2. CASE copy[w].working
      <4>1. ~Free(copy'[w])
        BY <2>3, <3>2 DEF Free
      <4> QED BY <2>2, <4>1, FlowActs
    <3>3. CASE ~copy[w].working
      <4>1. coming[w] # <<>>
        BY <2>1, <2>2, <2>4, <3>1, <3>3 DEF RefuseNow
      <4>2. coming[w] \in Seq(Signals)
        BY <1>0 DEF SessionTyped
      <4>3. Len(coming[w]) \in DOMAIN coming[w]
        BY <4>1, <4>2, SignalTail
      <4>4. Exiting(w)
        BY <3>1, <4>1, <4>3 DEF HeardInv, Exiting
      <4> QED BY <2>1, <2>2, <4>4 DEF FlowNow, Exiting
    <3> QED BY <3>2, <3>3
  <2>5. CASE ~Marked(copy[w].queue, m)
    <3>1. \A x \in Words : Plain(copy'[w].queue, x) <=> Plain(copy[w].queue, x)
      BY <2>1, <2>5 DEF InQueue
    <3>2. Free(copy'[w]) <=> Free(copy[w])
      BY <2>1, <2>3, <3>1, FreeIs
    <3> QED BY <2>1, <2>2, <3>2 DEF FlowNow, Exiting
  <2> QED BY <2>4, <2>5
<1> QED BY <1>2, <1>3, <1>4, <1>5, <1>6

LEMMA FlowStep ==
    ASSUME PopTyped, PlaceInv, LinkInv, HeardInv, OpenInv, RefuseInv, FlowInv, [PopOutNext]_popOutVars
    PROVE  FlowInv'
<1> SUFFICES ASSUME Safe' PROVE FlowNow'
  BY DEF FlowInv
<1>0. Safe /\ PlaceNow /\ PlaceNow' /\ LinkNow /\ RefuseNow /\ FlowNow /\ PopTyped'
  BY SafeBefore, PlaceStep, TypedStep DEF PlaceInv, LinkInv, RefuseInv, FlowInv, Safe
<1>1. ASSUME NEW c \in adrift, AdriftLands(c) PROVE FlowNow'
  BY <1>0, <1>1 DEF LinkNow
<1>2. CASE Moves
  <2>1. (draining[Owner])' = draining[Owner]
    BY <1>0, <1>2, MovesFollow DEF Follows
  <2> QED BY <1>0, <1>2, <2>1, MovesSettle DEF FlowNow, Exiting
<1>3. CASE UNCHANGED popOutVars
  BY <1>0, <1>3 DEF FlowNow, popOutVars, sessionVars, moveVars, callVars, Owner, Exiting
<1> QED BY <1>0, <1>1, <1>2, <1>3, FlowSession, FlowCalls, FlowUses, FlowHears, PopOutKinds

-----------------------------------------------------------------------------
(* What was sent, and what is kept.                                        *)

\* What the user wrote was given to the session, once, or is kept, or a finished turn
\* took it off the queue while its steer was on its way.
KeepNow ==
    /\ \A m \in Words : taken[m] <= 1
    /\ \A m \in Words : InQueue(Kept, m) => m \in written
    /\ \A m \in written : taken[m] = 1 \/ m \in dropped \/ InQueue(Kept, m)
    /\ \A m \in Words : Marked(Kept, m) => taken[m] >= 1 \/ steers[Owner][m] # "none"
    /\ \A m \in Words : ~(Plain(Kept, m) /\ Marked(Kept, m))

\* What is on its way to the session, and what waits, was not given to it.
SendNow ==
    /\ draining[Owner].stage \in {"waiting", "going"} =>
          taken[draining[Owner].word] = 0 /\ steers[Owner][draining[Owner].word] = "none"
    /\ \A m \in Words : steers[Owner][m] # "none" => taken[m] = 0 /\ ~Plain(Kept, m) /\ m \in written
    /\ \A m \in Words : Plain(Kept, m) => taken[m] = 0 \/ draining[Owner] = [word |-> m, stage |-> "yes"]

KeepInv == Safe => KeepNow
SendInv == Safe /\ alive => SendNow


LEMMA KeepInit == PopOutInit => KeepInv /\ SendInv
<1> SUFFICES ASSUME PopOutInit PROVE KeepNow /\ SendNow
  BY DEF KeepInv, SendInv
<1>1. Owner \in Window /\ ~out
  BY DEF Owner, Window, PopOutInit
<1>2. Kept = <<>>
  BY <1>1 DEF Kept, PopOutInit, Blank, Window
<1>3. \A m \in Words : ~Plain(Kept, m) /\ ~Marked(Kept, m)
  BY <1>2, EmptyItems DEF InQueue
<1>4. /\ \A m \in Words : taken[m] = 0 /\ steers[Owner][m] = "none"
      /\ written = {} /\ draining[Owner].stage = "none"
  BY <1>1 DEF PopOutInit, NoCall
<1> QED BY <1>3, <1>4 DEF KeepNow, SendNow, InQueue

\* A window acts on the queue it has.
LEMMA ActsAt ==
    ASSUME PopTyped, PlaceNow, LinkNow, NEW w \in Window, Shows(w) \/ Calling(w), UNCHANGED moveVars
    PROVE  /\ w = Owner /\ Owner' = Owner
           /\ Kept = copy[w].queue /\ Kept' = copy'[w].queue
<1>0. FrontInv
  BY DEF PopTyped
<1>1. w = Owner /\ Owner' = Owner /\ (~out \/ Runs)
  BY <1>0, ActsOwner, ActsWhere DEF Window
<1>2. Kept = copy[Owner].queue
  BY <1>0, <1>1, OwnerKept
<1>3. Kept' = (copy[Owner].queue)'
  BY <1>0, <1>1, KeptThen
<1> QED BY <1>1, <1>2, <1>3

\* Nothing happens to the queue, nor to what is on its way.
LEMMA KeepStays ==
    ASSUME PopTyped, KeepNow, alive' => alive /\ SendNow, Follows, UNCHANGED taken, UNCHANGED written,
           dropped \subseteq dropped'
    PROVE  KeepNow' /\ (alive' => SendNow')
<1>1. /\ Kept' = Kept /\ (draining[Owner])' = draining[Owner]
      /\ \A m \in Words : (steers[Owner][m])' = steers[Owner][m]
  BY DEF Follows
<1>2. \A m : (Plain(Kept, m))' = Plain(Kept, m) /\ (Marked(Kept, m))' = Marked(Kept, m)
  BY <1>1 DEF Plain, Marked
<1>3. KeepNow'
  BY <1>1, <1>2 DEF KeepNow, InQueue
<1>4. ASSUME SendNow PROVE SendNow'
  <2>1. draining[Owner].stage \in {"waiting", "going"} => draining[Owner].word \in Words
    BY DrainTyped DEF PopTyped, Owner, Window, NoCall
  <2> QED BY <1>1, <1>2, <1>4, <2>1 DEF SendNow
<1> QED BY <1>3, <1>4

\* The queue is tried, and a message of it may be on its way.
LEMMA TriesSend ==
    ASSUME PopTyped, NEW w \in Window, w = Owner, Owner' = w, Tries(w) \/ draining' = draining,
           UNCHANGED <<taken, steers>>, SendNow,
           \A m \in Words : Plain(Kept', m) => taken[m] = 0 \/ draining[w] = [word |-> m, stage |-> "yes"],
           \A m \in Words : Plain(Kept', m) => steers[w][m] = "none",
           \A m \in Words : steers[w][m] # "none" => m \in written',
           Kept' = copy'[w].queue
    PROVE  SendNow'
<1>0. CallTyped
  BY DEF PopTyped
<1>1. CASE draining'[w] = draining[w]
  <2>1. (draining[Owner])' = draining[w] /\ \A m \in Words : (steers[Owner][m])' = steers[w][m]
    BY <1>1
  <2> QED BY <2>1 DEF SendNow
<1>2. CASE /\ draining[w] = NoCall
           /\ draining'[w].word \in Words /\ Plain(copy'[w].queue, draining'[w].word)
           /\ draining'[w].stage \in {"waiting", "going", "no"}
  <2>1. \A m \in Words : draining[w] # [word |-> m, stage |-> "yes"]
    <3>1. draining[w].stage = "none"
      BY <1>2 DEF NoCall
    <3>2. \A m \in Words : [word |-> m, stage |-> "yes"].stage = "yes"
      OBVIOUS
    <3> QED BY <3>1, <3>2
  <2>2. /\ (draining[Owner])' = draining'[w]
        /\ \A m \in Words : (steers[Owner][m])' = steers[w][m]
    OBVIOUS
  <2>3. \A m \in Words : Plain(Kept', m) => taken[m] = 0
    BY <2>1
  <2>4. steers[w][draining'[w].word] = "none" /\ taken[draining'[w].word] = 0
    BY <1>2, <2>3
  <2> QED BY <1>2, <2>2, <2>3, <2>4 DEF SendNow
<1> QED BY <1>1, <1>2 DEF Tries

LEMMA KeepUses ==
    ASSUME PopTyped, PlaceNow, LinkNow, KeepNow, alive => SendNow, Safe', NEW w \in Window, NEW m \in Words,
           Enqueue(w, m) \/ SteerQueued(w, m) \/ RemoveQueued(w, m)
    PROVE  KeepNow' /\ (alive' => SendNow')
<1>0. SessionTyped /\ CallTyped /\ written \subseteq Words
  BY DEF PopTyped, SessionTyped
<1>1. CASE Enqueue(w, m)
  <2>1. /\ UNCHANGED <<sessionVars, moveVars, dropped, steers>>
        /\ Tries(w) /\ Shows(w) /\ m \notin written /\ taken[m] = 0 /\ written' = written \cup {m}
        /\ \A x \in Words :
              /\ Plain(copy'[w].queue, x) <=> Plain(copy[w].queue, x) \/ x = m
              /\ Marked(copy'[w].queue, x) <=> Marked(copy[w].queue, x)
    BY <1>0, <1>1, EnqueueDoes
  <2>2. w = Owner /\ Owner' = Owner /\ Kept = copy[w].queue /\ Kept' = copy'[w].queue
    BY <2>1, ActsAt
  <2>3. \A x \in Words : /\ Plain(Kept', x) <=> Plain(Kept, x) \/ x = m
                         /\ Marked(Kept', x) <=> Marked(Kept, x)
    BY <2>1, <2>2
  <2>4. UNCHANGED <<taken, dropped, alive>>
    BY <2>1 DEF sessionVars
  <2>5. \A x \in Words : (steers[Owner][x])' = steers[Owner][x]
    BY <2>1, <2>2
  <2>6. ~InQueue(Kept, m)
    BY <2>1 DEF KeepNow
  <2>7. KeepNow'
    BY <1>0, <2>1, <2>3, <2>4, <2>5, <2>6 DEF KeepNow, InQueue
  <2>8. ASSUME alive PROVE SendNow'
    <3>1. SendNow
      BY <2>8
    <3>2. \A x \in Words : Plain(Kept', x) => taken[x] = 0 \/ draining[w] = [word |-> x, stage |-> "yes"]
      BY <2>1, <2>2, <2>3, <3>1 DEF SendNow
    <3>3. \A x \in Words : Plain(Kept', x) => steers[w][x] = "none"
      BY <2>1, <2>2, <2>3, <3>1 DEF SendNow
    <3>4. \A x \in Words : steers[w][x] # "none" => x \in written'
      BY <2>1, <2>2, <3>1 DEF SendNow
    <3> QED BY <2>1, <2>2, <2>4, <3>1, <3>2, <3>3, <3>4, TriesSend
  <2> QED BY <2>4, <2>7, <2>8
<1>2. CASE RemoveQueued(w, m)
  <2>1. /\ UNCHANGED <<sessionVars, moveVars, dropped, steers>>
        /\ Tries(w) /\ Shows(w) /\ Plain(copy[w].queue, m) /\ written' = written \ {m}
        /\ \A x \in Words :
              /\ Plain(copy'[w].queue, x) <=> Plain(copy[w].queue, x) /\ x # m
              /\ Marked(copy'[w].queue, x) <=> Marked(copy[w].queue, x)
    BY <1>0, <1>2, RemoveDoes
  <2>2. w = Owner /\ Owner' = Owner /\ Kept = copy[w].queue /\ Kept' = copy'[w].queue
    BY <2>1, ActsAt
  <2>3. /\ Plain(Kept, m)
        /\ \A x \in Words : /\ Plain(Kept', x) <=> Plain(Kept, x) /\ x # m
                            /\ Marked(Kept', x) <=> Marked(Kept, x)
    BY <2>1, <2>2
  <2>4. UNCHANGED <<taken, dropped, alive>>
    BY <2>1 DEF sessionVars
  <2>5. \A x \in Words : (steers[Owner][x])' = steers[Owner][x]
    BY <2>1, <2>2
  <2>6. ~Marked(Kept, m)
    BY <2>3 DEF KeepNow
  <2>7. KeepNow'
    BY <1>0, <2>1, <2>3, <2>4, <2>5, <2>6 DEF KeepNow, InQueue
  <2>8. ASSUME alive PROVE SendNow'
    <3>1. SendNow
      BY <2>8
    <3>2. \A x \in Words : Plain(Kept', x) => taken[x] = 0 \/ draining[w] = [word |-> x, stage |-> "yes"]
      BY <2>2, <2>3, <3>1 DEF SendNow
    <3>3. \A x \in Words : Plain(Kept', x) => steers[w][x] = "none"
      BY <2>2, <2>3, <3>1 DEF SendNow
    <3>4. \A x \in Words : steers[w][x] # "none" => x \in written'
      BY <2>1, <2>2, <2>3, <3>1 DEF SendNow
    <3> QED BY <2>1, <2>2, <2>4, <3>1, <3>2, <3>3, <3>4, TriesSend
  <2> QED BY <2>4, <2>7, <2>8
<1>3. CASE SteerQueued(w, m)
  <2>1. /\ UNCHANGED <<sessionVars, moveVars, dropped, written>> /\ Shows(w) /\ Plain(copy[w].queue, m)
        /\ \/ /\ Tries(w) /\ UNCHANGED <<steers, torn>>
              /\ \A x \in Words :
                    /\ Plain(copy'[w].queue, x) <=> Plain(copy[w].queue, x)
                    /\ Marked(copy'[w].queue, x) <=> Marked(copy[w].queue, x) /\ x # m
           \/ /\ draining' = draining
              /\ torn' = (torn \/ draining[w].word = m)
              /\ steers'[w][m] = "going" /\ \A x \in Words \ {m} : steers'[w][x] = steers[w][x]
              /\ \A x \in Words :
                    /\ Plain(copy'[w].queue, x) <=> Plain(copy[w].queue, x) /\ x # m
                    /\ Marked(copy'[w].queue, x) <=> Marked(copy[w].queue, x) \/ x = m
    BY <1>0, <1>3, SteerDoes
  <2>2. w = Owner /\ Owner' = Owner /\ Kept = copy[w].queue /\ Kept' = copy'[w].queue
    BY <2>1, ActsAt
  <2>3. UNCHANGED <<taken, dropped, alive>> /\ written' = written /\ Plain(Kept, m)
    BY <2>1, <2>2 DEF sessionVars
  <2>4. CASE /\ Tries(w) /\ UNCHANGED <<steers, torn>>
             /\ \A x \in Words :
                   /\ Plain(copy'[w].queue, x) <=> Plain(copy[w].queue, x)
                   /\ Marked(copy'[w].queue, x) <=> Marked(copy[w].queue, x) /\ x # m
    <3>1. \A x \in Words : /\ Plain(Kept', x) <=> Plain(Kept, x)
                           /\ Marked(Kept', x) <=> Marked(Kept, x) /\ x # m
      BY <2>2, <2>4
    <3>2. \A x \in Words : (steers[Owner][x])' = steers[Owner][x]
      BY <2>2, <2>4
    <3>3. KeepNow'
      BY <1>0, <2>3, <3>1, <3>2 DEF KeepNow, InQueue
    <3>4. ASSUME alive PROVE SendNow'
      <4>1. SendNow
        BY <3>4
      <4>2. \A x \in Words : Plain(Kept', x) => taken[x] = 0 \/ draining[w] = [word |-> x, stage |-> "yes"]
        BY <2>2, <3>1, <4>1 DEF SendNow
      <4>3. \A x \in Words : Plain(Kept', x) => steers[w][x] = "none"
        BY <2>2, <3>1, <4>1 DEF SendNow
      <4>4. \A x \in Words : steers[w][x] # "none" => x \in written'
        BY <2>2, <2>3, <4>1 DEF SendNow
      <4> QED BY <2>2, <2>3, <2>4, <4>1, <4>2, <4>3, <4>4, TriesSend
    <3> QED BY <2>3, <3>3, <3>4
  <2>5. CASE /\ draining' = draining
             /\ torn' = (torn \/ draining[w].word = m)
             /\ steers'[w][m] = "going" /\ \A x \in Words \ {m} : steers'[w][x] = steers[w][x]
             /\ \A x \in Words :
                   /\ Plain(copy'[w].queue, x) <=> Plain(copy[w].queue, x) /\ x # m
                   /\ Marked(copy'[w].queue, x) <=> Marked(copy[w].queue, x) \/ x = m
    <3>1. \A x \in Words : /\ Plain(Kept', x) <=> Plain(Kept, x) /\ x # m
                           /\ Marked(Kept', x) <=> Marked(Kept, x) \/ x = m
      BY <2>2, <2>5
    <3>2. /\ (steers[Owner][m])' = "going"
          /\ \A x \in Words \ {m} : (steers[Owner][x])' = steers[Owner][x]
      BY <2>2, <2>5
    <3>3. draining[Owner].word # m /\ (draining[Owner])' = draining[Owner]
      BY <2>2, <2>5 DEF Safe
    <3>4. KeepNow'
      BY <1>0, <2>3, <3>1, <3>2 DEF KeepNow, InQueue
    <3>5. ASSUME alive PROVE SendNow'
      <4>1. SendNow
        BY <3>5
      <4>2. taken[m] = 0 /\ m \in written
        <5>1. draining[Owner] # [word |-> m, stage |-> "yes"]
          BY <3>3
        <5> QED BY <2>3, <4>1, <5>1 DEF SendNow, KeepNow, InQueue
      <4>3. draining[Owner].stage \in {"waiting", "going"} => draining[Owner].word \in Words
        BY <1>0, <2>2, DrainTyped
      <4> QED BY <2>3, <3>1, <3>2, <3>3, <4>1, <4>2, <4>3 DEF SendNow
    <3> QED BY <2>3, <3>4, <3>5
  <2> QED BY <2>1, <2>4, <2>5
<1> QED BY <1>1, <1>2, <1>3

\* A call of the window that shows the pane leaves its record alone.
LEMMA CallsAt ==
    ASSUME PopTyped, PlaceNow, LinkNow, NEW w \in Window, Shows(w) \/ Calling(w), UNCHANGED moveVars,
           copy'[w].queue = copy[w].queue
    PROVE  /\ w = Owner /\ Owner' = Owner /\ Kept' = Kept
           /\ \A m \in Words : Plain(Kept', m) = Plain(Kept, m) /\ Marked(Kept', m) = Marked(Kept, m)
  BY ActsAt

LEMMA KeepAwaits ==
    ASSUME PopTyped, PlaceNow, LinkNow, KeepNow, alive => SendNow, NEW w \in Window,
           Interrupt(w) \/ Awaited(w)
    PROVE  KeepNow' /\ (alive' => SendNow')
<1>0. SessionTyped /\ CallTyped
  BY DEF PopTyped
<1>1. CASE Interrupt(w)
  <2>1. /\ UNCHANGED <<sessionVars, moveVars, dropped, steers, draining, written>> /\ Shows(w)
        /\ copy'[w].queue = copy[w].queue
    BY <1>0, <1>1, InterruptDoes
  <2>2. w = Owner /\ Owner' = Owner /\ Kept' = Kept
    BY <2>1, CallsAt
  <2>3. Follows /\ UNCHANGED <<taken, alive>>
    BY <2>1, <2>2 DEF Follows, sessionVars
  <2> QED BY <2>1, <2>3, KeepStays
<1>2. CASE Awaited(w)
  <2>1. /\ UNCHANGED <<sessionVars, moveVars, dropped, steers, copy, written>> /\ Calling(w)
        /\ draining[w].stage = "waiting"
        /\ draining'[w].word = draining[w].word /\ draining'[w].stage \in {"going", "no"}
    BY <1>0, <1>2, AwaitedDoes
  <2>2. /\ w = Owner /\ Owner' = Owner /\ Kept' = Kept
        /\ \A m \in Words : Plain(Kept', m) = Plain(Kept, m) /\ Marked(Kept', m) = Marked(Kept, m)
    BY <2>1, CallsAt
  <2>3. /\ UNCHANGED <<taken, alive, written, dropped>>
        /\ \A m \in Words : (steers[Owner][m])' = steers[Owner][m]
    BY <2>1, <2>2 DEF sessionVars
  <2>4. KeepNow'
    BY <1>0, <2>2, <2>3 DEF KeepNow, InQueue, SessionTyped
  <2>5. ASSUME alive PROVE SendNow'
    <3>1. \A m \in Words : draining[Owner] # [word |-> m, stage |-> "yes"]
      <4>1. \A m \in Words : [word |-> m, stage |-> "yes"].stage = "yes"
        OBVIOUS
      <4> QED BY <2>1, <2>2, <4>1
    <3>2. draining[w].word \in Words
      BY <1>0, <2>1, DrainTyped DEF NoCall
    <3>3. /\ (draining[Owner])'.word = draining[Owner].word
          /\ (steers[Owner][draining[Owner].word])' = steers[Owner][draining[Owner].word]
      BY <2>1, <2>2
    <3>4. SendNow
      BY <2>5
    <3> QED BY <2>1, <2>2, <2>3, <3>1, <3>2, <3>3, <3>4 DEF SendNow
  <2> QED BY <2>3, <2>4, <2>5
<1> QED BY <1>1, <1>2

LEMMA KeepSends ==
    ASSUME PopTyped, PlaceNow, LinkNow, HeardInv, KeepNow, alive => SendNow, NEW w \in Window,
           SendLands(w) \/ SendReplies(w)
    PROVE  KeepNow' /\ (alive' => SendNow')
<1>0. SessionTyped /\ CallTyped /\ taken \in [Words -> 0 .. 2] /\ written \subseteq Words
  BY DEF PopTyped, SessionTyped
<1>1. CASE SendLands(w)
  <2> DEFINE x == draining[w].word
  <2>1. /\ UNCHANGED <<moveVars, dropped, steers, copy, written>> /\ Calling(w)
        /\ draining[w].stage = "going" /\ x \in Words
        /\ \/ Gets(x, "send") /\ draining'[w] = [word |-> x, stage |-> "yes"]
           \/ /\ ~alive /\ UNCHANGED sessionVars
              /\ draining'[w] = [word |-> x, stage |-> "no"]
    BY <1>0, <1>1, SendLandsDoes
  <2>2. /\ w = Owner /\ Owner' = Owner
        /\ \A m \in Words : Plain(Kept', m) = Plain(Kept, m) /\ Marked(Kept', m) = Marked(Kept, m)
    BY <2>1, CallsAt
  <2>3. /\ \A m \in Words : (steers[Owner][m])' = steers[Owner][m]
        /\ UNCHANGED <<dropped, written>>
    BY <2>1, <2>2
  <2> HIDE DEF x
  <2>4. CASE Gets(x, "send") /\ draining'[w] = [word |-> x, stage |-> "yes"]
    <3>1. alive /\ SendNow /\ \A m \in Words \ {x} : taken'[m] = taken[m]
      BY <2>4 DEF Gets
    <3>2. taken[x] = 0 /\ steers[Owner][x] = "none"
      BY <2>1, <2>2, <3>1 DEF SendNow, x
    <3>3. taken'[x] = 1
      BY <2>4, <3>2 DEF Gets
    <3>4. KeepNow'
      BY <1>0, <2>1, <2>2, <2>3, <3>1, <3>2, <3>3 DEF KeepNow, InQueue
    <3>5. \A m \in Words : draining[w] # [word |-> m, stage |-> "yes"]
      <4>1. \A m \in Words : [word |-> m, stage |-> "yes"].stage = "yes"
        OBVIOUS
      <4> QED BY <2>1, <4>1
    <3>6. (draining[Owner])' = [word |-> x, stage |-> "yes"] /\ (draining[Owner])'.stage = "yes"
      BY <2>2, <2>4
    <3>7. SendNow'
      BY <2>1, <2>2, <2>3, <3>1, <3>2, <3>5, <3>6 DEF SendNow
    <3> QED BY <3>4, <3>7
  <2>5. CASE ~alive /\ UNCHANGED sessionVars
    <3>1. ~alive' /\ UNCHANGED taken
      BY <2>5 DEF sessionVars
    <3>2. KeepNow'
      BY <1>0, <2>2, <2>3, <3>1 DEF KeepNow, InQueue
    <3> QED BY <3>1, <3>2
  <2> QED BY <2>1, <2>4, <2>5
<1>2. CASE SendReplies(w)
  <2> DEFINE x == draining[w].word
  <2>1. /\ UNCHANGED <<sessionVars, moveVars, dropped, steers, written>> /\ Calling(w)
        /\ draining'[w] = NoCall /\ x \in Words
        /\ \/ /\ draining[w].stage = "yes"
              /\ \A m \in Words :
                    /\ Plain(copy'[w].queue, m) <=> Plain(copy[w].queue, m) /\ m # x
                    /\ Marked(copy'[w].queue, m) <=> Marked(copy[w].queue, m) /\ m # x
           \/ draining[w].stage = "no" /\ copy'[w].queue = copy[w].queue
    BY <1>0, <1>2, SendRepliesDoes
  <2>2. w = Owner /\ Owner' = Owner /\ Kept = copy[w].queue /\ Kept' = copy'[w].queue
    BY <2>1, ActsAt
  <2>3. /\ \A m \in Words : (steers[Owner][m])' = steers[Owner][m]
        /\ UNCHANGED <<dropped, written, taken, alive>>
    BY <2>1, <2>2 DEF sessionVars
  <2>4. /\ \A m \in Words : /\ Plain(Kept', m) => Plain(Kept, m)
                            /\ Marked(Kept', m) => Marked(Kept, m)
        /\ \A m \in Words : InQueue(Kept', m) <=> InQueue(Kept, m) /\ (draining[w].stage = "no" \/ m # x)
        /\ draining[w].stage = "no" \/ ~Plain(Kept', x)
        /\ draining[w].stage \in {"yes", "no"}
    BY <2>1, <2>2 DEF InQueue
  <2>5. draining[w].stage = "no" \/ taken[x] = 1
    <3>1. CASE draining[w].stage = "yes"
      <4>1. taken[x] >= 1 /\ taken[x] <= 1 /\ taken[x] \in 0 .. 2
        BY <1>0, <2>1, <3>1 DEF HeardInv, KeepNow
      <4> QED BY <4>1
    <3> QED BY <2>4, <3>1
  <2> HIDE DEF x
  <2>6. KeepNow'
    BY <1>0, <2>3, <2>4, <2>5 DEF KeepNow, InQueue
  <2>7. ASSUME alive PROVE SendNow'
    <3>1. SendNow
      BY <2>7
    <3>2. (draining[Owner])'.stage = "none"
      BY <2>1, <2>2 DEF NoCall
    <3>3. ASSUME NEW m \in Words, Plain(Kept', m) PROVE taken[m] = 0
      <4>1. draining[Owner] # [word |-> m, stage |-> "yes"]
        <5>1. [word |-> m, stage |-> "yes"].stage = "yes" /\ [word |-> m, stage |-> "yes"].word = m
          OBVIOUS
        <5> QED BY <2>2, <2>4, <3>3, <5>1 DEF x
      <4> QED BY <2>4, <3>1, <3>3, <4>1 DEF SendNow
    <3> QED BY <2>3, <2>4, <3>1, <3>2, <3>3 DEF SendNow
  <2> QED BY <2>3, <2>6, <2>7
<1> QED BY <1>1, <1>2

LEMMA KeepSteers ==
    ASSUME PopTyped, PlaceNow, LinkNow, HeardInv, KeepNow, alive => SendNow,
           NEW w \in Window, NEW m \in Words, SteerLands(w, m) \/ SteerRefused(w, m)
    PROVE  KeepNow' /\ (alive' => SendNow')
<1>0. SessionTyped /\ CallTyped /\ taken \in [Words -> 0 .. 2] /\ written \subseteq Words
  BY DEF PopTyped, SessionTyped
<1>1. CASE SteerLands(w, m)
  <2>1. /\ UNCHANGED <<moveVars, dropped, draining, copy, written>> /\ Calling(w)
        /\ steers[w][m] = "going"
        /\ \A x \in Words \ {m} : steers'[w][x] = steers[w][x]
        /\ \/ Gets(m, "steer") /\ steers'[w][m] = "none"
           \/ ~alive /\ UNCHANGED sessionVars /\ steers'[w][m] = "no"
    BY <1>0, <1>1, SteerLandsDoes
  <2>2. /\ w = Owner /\ Owner' = Owner
        /\ \A x \in Words : Plain(Kept', x) = Plain(Kept, x) /\ Marked(Kept', x) = Marked(Kept, x)
    BY <2>1, CallsAt
  <2>3. /\ \A x \in Words \ {m} : (steers[Owner][x])' = steers[Owner][x]
        /\ (steers[Owner][m])' = steers'[w][m] /\ steers[Owner][m] = "going"
        /\ (draining[Owner])' = draining[Owner]
        /\ UNCHANGED <<dropped, written>>
    BY <2>1, <2>2
  <2>4. CASE Gets(m, "steer") /\ steers'[w][m] = "none"
    <3>1. alive /\ SendNow /\ \A x \in Words \ {m} : taken'[x] = taken[x]
      BY <2>4 DEF Gets
    <3>2. taken[m] = 0 /\ ~Plain(Kept, m)
      BY <2>3, <3>1 DEF SendNow
    <3>3. taken'[m] = 1
      BY <2>4, <3>2 DEF Gets
    <3>4. KeepNow'
      BY <1>0, <2>1, <2>2, <2>3, <3>1, <3>2, <3>3 DEF KeepNow, InQueue
    <3>5. draining[Owner].stage \in {"waiting", "going"} => draining[Owner].word \in Words \ {m}
      <4>1. draining[Owner].stage \in {"waiting", "going"} => draining[Owner].word \in Words
        BY <1>0, <2>2, DrainTyped DEF NoCall
      <4> QED BY <2>3, <3>1, <4>1 DEF SendNow
    <3>6. SendNow'
      BY <2>2, <2>3, <2>4, <3>1, <3>2, <3>5 DEF SendNow
    <3> QED BY <3>4, <3>6
  <2>5. CASE ~alive /\ UNCHANGED sessionVars /\ steers'[w][m] = "no"
    <3>1. ~alive' /\ UNCHANGED taken
      BY <2>5 DEF sessionVars
    <3>2. KeepNow'
      BY <1>0, <2>2, <2>3, <2>5, <3>1 DEF KeepNow, InQueue
    <3> QED BY <3>1, <3>2
  <2> QED BY <2>1, <2>4, <2>5
<1>2. CASE SteerRefused(w, m)
  <2>1. /\ UNCHANGED <<sessionVars, moveVars, dropped, written>> /\ Calling(w) /\ steers[w][m] = "no"
        /\ \A x \in Words \ {m} : steers'[w][x] = steers[w][x]
        /\ \A x \in Words :
              /\ Plain(copy'[w].queue, x)
                    <=> IF x = m THEN InQueue(copy[w].queue, x) ELSE Plain(copy[w].queue, x)
              /\ Marked(copy'[w].queue, x) <=> Marked(copy[w].queue, x) /\ x # m
    BY <1>0, <1>2, SteerRefusedDoes
  <2>2. w = Owner /\ Owner' = Owner /\ Kept = copy[w].queue /\ Kept' = copy'[w].queue
    BY <2>1, ActsAt
  <2>3. \A x \in Words : /\ Plain(Kept', x) <=> IF x = m THEN InQueue(Kept, x) ELSE Plain(Kept, x)
                         /\ Marked(Kept', x) <=> Marked(Kept, x) /\ x # m
    BY <2>1, <2>2
  <2>4. /\ \A x \in Words \ {m} : (steers[Owner][x])' = steers[Owner][x]
        /\ UNCHANGED <<dropped, written, taken, alive>>
    BY <2>1, <2>2 DEF sessionVars
  <2>5. ~alive'
    BY <2>1, <2>4 DEF HeardInv
  <2>6. KeepNow'
    BY <1>0, <2>3, <2>4 DEF KeepNow, InQueue
  <2> QED BY <2>5, <2>6
<1> QED BY <1>1, <1>2

\* What the window that shows the pane hears.
LEMMA KeepHears ==
    ASSUME PopTyped, PlaceNow, LinkNow, HeardInv, KeepNow, alive => SendNow, NEW w \in Window, Hear(w)
    PROVE  KeepNow' /\ (alive' => SendNow')
<1>0. SessionTyped /\ CallTyped /\ FrontInv /\ taken \in [Words -> 0 .. 2] /\ written \subseteq Words
      /\ dropped \subseteq Words
  BY DEF PopTyped, SessionTyped
<1> DEFINE e == Head(coming[w])
<1>1. /\ UNCHANGED <<alive, taken, steers, moveVars, written>> /\ coming[w] # <<>>
      /\ dropped' = IF e.is = "finished"
                    THEN dropped \cup {m \in Words : steers[w][m] # "none"} ELSE dropped
      /\ Elsewhere(w)
      /\ \/ UNCHANGED <<draining, left>>
         \/ ~QueueIsElsewhere(w) /\ Tries(w) /\ e.is = "finished"
      /\ HeardAs(w, e, copy[w].queue)
  BY <1>0, HearDoes
<1>2. Owner' = Owner /\ Owner \in Window
  BY <1>1 DEF moveVars, Owner, Window
<1>3. /\ 1 \in DOMAIN coming[w] /\ e = coming[w][1] /\ e \in Signals
  BY <1>0, <1>1, SignalTail DEF SessionTyped
<1>4. /\ e.is = "exit" => ~alive
      /\ e.is = "echo" => taken[e.word] >= 1 /\ e.word \in Words
  BY <1>3, SignalsAre DEF HeardInv
<1>5. CASE w = Owner /\ (w = "own" => Runs) /\ (w = "main" => ~out)
  <2>1. Kept = copy[w].queue /\ Kept' = copy'[w].queue
    <3>1. ~out \/ Runs
      BY <1>5 DEF Window
    <3>2. Kept = copy[Owner].queue
      BY <1>0, <3>1, OwnerKept
    <3>3. Kept' = (copy[Owner].queue)'
      BY <1>0, <1>1, <3>1, KeptThen
    <3> QED BY <1>2, <1>5, <3>2, <3>3
  <2>2. \A m \in Words : (steers[Owner][m])' = steers[Owner][m]
    BY <1>1, <1>2
  <2>3. \A m \in Words : InQueue(Kept', m) => InQueue(Kept, m)
    BY <1>1, <2>1 DEF HeardAs, InQueue
  <2>4. \A m \in Words : Marked(Kept', m) => Marked(Kept, m)
    BY <1>1, <2>1 DEF HeardAs
  <2>5. \A m \in Words : ~(Plain(Kept', m) /\ Marked(Kept', m))
    BY <1>1, <2>1 DEF HeardAs, KeepNow
  <2>6. \A m \in Words : InQueue(Kept, m) =>
            \/ InQueue(Kept', m)
            \/ e.is = "finished" /\ Marked(Kept, m)
            \/ e.is = "echo" /\ m = e.word
    BY <1>1, <2>1 DEF HeardAs, InQueue
  <2>7. \A m \in Words : InQueue(Kept, m) => InQueue(Kept', m) \/ taken[m] >= 1 \/ m \in dropped'
    <3>1. ASSUME NEW m \in Words, e.is = "finished", Marked(Kept, m) PROVE taken[m] >= 1 \/ m \in dropped'
      BY <1>1, <1>5, <3>1 DEF KeepNow
    <3> QED BY <1>4, <2>6, <3>1
  <2>8. dropped \subseteq dropped'
    BY <1>1
  <2> HIDE DEF e
  <2>9. KeepNow'
    BY <1>0, <1>1, <2>2, <2>3, <2>4, <2>5, <2>7, <2>8 DEF KeepNow
  <2>10. ASSUME alive PROVE SendNow'
    <3>1. SendNow
      BY <2>10
    <3>2. \A m \in Words : Plain(Kept', m) => Plain(Kept, m)
      BY <1>1, <1>4, <2>1, <2>10 DEF HeardAs
    <3>3. \A x \in Words : Plain(Kept', x) => taken[x] = 0 \/ draining[w] = [word |-> x, stage |-> "yes"]
      BY <1>5, <3>1, <3>2 DEF SendNow
    <3>4. \A x \in Words : Plain(Kept', x) => steers[w][x] = "none"
      BY <1>5, <3>1, <3>2 DEF SendNow
    <3>5. \A x \in Words : steers[w][x] # "none" => x \in written'
      BY <1>1, <1>5, <3>1 DEF SendNow
    <3>6. Tries(w) \/ draining' = draining
      BY <1>1
    <3> QED BY <1>1, <1>2, <1>5, <2>1, <3>1, <3>3, <3>4, <3>5, <3>6, TriesSend
  <2> QED BY <1>1, <2>9, <2>10
<1>6. CASE w = "main" /\ out
  <2>1. draining' = draining /\ (copy[Owner])' = copy[Owner]
    BY <1>1, <1>2, <1>6 DEF QueueIsElsewhere, Elsewhere, Owner
  <2>2. Kept' = Kept
    BY <1>0, <1>1, <2>1, KeptThen
  <2>3. Follows
    BY <1>1, <1>2, <2>1, <2>2 DEF Follows
  <2> QED BY <1>1, <2>3, KeepStays
<1> QED BY <1>0, <1>1, <1>5, <1>6, HearsWhere

\* The session's own steps.
LEMMA KeepSession ==
    ASSUME PopTyped, PlaceNow, OpenInv, Safe, KeepNow, alive => SendNow,
           TurnBegins \/ TurnEnds("finished") \/ TurnEnds("failed") \/ Exits \/ ClaimOrClose
    PROVE  KeepNow' /\ (alive' => SendNow')
<1>0. SessionTyped /\ CallTyped /\ FrontInv
  BY DEF PopTyped
<1>1. /\ UNCHANGED <<taken, written, callVars, moveVars, dropped>> /\ (alive' => alive)
  BY DEF TurnBegins, TurnEnds, Exits, ClaimOrClose, Alone
<1>2. Owner' = Owner
  BY <1>1 DEF moveVars, Owner
<1>3. Kept' = Kept
  <2>1. CASE ClaimOrClose
    <3>1. opening /\ copy' = [copy EXCEPT !["main"] = Attached(@)]
      BY <2>1 DEF ClaimOrClose
    <3>2. Owner = "main" /\ ~out
      BY <3>1 DEF OpenInv, Owner
    <3>3. copy'["main"] = Attached(copy["main"]) /\ copy["main"] \in PaneCopies
      BY <1>0, <3>1 DEF CallTyped, Window
    <3>4. copy'["main"].queue = copy["main"].queue
      BY <3>3 DEF Attached, PaneCopies
    <3>5. Kept = copy[Owner].queue /\ Kept' = (copy[Owner].queue)'
      BY <1>0, <1>1, <3>2, OwnerKept, KeptThen
    <3> QED BY <1>2, <3>2, <3>4, <3>5
  <2>2. CASE ~ClaimOrClose
    <3>1. UNCHANGED copy
      BY <2>2 DEF TurnBegins, TurnEnds, Exits, Alone
    <3> QED BY <1>0, <1>1, <1>2, <3>1, KeptThen
  <2> QED BY <2>1, <2>2
<1>4. Follows
  BY <1>1, <1>2, <1>3 DEF Follows, callVars
<1> QED BY <1>1, <1>4, KeepStays

LEMMA KeepStep ==
    ASSUME PopTyped, PlaceInv, LinkInv, HeardInv, OpenInv, KeepInv, SendInv, [PopOutNext]_popOutVars
    PROVE  KeepInv' /\ SendInv'
<1> SUFFICES ASSUME Safe' PROVE KeepNow' /\ (alive' => SendNow')
  BY DEF KeepInv, SendInv
<1>0. Safe /\ PlaceNow /\ PlaceNow' /\ LinkNow /\ KeepNow /\ (alive => SendNow) /\ PopTyped'
  BY SafeBefore, PlaceStep, TypedStep DEF PlaceInv, LinkInv, KeepInv, SendInv, Safe
<1>1. ASSUME NEW c \in adrift, AdriftLands(c) PROVE FALSE
  BY <1>0, <1>1 DEF LinkNow
<1>2. CASE Moves
  <2>1. Follows
    BY <1>0, <1>2, MovesFollow
  <2>2. UNCHANGED <<alive, taken, written, dropped>>
    BY <1>2, MovesLeave
  <2> QED BY <1>0, <2>1, <2>2, KeepStays
<1>3. CASE UNCHANGED popOutVars
  <2>1. UNCHANGED <<alive, taken, written, dropped, copy, callVars, moveVars>>
    BY <1>3 DEF popOutVars, sessionVars
  <2>2. FrontInv /\ Owner' = Owner
    BY <2>1 DEF PopTyped, Owner, moveVars
  <2>3. Kept' = Kept
    BY <1>0, <2>1, <2>2, KeptThen
  <2>4. Follows
    BY <2>1, <2>2, <2>3 DEF Follows, callVars
  <2> QED BY <1>0, <2>1, <2>4, KeepStays
<1>4. CASE TurnBegins \/ TurnEnds("finished") \/ TurnEnds("failed") \/ Exits \/ ClaimOrClose
  BY <1>0, <1>4, KeepSession
<1>5. CASE \E w \in Window : Interrupt(w) \/ Awaited(w) \/ SendLands(w) \/ SendReplies(w) \/ Hear(w)
  BY <1>0, <1>5, KeepAwaits, KeepSends, KeepHears
<1>6. CASE \E w \in Window, m \in Words :
              \/ Enqueue(w, m) \/ SteerQueued(w, m) \/ RemoveQueued(w, m)
              \/ SteerLands(w, m) \/ SteerRefused(w, m)
  BY <1>0, <1>6, KeepUses, KeepSteers
<1> QED BY <1>1, <1>2, <1>3, <1>4, <1>5, <1>6, PopOutKinds

-----------------------------------------------------------------------------
(* What the main window keeps of a pane that is out.                       *)

\* The main window's record has what waits in a queue, and nothing that is not in it.
Mirrors(q) ==
    \A m \in Words : /\ Plain(q, m) => Plain(copy["main"].queue, m)
                     /\ InQueue(copy["main"].queue, m) => InQueue(q, m)

MirrorNow ==
    inbox = <<>> => /\ \A i \in Pop : Goes(i) => Mirrors(popped[i].state.queue)
                    /\ frame # "none" => Mirrors(entry.queue)

MirrorInv == Safe => MirrorNow

LEMMA MirrorsSame ==
    ASSUME NEW q, copy["main"].queue = q
    PROVE  Mirrors(q)
  BY DEF Mirrors, InQueue

\* A pane that is in has nothing to be mirrored.
LEMMA MirrorIn == PlaceNow /\ ~out => MirrorNow
  BY DEF PlaceNow, MirrorNow

LEMMA MirrorBack ==
    ASSUME PlaceNow', ~out' PROVE MirrorNow'
  BY MirrorIn, PTL

LEMMA MirrorInit == PopOutInit => MirrorInv
  BY DEF PopOutInit, MirrorInv, MirrorNow, Goes

\* The main window's record of a pane that is out is changed by what it hears.
LEMMA MirrorStays ==
    ASSUME MirrorNow, UNCHANGED moveVars,
           \A m \in Words :
              /\ Plain(copy["main"].queue, m) => Plain(copy'["main"].queue, m)
              /\ InQueue(copy'["main"].queue, m) => InQueue(copy["main"].queue, m)
    PROVE  MirrorNow'
<1>1. UNCHANGED <<popped, entry, frame, inbox>>
  BY DEF moveVars
<1>3. ASSUME NEW q, Mirrors(q)
      PROVE  \A m \in Words : /\ Plain(q, m) => Plain(copy'["main"].queue, m)
                              /\ InQueue(copy'["main"].queue, m) => InQueue(q, m)
  BY <1>3 DEF Mirrors
<1> QED BY <1>1, <1>3 DEF MirrorNow, Goes, Mirrors

\* While the pane is out, only what the main window hears of the session touches its record.
LEMMA OthersActs ==
    ASSUME PopTyped, PlaceNow, LinkNow, out, NEW w \in Window, Shows(w) \/ Calling(w), Elsewhere(w)
    PROVE  copy'["main"] = copy["main"]
<1>1. w = "own"
  BY ActsWhere DEF PopTyped, Owner
<1> QED BY <1>1 DEF Elsewhere, Window

LEMMA MirrorCalls ==
    ASSUME PopTyped, PlaceNow, LinkNow, out, NEW w \in Window,
           Interrupt(w) \/ Awaited(w) \/ SendLands(w) \/ SendReplies(w)
    PROVE  copy'["main"] = copy["main"]
<1>0. SessionTyped /\ CallTyped
  BY DEF PopTyped
<1>1. (Shows(w) \/ Calling(w)) /\ Elsewhere(w)
  BY <1>0, InterruptDoes, AwaitedDoes, SendLandsDoes, SendRepliesDoes
<1> QED BY <1>1, OthersActs

LEMMA MirrorUses ==
    ASSUME PopTyped, PlaceNow, LinkNow, out, NEW w \in Window, NEW m \in Words,
           \/ Enqueue(w, m) \/ SteerQueued(w, m) \/ RemoveQueued(w, m)
           \/ SteerLands(w, m) \/ SteerRefused(w, m)
    PROVE  copy'["main"] = copy["main"]
<1>0. SessionTyped /\ CallTyped
  BY DEF PopTyped
<1>1. (Shows(w) \/ Calling(w)) /\ Elsewhere(w)
  BY <1>0, EnqueueDoes, SteerDoes, RemoveDoes, SteerLandsDoes, SteerRefusedDoes
<1> QED BY <1>1, OthersActs

LEMMA MirrorHears ==
    ASSUME PopTyped, out, NEW w \in Window, Hear(w)
    PROVE  \A m \in Words :
              /\ Plain(copy["main"].queue, m) => Plain(copy'["main"].queue, m)
              /\ InQueue(copy'["main"].queue, m) => InQueue(copy["main"].queue, m)
<1>0. SessionTyped /\ CallTyped
  BY DEF PopTyped
<1>1. Elsewhere(w) /\ HeardAs(w, Head(coming[w]), copy[w].queue)
  BY <1>0, HearDoes
<1>2. CASE w = "own"
  BY <1>1, <1>2 DEF Elsewhere, Window
<1>3. CASE w = "main"
  BY <1>1, <1>3 DEF HeardAs, QueueIsElsewhere, InQueue
<1> QED BY <1>2, <1>3 DEF Window

LEMMA MirrorPops ==
    ASSUME PopTyped, PlaceNow, PlaceNow', LinkNow, LinkNow', MirrorNow, NEW i \in Pop,
           PopOut(i) \/ Insert(i) \/ Build(i) \/ PopFails(i)
    PROVE  MirrorNow'
<1>0. MoveTyped /\ FrontInv /\ CallTyped
  BY DEF PopTyped
<1>1. CASE PopOut(i)
  <2>1. /\ UNCHANGED <<copy, frame>> /\ ~out
        /\ popped' = [popped EXCEPT ![i] = [stage |-> "going", state |-> StateOf("main")]]
    BY <1>1 DEF PopOut
  <2>2. popped'[i].state = StateOf("main") /\ \A j \in Pop \ {i} : popped'[j] = popped[j]
    BY <1>0, <2>1 DEF MoveTyped
  <2>3. frame' = "none" /\ \A j \in Pop \ {i} : ~Goes(j)'
    BY <2>1, <2>2 DEF PlaceNow, Goes
  <2>4. Mirrors(popped[i].state.queue)'
    BY <2>1, <2>2 DEF Mirrors, StateOf, InQueue
  <2> QED BY <2>3, <2>4 DEF MirrorNow
<1>2. ASSUME Insert(i) \/ Build(i)
      PROVE  /\ Goes(i) /\ UNCHANGED copy /\ inbox = <<>> /\ frame = "none"
             /\ \A j \in Pop \ {i} : ~Goes(j)
             /\ Mirrors(popped[i].state.queue)
  BY <1>2 DEF Insert, Build, Goes, PlaceNow, LinkNow, MirrorNow
<1>3. CASE Insert(i)
  <2>1. UNCHANGED frame /\ entry = NoState
    BY <1>2, <1>3 DEF Insert, PlaceNow, Goes
  <2>2. popped' = [popped EXCEPT ![i].stage = "building"]
    BY <1>2, <1>3, <2>1 DEF Insert
  <2>3. popped'[i].state = popped[i].state /\ \A j \in Pop \ {i} : popped'[j] = popped[j]
    BY <1>0, <2>2 DEF MoveTyped
  <2>4. Mirrors(popped[i].state.queue)'
    BY <1>2, <1>3, <2>3 DEF Mirrors
  <2> QED BY <1>2, <1>3, <2>1, <2>3, <2>4 DEF MirrorNow, Goes
<1>4. CASE Build(i)
  <2>1. CASE /\ frame' = "up" /\ UNCHANGED entry
             /\ popped' = [popped EXCEPT ![i] = [stage |-> "done", state |-> NoState]]
    <3>1. entry = popped[i].state
      BY <1>4 DEF Build, LinkNow
    <3>2. Mirrors(entry.queue)'
      BY <1>2, <1>4, <2>1, <3>1 DEF Mirrors
    <3>3. \A j \in Pop : ~Goes(j)'
      BY <2>1 DEF PlaceNow
    <3> QED BY <3>2, <3>3 DEF MirrorNow
  <2>2. CASE UNCHANGED frame /\ popped' = [popped EXCEPT ![i].stage = "failed"]
    <3>1. popped'[i].state = popped[i].state /\ \A j \in Pop \ {i} : popped'[j] = popped[j]
      BY <1>0, <2>2 DEF MoveTyped
    <3>2. Mirrors(popped[i].state.queue)'
      BY <1>2, <1>4, <3>1 DEF Mirrors
    <3> QED BY <1>2, <1>4, <2>2, <3>1, <3>2 DEF MirrorNow, Goes
  <2> QED BY <1>4, <2>1, <2>2 DEF Build
<1>5. CASE PopFails(i)
  <2>1. out /\ Returned(popped[i].state)
    BY <1>5 DEF PopFails, PlaceNow, Goes
  <2>2. ~out'
    BY <2>1 DEF Returned
  <2> QED BY <2>2, MirrorBack
<1> QED BY <1>1, <1>3, <1>4, <1>5

LEMMA MirrorWindow ==
    ASSUME PopTyped, PlaceNow, PlaceNow', LinkNow, LinkNow', MirrorNow, Safe',
           \/ Adopt \/ Lost \/ Wire \/ Reports \/ ReportLands \/ CloseRequested \/ CloseUnbuilt
           \/ Destroyed \/ HearWindow
    PROVE  MirrorNow'
<1>0. MoveTyped /\ FrontInv /\ CallTyped /\ SessionTyped
  BY DEF PopTyped
<1>1. CASE Adopt \/ Lost \/ Wire \/ Reports \/ CloseRequested
  <2>1. UNCHANGED <<popped, entry, inbox>> /\ (frame' # "none" => frame # "none")
        /\ copy'["main"] = copy["main"]
    BY <1>0, <1>1 DEF Adopt, Lost, Wire, Reports, CloseRequested, CallTyped, Window
  <2> QED BY <2>1 DEF MirrorNow, Mirrors, Goes
<1>2. CASE ReportLands
  <2>1. report # NoState /\ front = "wired"
    BY <1>2 DEF ReportLands, LinkNow
  <2>2. entry # NoState
    BY <1>0, <2>1, RunsOut DEF Runs
  <2>3. inbox' = Append(inbox, Word("synced", report)) /\ report \in State
    BY <1>0, <1>2, <2>1, <2>2 DEF ReportLands, MoveTyped
  <2>4. inbox' # <<>>
    BY <1>0, <2>3, InboxGrows
  <2> QED BY <2>4 DEF MirrorNow
<1>3. CASE CloseUnbuilt
  BY <1>3 DEF CloseUnbuilt, Safe
<1>4. CASE Destroyed
  <2>1. UNCHANGED popped /\ frame = "closing" /\ frame' = "none"
    BY <1>4 DEF Destroyed
  <2>2. \A i \in Pop : ~Goes(i)'
    BY <2>1 DEF PlaceNow, Goes
  <2> QED BY <2>1, <2>2 DEF MirrorNow
<1>5. CASE HearWindow
  <2>1. /\ UNCHANGED <<popped, entry, frame, front>> /\ inbox # <<>> /\ inbox' = Tail(inbox)
    BY <1>5 DEF HearWindow
  <2>2. /\ Head(inbox) = inbox[1] /\ Head(inbox).is \in {"synced", "closed"}
        /\ Head(inbox).state \in State
        /\ inbox' = <<>> <=> Len(inbox) = 1
    BY <1>0, <2>1, InboxShrinks
  <2>3. out /\ \A j \in Pop : ~Goes(j) /\ ~Goes(j)'
    BY <2>1 DEF LinkNow, Goes
  <2>4. CASE Head(inbox).is = "closed"
    <3>1. ~out'
      BY <1>5, <2>3, <2>4 DEF HearWindow, Returned
    <3> QED BY <3>1, MirrorBack
  <2>5. CASE Head(inbox).is = "synced"
    <3>1. Take(Head(inbox).state)
      BY <1>5, <2>3, <2>5 DEF HearWindow
    <3>2. ASSUME inbox' = <<>>, frame # "none" PROVE Mirrors(entry.queue)'
      <4>1. Head(inbox).state = entry
        BY <2>1, <2>2, <3>2 DEF LinkNow
      <4>2. copy'["main"].queue = entry.queue
        BY <1>0, <2>2, <3>1, <4>1, TakeDoes
      <4> QED BY <2>1, <4>2 DEF Mirrors, InQueue
    <3> QED BY <2>1, <2>3, <3>2 DEF MirrorNow
  <2> QED BY <2>2, <2>4, <2>5
<1> QED BY <1>1, <1>2, <1>3, <1>4, <1>5

LEMMA MirrorStep ==
    ASSUME PopTyped, PlaceInv, LinkInv, OpenInv, MirrorInv, [PopOutNext]_popOutVars
    PROVE  MirrorInv'
<1> SUFFICES ASSUME Safe' PROVE MirrorNow'
  BY DEF MirrorInv
<1>0. Safe /\ PlaceNow /\ PlaceNow' /\ LinkNow /\ LinkNow' /\ MirrorNow
  BY SafeBefore, PlaceStep, LinkStep DEF PlaceInv, LinkInv, MirrorInv, Safe
<1>1. ASSUME NEW c \in adrift, AdriftLands(c) PROVE FALSE
  BY <1>0, <1>1 DEF LinkNow
<1>2. CASE Moves
  BY <1>0, <1>2, MirrorPops, MirrorWindow DEF Moves
<1>3. CASE ~out'
  BY <1>0, <1>3, MirrorBack
<1>4. ASSUME out, UNCHANGED moveVars, copy'["main"] = copy["main"] PROVE MirrorNow'
  BY <1>0, <1>4, MirrorStays
<1>5. CASE UNCHANGED popOutVars
  BY <1>3, <1>4, <1>5 DEF popOutVars, moveVars
<1>7. CASE TurnBegins \/ TurnEnds("finished") \/ TurnEnds("failed") \/ Exits \/ ClaimOrClose
  <2>1. UNCHANGED moveVars
    BY <1>7, MovesStay
  <2>2. ASSUME out PROVE UNCHANGED copy
    <3>1. ~ClaimOrClose
      BY <1>0, <2>2 DEF ClaimOrClose, OpenInv
    <3> QED BY <1>7, <3>1 DEF TurnBegins, TurnEnds, Exits, Alone
  <2> QED BY <1>3, <1>4, <2>1, <2>2 DEF moveVars
<1>8. CASE \E w \in Window : Interrupt(w) \/ Awaited(w) \/ SendLands(w) \/ SendReplies(w) \/ Hear(w)
  <2>1. UNCHANGED moveVars
    BY <1>8, MovesStay
  <2>2. CASE out
    <3>1. PICK w \in Window : Interrupt(w) \/ Awaited(w) \/ SendLands(w) \/ SendReplies(w) \/ Hear(w)
      BY <1>8
    <3>2. CASE Hear(w)
      BY <1>0, <2>1, <2>2, <3>2, MirrorHears, MirrorStays
    <3>3. CASE ~Hear(w)
      BY <1>0, <1>4, <2>1, <2>2, <3>1, <3>3, MirrorCalls
    <3> QED BY <3>2, <3>3
  <2> QED BY <1>3, <2>1, <2>2 DEF moveVars
<1>9. CASE \E w \in Window, m \in Words :
              \/ Enqueue(w, m) \/ SteerQueued(w, m) \/ RemoveQueued(w, m)
              \/ SteerLands(w, m) \/ SteerRefused(w, m)
  <2>1. UNCHANGED moveVars
    BY <1>9, MovesStay
  <2>2. CASE out
    BY <1>0, <1>4, <1>9, <2>1, <2>2, MirrorUses
  <2> QED BY <1>3, <2>1, <2>2 DEF moveVars
<1> QED BY <1>1, <1>2, <1>5, <1>7, <1>8, <1>9, PopOutKinds

-----------------------------------------------------------------------------
(* A pane in a window of its own.                                          *)

PaneInv == /\ PopTyped /\ PlaceInv /\ LinkInv /\ MuteInv /\ HeardInv /\ OpenInv
           /\ RefuseInv /\ FlowInv /\ KeepInv /\ SendInv /\ MirrorInv

LEMMA PaneInit == PopOutInit => PaneInv
  BY TypedInit, PlaceInit, LinkInit, MuteInit, HeardInit, OpenInit, RefuseInit, FlowInit, KeepInit,
     MirrorInit DEF PaneInv

LEMMA PaneStep == PaneInv /\ [PopOutNext]_popOutVars => PaneInv'
<1> SUFFICES ASSUME PaneInv, [PopOutNext]_popOutVars PROVE PaneInv'
  OBVIOUS
<1>1. /\ PopTyped /\ PlaceInv /\ LinkInv /\ MuteInv /\ HeardInv /\ OpenInv
      /\ RefuseInv /\ FlowInv /\ KeepInv /\ SendInv /\ MirrorInv
  BY DEF PaneInv
<1>2. PopTyped' /\ PlaceInv' /\ LinkInv' /\ MuteInv' /\ HeardInv'
  BY <1>1, TypedStep, PlaceStep, LinkStep, MuteStep, HeardStep
<1>3. OpenInv'
  BY <1>1, OpenStep
<1>4. RefuseInv' /\ FlowInv'
  BY <1>1, RefuseStep, FlowStep
<1>5. KeepInv' /\ SendInv' /\ MirrorInv'
  BY <1>1, KeepStep, MirrorStep
<1> QED BY <1>2, <1>3, <1>4, <1>5 DEF PaneInv

\* A message is in a window's queue as Holds and Waits have it.
LEMMA HoldsIs ==
    ASSUME CallTyped, NEW w \in Window, NEW m \in Words
    PROVE  (Holds(w, m) <=> InQueue(copy[w].queue, m)) /\ (Waits(w, m) <=> Plain(copy[w].queue, m))
<1>1. copy[w].queue \in Seq(Item)
  BY CopyTyped
<1>2. InQueue(copy[w].queue, m) <=> \E i \in DOMAIN copy[w].queue : copy[w].queue[i].word = m
  BY <1>1, QueueItems
<1> QED BY <1>2 DEF Holds, Waits, Plain

\* Once nothing is on its way, the pane's window is there and wired, or the pane is in.
LEMMA QuietIs ==
    ASSUME PopTyped, PlaceNow, Quiet
    PROVE  /\ \A i \in Pop : ~Goes(i)
           /\ out <=> frame = "up"
           /\ out <=> entry # NoState
           /\ out => front = "wired"
           /\ inbox = <<>> /\ report = NoState /\ ~Unsent /\ \A w \in Window : ~Calling(w) /\ coming[w] = <<>>
<1>1. /\ \A i \in Pop : ~Goes(i)
      /\ inbox = <<>> /\ report = NoState /\ ~Unsent /\ \A w \in Window : ~Calling(w) /\ coming[w] = <<>>
      /\ front \in {"none", "wired"} /\ frame # "closing"
  BY DEF Quiet, Moving, Goes
<1>2. out <=> frame # "none"
  BY <1>1 DEF PlaceNow, ClosedLast
<1>3. frame \in {"none", "up", "closing"} /\ (front = "none") = (frame = "none")
  BY DEF PopTyped, FrontInv
<1>4. out <=> entry # NoState
  BY <1>1, <1>2 DEF PlaceNow, Goes
<1> QED BY <1>1, <1>2, <1>3, <1>4

LEMMA PaneIsPlaced == ASSUME PaneInv PROVE Placed
<1> SUFFICES ASSUME Quiet, ~crossed
             PROVE  /\ out = (frame = "up")
                    /\ out <=> entry # NoState
                    /\ out /\ ~torn => entry = last
  BY DEF Placed
<1>1. PopTyped /\ PlaceNow /\ (~torn => LinkNow) /\ out \in BOOLEAN
  BY DEF PaneInv, PlaceInv, LinkInv, Safe, PopTyped, MoveTyped
<1>2. /\ out <=> frame = "up"
      /\ out <=> entry # NoState
      /\ out => front = "wired"
      /\ report = NoState
  BY <1>1, QuietIs
<1>3. ASSUME out, ~torn PROVE entry = last
  BY <1>1, <1>2, <1>3 DEF LinkNow
<1> QED BY <1>1, <1>2, <1>3

LEMMA PaneIsMirrored == ASSUME PaneInv PROVE Mirrored
<1> SUFFICES ASSUME Quiet, out, ~torn, ~crossed, NEW m \in Words
             PROVE  /\ Waits("own", m) => Holds("main", m)
                    /\ Waits("main", m) => Holds("own", m)
  BY DEF Mirrored
<1>1. PopTyped /\ PlaceNow /\ LinkNow /\ MirrorNow
  BY DEF PaneInv, PlaceInv, LinkInv, MirrorInv, Safe
<1>2. frame = "up" /\ front = "wired" /\ report = NoState /\ inbox = <<>> /\ ~Unsent
  BY <1>1, QuietIs
<1>3. entry = StateOf("own")
  BY <1>1, <1>2 DEF LinkNow, Unsent
<1>4. Mirrors(copy["own"].queue)
  BY <1>1, <1>2, <1>3 DEF MirrorNow, StateOf
<1>5. \A w \in Window :
         /\ Holds(w, m) <=> InQueue(copy[w].queue, m)
         /\ Waits(w, m) <=> Plain(copy[w].queue, m)
  BY <1>1, HoldsIs DEF PopTyped
<1> QED BY <1>4, <1>5 DEF Mirrors, InQueue, Window

LEMMA PaneFlows == ASSUME PaneInv PROVE Flows
<1> SUFFICES ASSUME Quiet, ~torn, ~crossed, Free(copy[Owner])
             PROVE  left
  BY DEF Flows
<1>1. PopTyped /\ PlaceNow /\ FlowNow
  BY DEF PaneInv, PlaceInv, FlowInv, Safe
<1>2. Owner \in Window
  BY DEF Owner, Window
<1>3. draining[Owner] = NoCall /\ coming[Owner] = <<>>
  BY <1>1, <1>2, QuietIs DEF Calling
<1> QED BY <1>1, <1>3 DEF FlowNow, Exiting

LEMMA PaneDelivers == ASSUME PaneInv PROVE Delivered
<1> SUFFICES ASSUME ~torn, ~crossed
             PROVE  /\ SentOnce
                    /\ Quiet => \A m \in written : taken[m] = 1 \/ Holds(Owner, m) \/ m \in dropped
  BY DEF Delivered
<1>1. PopTyped /\ PlaceNow /\ KeepNow
  BY DEF PaneInv, PlaceInv, KeepInv, Safe
<1>2. ASSUME Quiet, NEW m \in written PROVE taken[m] = 1 \/ Holds(Owner, m) \/ m \in dropped
  <2>1. Owner \in Window /\ m \in Words /\ CallTyped /\ FrontInv
    BY <1>1 DEF Owner, Window, PopTyped, SessionTyped
  <2>2. ~out \/ Runs
    BY <1>1, <1>2, QuietIs DEF Runs
  <2>3. Kept = copy[Owner].queue
    BY <1>1, <2>1, <2>2, OwnerKept
  <2> QED BY <1>1, <2>1, <2>3, HoldsIs DEF KeepNow
<1> QED BY <1>1, <1>2 DEF SentOnce, KeepNow

(* For any number of messages, moves, clicks and events still to be heard: *)
(* a pane is in one window once nothing is on its way, the registry and    *)
(* the main window have what its window holds, its queue is sent from, and *)
(* what the user wrote in it reached the session once or is kept           *)
(* (pane_windows.rs pop_out, sync, destroyed; sessions.svelte.ts drain,    *)
(* popOut, returnPane, applyWindowSync).                                   *)
THEOREM PanesKept == PopOutSpec => []PopOutOK
<1>1. PaneInv => PopOutOK
  BY TypedIsOK, PaneIsPlaced, PaneIsMirrored, PaneFlows, PaneDelivers DEF PaneInv, PopOutOK
<1> QED BY <1>1, PaneInit, PaneStep, PTL DEF PopOutSpec
=============================================================================
