---------------------------- MODULE HandoffProofs ----------------------------
(* Proofs about Forest, about Handoff for any number of panes and closers, *)
(* and about Parentage for any number of sessions.                         *)
EXTENDS Handoff, Parentage, FiniteSetTheorems, WellFoundedInduction, TLAPS

-----------------------------------------------------------------------------
(* Below is the least closed set that holds p's children.                  *)
LEMMA BelowLeast ==
  ASSUME NEW kids, NEW p, NEW S \in SUBSET DOMAIN kids, kids[p] \subseteq S, Closed(kids, S)
  PROVE  Below(kids, p) \subseteq S
BY DEF Below

(* It holds them.                                                          *)
LEMMA BelowKids ==
  ASSUME NEW D, NEW kids \in [D -> SUBSET D], NEW p \in D
  PROVE  kids[p] \subseteq Below(kids, p)
BY DEF Below

(* It is closed.                                                           *)
LEMMA BelowClosed ==
  ASSUME NEW D, NEW kids \in [D -> SUBSET D], NEW p \in D
  PROVE  Closed(kids, Below(kids, p)) /\ Below(kids, p) \subseteq D
BY DEF Below, Closed

(* More edges, more below.                                                 *)
LEMMA BelowMono ==
  ASSUME NEW D, NEW kids \in [D -> SUBSET D], NEW more \in [D -> SUBSET D], NEW p \in D,
         \A q \in D : kids[q] \subseteq more[q]
  PROVE  Below(kids, p) \subseteq Below(more, p)
<1>1. more[p] \subseteq Below(more, p)
  BY BelowKids
<1>2. Closed(more, Below(more, p)) /\ Below(more, p) \subseteq D
  BY BelowClosed
<1>3. kids[p] \subseteq Below(more, p) /\ Closed(kids, Below(more, p))
  BY <1>1, <1>2 DEF Closed
<1> QED BY <1>2, <1>3, BelowLeast

(* What is below somebody below p is below p.                              *)
LEMMA SubtreeBelow ==
  ASSUME NEW D, NEW kids \in [D -> SUBSET D], NEW p \in D, NEW q \in Below(kids, p)
  PROVE  Subtree(kids, q) \subseteq Below(kids, p)
<1>1. Closed(kids, Below(kids, p)) /\ Below(kids, p) \subseteq D
  BY BelowClosed
<1>2. kids[q] \subseteq Below(kids, p)
  BY <1>1 DEF Closed
<1>3. Below(kids, q) \subseteq Below(kids, p)
  BY <1>1, <1>2, BelowLeast
<1> QED BY <1>3 DEF Subtree

(* What settled_children finds is below the session it is asked for, and   *)
(* has settled.                                                            *)
LEMMA ClosableBelow ==
  ASSUME NEW D, NEW kids \in [D -> SUBSET D], NEW p \in D, NEW settled
  PROVE  /\ Closable(kids, settled, p) \subseteq Below(kids, p)
         /\ Closable(kids, settled, p) \subseteq settled
<1>1. ASSUME NEW c \in kids[p] PROVE Subtree(kids, c) \subseteq Below(kids, p)
  BY BelowKids, SubtreeBelow
<1> QED BY <1>1 DEF Closable

(* Everybody below is somebody's child.                                    *)
LEMMA BelowIsKid ==
  ASSUME NEW D, NEW kids \in [D -> SUBSET D], NEW p \in D, NEW R \in SUBSET D,
         \A q \in D : kids[q] \subseteq R
  PROVE  Below(kids, p) \subseteq R
BY BelowLeast DEF Closed

(* Forgetting only takes away.                                             *)
LEMMA WithoutLess ==
  ASSUME NEW D, NEW kids \in [D -> SUBSET D], NEW S
  PROVE  /\ Without(kids, S) \in [D -> SUBSET D]
         /\ \A p \in D : Without(kids, S)[p] \subseteq kids[p]
BY DEF Without
-----------------------------------------------------------------------------
LEMMA PaneFacts == Nobody \notin Pane /\ Pane \subseteq Nat
BY DEF Nobody, Pane

(* What a closer is told to close or to end has been recorded.             *)
LEMMA FoundIsRecorded ==
  ASSUME TypeOK, KinInv, NEW p \in Pane
  PROVE  /\ Closable(children, done, p) \subseteq {q \in Pane : stage[q] \in Recorded}
         /\ Below(children, p) \subseteq {q \in Pane : stage[q] \in Recorded}
<1>1. children \in [Pane -> SUBSET Pane]
  BY DEF TypeOK
<1>2. \A q \in Pane : children[q] \subseteq {r \in Pane : stage[r] \in Recorded}
  BY <1>1 DEF KinInv
<1>3. Below(children, p) \subseteq {q \in Pane : stage[q] \in Recorded}
  BY <1>1, <1>2, BelowIsKid
<1>4. Closable(children, done, p) \subseteq Below(children, p)
  BY <1>1, ClosableBelow
<1> QED BY <1>3, <1>4

(* The declared types survive every step.                                  *)
LEMMA TypeStep == IInv /\ [Next]_vars => TypeOK'
<1> USE HandoffAssumption, PaneFacts DEF IInv, TypeOK, Open, openVars, procVars, tokenVars, kinVars, closeVars, Move
<1> SUFFICES ASSUME IInv, [Next]_vars PROVE TypeOK'
  OBVIOUS
<1>1. ASSUME NEW p \in Pane, NEW parent \in Pane \cup {Nobody}, Issue(p, parent),
            parent = Nobody \/ parent \in live \cap tokens
     PROVE  TypeOK'
  <2>1. opened' \in 0 .. MaxPanes
    BY <1>1 DEF Issue, Pane
  <2> QED BY <1>1, <2>1 DEF Issue
<1>2. ASSUME NEW p \in Pane, Spawn(p) PROVE TypeOK'
  BY <1>2 DEF Spawn
<1>3. ASSUME NEW p \in Pane, Fail(p) PROVE TypeOK'
  BY <1>3 DEF Fail
<1>4. ASSUME NEW p \in Pane, Insert(p) PROVE TypeOK'
  BY <1>4 DEF Insert
<1>5. ASSUME NEW p \in Pane, Bind(p) PROVE TypeOK'
  BY <1>5 DEF Bind
<1>6. ASSUME NEW p \in Pane, Flush(p) PROVE TypeOK'
  BY <1>6 DEF Flush
<1>7. ASSUME NEW p \in Pane, Claim(p) PROVE TypeOK'
  BY <1>7 DEF Claim
<1>8. ASSUME NEW p \in Pane, Record(p) PROVE TypeOK'
  BY <1>8 DEF Record
<1>9. ASSUME NEW p \in Pane, Settle(p) PROVE TypeOK'
  BY <1>9 DEF Settle
<1>10. ASSUME NEW p \in Pane, Die(p) PROVE TypeOK'
  BY <1>10 DEF Die
<1>11. ASSUME NEW k \in Closers, NEW p \in Pane, UserClose(k, p) PROVE TypeOK'
  BY <1>11 DEF UserClose
<1>12. ASSUME NEW k \in Closers, NEW p \in Pane, ToolClose(k, p) PROVE TypeOK'
  <2>1. Closable(children, done, p) \subseteq Pane
    BY ClosableBelow, BelowClosed
  <2> QED BY <1>12, <2>1 DEF ToolClose
<1>13. ASSUME NEW k \in Closers, NEW p \in Pane, Target(k, p) PROVE TypeOK'
  <2>1. Subtree(children, p) \subseteq Pane
    BY BelowClosed DEF Subtree
  <2> QED BY <1>13, <2>1 DEF Target
<1>14. ASSUME NEW k \in Closers, NEW p \in Pane, EndProcess(k, p) PROVE TypeOK'
  BY <1>14 DEF EndProcess
<1>15. ASSUME NEW k \in Closers, ForgetToken(k) PROVE TypeOK'
  <2>1. pane[k] \in Pane
    BY <1>15 DEF ForgetToken, CloseInv
  <2> QED BY <1>15, <2>1 DEF ForgetToken
<1>16. ASSUME NEW k \in Closers, ForgetKin(k) PROVE TypeOK'
  <2>1. children' \in [Pane -> SUBSET Pane]
    BY <1>16, WithoutLess DEF ForgetKin
  <2>2. at' \in [Closers -> {"idle", "next", "end", "token", "kin", "last"}]
    BY <1>16 DEF ForgetKin
  <2> QED BY <1>16, <2>1, <2>2 DEF ForgetKin
<1>17. ASSUME NEW k \in Closers, Finish(k) PROVE TypeOK'
  <2>1. children' \in [Pane -> SUBSET Pane]
    BY <1>17, WithoutLess DEF Finish
  <2> QED BY <1>17, <2>1 DEF Finish
<1>18. CASE UNCHANGED vars
  BY <1>18 DEF vars
<1> QED
  BY <1>1, <1>2, <1>3, <1>4, <1>5, <1>6, <1>7, <1>8, <1>9,
     <1>10, <1>11, <1>12, <1>13, <1>14, <1>15, <1>16, <1>17, <1>18
     DEF Next, OpenerStep, CloserStep, UserOpen, Delegate

(* Panes are asked for in order.                                           *)
LEMMA OrderStep == IInv /\ [Next]_vars => OrderInv'
<1> USE HandoffAssumption, PaneFacts DEF IInv, TypeOK, OrderInv, Open, openVars, procVars, tokenVars, kinVars, closeVars, Move
<1> SUFFICES ASSUME IInv, [Next]_vars PROVE OrderInv'
  OBVIOUS
<1>1. ASSUME NEW p \in Pane, NEW parent \in Pane \cup {Nobody}, Issue(p, parent),
            parent = Nobody \/ parent \in live \cap tokens
     PROVE  OrderInv'
  <2>1. /\ p = opened + 1 /\ opened' = p /\ opened \in Nat
        /\ stage' = [stage EXCEPT ![p] = "issued"]
        /\ by' = [by EXCEPT ![p] = parent]
    BY <1>1 DEF Issue
  <2>2. parent < p
    <3>1. CASE parent = Nobody
      BY <2>1, <3>1 DEF Nobody, Pane
    <3>2. CASE parent \in live
      <4>1. stage[parent] # "unborn" /\ parent \in Nat
        BY <3>2 DEF LiveInv, Registered
      <4> QED BY <2>1, <4>1, <3>2
    <3> QED BY <1>1, <3>1, <3>2
  <2>3. SUFFICES ASSUME NEW q \in Pane
                 PROVE  /\ stage'[q] = "unborn" <=> q > opened'
                        /\ stage'[q] = "unborn" => by'[q] = Nobody
                        /\ by'[q] < q
    OBVIOUS
  <2>4. CASE q = p
    BY <2>1, <2>2, <2>4
  <2>5. CASE q # p
    <3>1. stage'[q] = stage[q] /\ by'[q] = by[q] /\ q \in Nat
      BY <2>1, <2>5
    <3>2. q > opened <=> q > opened'
      BY <2>1, <2>5, <3>1
    <3> QED BY <3>1, <3>2
  <2> QED BY <2>4, <2>5
<1>2. ASSUME NEW p \in Pane, Spawn(p) PROVE OrderInv'
  BY <1>2 DEF Spawn
<1>3. ASSUME NEW p \in Pane, Fail(p) PROVE OrderInv'
  BY <1>3 DEF Fail
<1>4. ASSUME NEW p \in Pane, Insert(p) PROVE OrderInv'
  BY <1>4 DEF Insert
<1>5. ASSUME NEW p \in Pane, Bind(p) PROVE OrderInv'
  BY <1>5 DEF Bind
<1>6. ASSUME NEW p \in Pane, Flush(p) PROVE OrderInv'
  BY <1>6 DEF Flush
<1>7. ASSUME NEW p \in Pane, Claim(p) PROVE OrderInv'
  BY <1>7 DEF Claim
<1>8. ASSUME NEW p \in Pane, Record(p) PROVE OrderInv'
  BY <1>8 DEF Record
<1>9. ASSUME NEW p \in Pane, Settle(p) PROVE OrderInv'
  BY <1>9 DEF Settle
<1>10. ASSUME NEW p \in Pane, Die(p) PROVE OrderInv'
  BY <1>10 DEF Die
<1>11. ASSUME NEW k \in Closers, NEW p \in Pane, UserClose(k, p) PROVE OrderInv'
  BY <1>11 DEF UserClose
<1>12. ASSUME NEW k \in Closers, NEW p \in Pane, ToolClose(k, p) PROVE OrderInv'
  BY <1>12 DEF ToolClose
<1>13. ASSUME NEW k \in Closers, NEW p \in Pane, Target(k, p) PROVE OrderInv'
  BY <1>13 DEF Target
<1>14. ASSUME NEW k \in Closers, NEW p \in Pane, EndProcess(k, p) PROVE OrderInv'
  BY <1>14 DEF EndProcess
<1>15. ASSUME NEW k \in Closers, ForgetToken(k) PROVE OrderInv'
  BY <1>15 DEF ForgetToken
<1>16. ASSUME NEW k \in Closers, ForgetKin(k) PROVE OrderInv'
  BY <1>16 DEF ForgetKin
<1>17. ASSUME NEW k \in Closers, Finish(k) PROVE OrderInv'
  BY <1>17 DEF Finish
<1>18. CASE UNCHANGED vars
  BY <1>18 DEF vars
<1> QED
  BY <1>1, <1>2, <1>3, <1>4, <1>5, <1>6, <1>7, <1>8, <1>9,
     <1>10, <1>11, <1>12, <1>13, <1>14, <1>15, <1>16, <1>17, <1>18
     DEF Next, OpenerStep, CloserStep, UserOpen, Delegate

(* What runs is in the map from the insert on.                             *)
LEMMA LiveStep == IInv /\ [Next]_vars => LiveInv'
<1> USE HandoffAssumption, PaneFacts DEF IInv, TypeOK, OrderInv, LiveInv, TokenInv, Registered, Open, openVars, procVars, tokenVars, kinVars, closeVars, Move
<1> SUFFICES ASSUME IInv, [Next]_vars PROVE LiveInv'
  OBVIOUS
<1>1. ASSUME NEW p \in Pane, NEW parent \in Pane \cup {Nobody}, Issue(p, parent),
            parent = Nobody \/ parent \in live \cap tokens
     PROVE  LiveInv'
  BY <1>1 DEF Issue
<1>2. ASSUME NEW p \in Pane, Spawn(p) PROVE LiveInv'
  BY <1>2 DEF Spawn
<1>3. ASSUME NEW p \in Pane, Fail(p) PROVE LiveInv'
  BY <1>3 DEF Fail
<1>4. ASSUME NEW p \in Pane, Insert(p) PROVE LiveInv'
  BY <1>4 DEF Insert
<1>5. ASSUME NEW p \in Pane, Bind(p) PROVE LiveInv'
  BY <1>5 DEF Bind
<1>6. ASSUME NEW p \in Pane, Flush(p) PROVE LiveInv'
  BY <1>6 DEF Flush
<1>7. ASSUME NEW p \in Pane, Claim(p) PROVE LiveInv'
  BY <1>7 DEF Claim
<1>8. ASSUME NEW p \in Pane, Record(p) PROVE LiveInv'
  BY <1>8 DEF Record
<1>9. ASSUME NEW p \in Pane, Settle(p) PROVE LiveInv'
  BY <1>9 DEF Settle
<1>10. ASSUME NEW p \in Pane, Die(p) PROVE LiveInv'
  BY <1>10 DEF Die
<1>11. ASSUME NEW k \in Closers, NEW p \in Pane, UserClose(k, p) PROVE LiveInv'
  BY <1>11 DEF UserClose
<1>12. ASSUME NEW k \in Closers, NEW p \in Pane, ToolClose(k, p) PROVE LiveInv'
  BY <1>12 DEF ToolClose
<1>13. ASSUME NEW k \in Closers, NEW p \in Pane, Target(k, p) PROVE LiveInv'
  BY <1>13 DEF Target
<1>14. ASSUME NEW k \in Closers, NEW p \in Pane, EndProcess(k, p) PROVE LiveInv'
  BY <1>14 DEF EndProcess
<1>15. ASSUME NEW k \in Closers, ForgetToken(k) PROVE LiveInv'
  <2>1. pane[k] \notin entries
    BY <1>15 DEF ForgetToken, CloseInv
  <2> QED BY <1>15, <2>1 DEF ForgetToken
<1>16. ASSUME NEW k \in Closers, ForgetKin(k) PROVE LiveInv'
  BY <1>16 DEF ForgetKin
<1>17. ASSUME NEW k \in Closers, Finish(k) PROVE LiveInv'
  BY <1>17 DEF Finish
<1>18. CASE UNCHANGED vars
  BY <1>18 DEF vars
<1> QED
  BY <1>1, <1>2, <1>3, <1>4, <1>5, <1>6, <1>7, <1>8, <1>9,
     <1>10, <1>11, <1>12, <1>13, <1>14, <1>15, <1>16, <1>17, <1>18
     DEF Next, OpenerStep, CloserStep, UserOpen, Delegate

(* A token waits for its session.                                          *)
LEMMA TokenStep == IInv /\ [Next]_vars => TokenInv'
<1> USE HandoffAssumption, PaneFacts DEF IInv, TypeOK, OrderInv, TokenInv, CloseInv, Open, openVars, procVars, tokenVars, kinVars, closeVars, Move
<1> SUFFICES ASSUME IInv, [Next]_vars PROVE TokenInv'
  OBVIOUS
<1>1. ASSUME NEW p \in Pane, NEW parent \in Pane \cup {Nobody}, Issue(p, parent),
            parent = Nobody \/ parent \in live \cap tokens
     PROVE  TokenInv'
  BY <1>1 DEF Issue
<1>2. ASSUME NEW p \in Pane, Spawn(p) PROVE TokenInv'
  BY <1>2 DEF Spawn
<1>3. ASSUME NEW p \in Pane, Fail(p) PROVE TokenInv'
  BY <1>3 DEF Fail
<1>4. ASSUME NEW p \in Pane, Insert(p) PROVE TokenInv'
  BY <1>4 DEF Insert
<1>5. ASSUME NEW p \in Pane, Bind(p) PROVE TokenInv'
  BY <1>5 DEF Bind
<1>6. ASSUME NEW p \in Pane, Flush(p) PROVE TokenInv'
  BY <1>6 DEF Flush
<1>7. ASSUME NEW p \in Pane, Claim(p) PROVE TokenInv'
  BY <1>7 DEF Claim
<1>8. ASSUME NEW p \in Pane, Record(p) PROVE TokenInv'
  BY <1>8 DEF Record
<1>9. ASSUME NEW p \in Pane, Settle(p) PROVE TokenInv'
  BY <1>9 DEF Settle
<1>10. ASSUME NEW p \in Pane, Die(p) PROVE TokenInv'
  BY <1>10 DEF Die
<1>11. ASSUME NEW k \in Closers, NEW p \in Pane, UserClose(k, p) PROVE TokenInv'
  BY <1>11 DEF UserClose
<1>12. ASSUME NEW k \in Closers, NEW p \in Pane, ToolClose(k, p) PROVE TokenInv'
  BY <1>12 DEF ToolClose
<1>13. ASSUME NEW k \in Closers, NEW p \in Pane, Target(k, p) PROVE TokenInv'
  BY <1>13 DEF Target
<1>14. ASSUME NEW k \in Closers, NEW p \in Pane, EndProcess(k, p) PROVE TokenInv'
  BY <1>14 DEF EndProcess
<1>15. ASSUME NEW k \in Closers, ForgetToken(k) PROVE TokenInv'
  BY <1>15 DEF ForgetToken
<1>16. ASSUME NEW k \in Closers, ForgetKin(k) PROVE TokenInv'
  BY <1>16 DEF ForgetKin
<1>17. ASSUME NEW k \in Closers, Finish(k) PROVE TokenInv'
  BY <1>17 DEF Finish
<1>18. CASE UNCHANGED vars
  BY <1>18 DEF vars
<1> QED
  BY <1>1, <1>2, <1>3, <1>4, <1>5, <1>6, <1>7, <1>8, <1>9,
     <1>10, <1>11, <1>12, <1>13, <1>14, <1>15, <1>16, <1>17, <1>18
     DEF Next, OpenerStep, CloserStep, UserOpen, Delegate

(* The parentage map holds each child once, under its opener.              *)
LEMMA KinStep == IInv /\ [Next]_vars => KinInv'
<1> USE HandoffAssumption, PaneFacts DEF IInv, TypeOK, OrderInv, KinInv, Recorded, Open, openVars, procVars, tokenVars, kinVars, closeVars, Move
<1> SUFFICES ASSUME IInv, [Next]_vars PROVE KinInv'
  OBVIOUS
<1>1. ASSUME NEW p \in Pane, NEW parent \in Pane \cup {Nobody}, Issue(p, parent),
            parent = Nobody \/ parent \in live \cap tokens
     PROVE  KinInv'
  BY <1>1 DEF Issue
<1>2. ASSUME NEW p \in Pane, Spawn(p) PROVE KinInv'
  BY <1>2 DEF Spawn
<1>3. ASSUME NEW p \in Pane, Fail(p) PROVE KinInv'
  BY <1>3 DEF Fail
<1>4. ASSUME NEW p \in Pane, Insert(p) PROVE KinInv'
  BY <1>4 DEF Insert
<1>5. ASSUME NEW p \in Pane, Bind(p) PROVE KinInv'
  BY <1>5 DEF Bind
<1>6. ASSUME NEW p \in Pane, Flush(p) PROVE KinInv'
  BY <1>6 DEF Flush
<1>7. ASSUME NEW p \in Pane, Claim(p) PROVE KinInv'
  BY <1>7 DEF Claim
<1>8. ASSUME NEW p \in Pane, Record(p) PROVE KinInv'
  <2>1. /\ stage[p] \in {"owned", "queued"} /\ by[p] \in Pane \cup {Nobody}
        /\ stage' = [stage EXCEPT ![p] = "working"]
        /\ UNCHANGED by
    BY <1>8 DEF Record
  <2>2. \A q \in Pane : p \notin children[q] \cup pending[q]
    BY <2>1
  <2>3. SUFFICES ASSUME NEW q \in Pane, NEW r \in children'[q] \cup pending'[q]
                 PROVE  /\ by[r] = q
                        /\ stage'[r] \in Recorded
                        /\ r \notin children'[q] \cap pending'[q]
    BY <2>1
  <2>4. \/ children' = [children EXCEPT ![by[p]] = children[by[p]] \cup {p}] /\ pending' = pending
        \/ pending' = [pending EXCEPT ![by[p]] = pending[by[p]] \cup {p}] /\ children' = children
    BY <1>8 DEF Record
  <2>5. CASE r = p
    <3>1. by[p] = q
      BY <2>2, <2>4, <2>5
    <3>2. p \notin children'[q] \cap pending'[q]
      BY <2>2, <2>4
    <3> QED BY <2>1, <2>5, <3>1, <3>2
  <2>6. CASE r # p
    <3>1. /\ r \in children[q] \cup pending[q] /\ r \in Pane
          /\ r \in children'[q] \cap pending'[q] => r \in children[q] \cap pending[q]
      BY <2>4, <2>6
    <3> QED BY <2>1, <2>6, <3>1
  <2> QED BY <2>5, <2>6
<1>9. ASSUME NEW p \in Pane, Settle(p) PROVE KinInv'
  BY <1>9 DEF Settle
<1>10. ASSUME NEW p \in Pane, Die(p) PROVE KinInv'
  BY <1>10 DEF Die
<1>11. ASSUME NEW k \in Closers, NEW p \in Pane, UserClose(k, p) PROVE KinInv'
  BY <1>11 DEF UserClose
<1>12. ASSUME NEW k \in Closers, NEW p \in Pane, ToolClose(k, p) PROVE KinInv'
  BY <1>12 DEF ToolClose
<1>13. ASSUME NEW k \in Closers, NEW p \in Pane, Target(k, p) PROVE KinInv'
  BY <1>13 DEF Target
<1>14. ASSUME NEW k \in Closers, NEW p \in Pane, EndProcess(k, p) PROVE KinInv'
  BY <1>14 DEF EndProcess
<1>15. ASSUME NEW k \in Closers, ForgetToken(k) PROVE KinInv'
  BY <1>15 DEF ForgetToken
<1>16. ASSUME NEW k \in Closers, ForgetKin(k) PROVE KinInv'
  <2>1. \A q \in Pane : children'[q] \subseteq children[q]
    <3>1. children' = Without(children, {pane[k]}) /\ children \in [Pane -> SUBSET Pane]
      BY <1>16 DEF ForgetKin
    <3>2. \A q \in Pane : Without(children, {pane[k]})[q] \subseteq children[q]
      BY ONLY <3>1, WithoutLess
    <3> QED BY <3>1, <3>2
  <2>2. UNCHANGED <<pending, by, stage>>
    BY <1>16 DEF ForgetKin
  <2> QED BY <2>1, <2>2
<1>17. ASSUME NEW k \in Closers, Finish(k) PROVE KinInv'
  <2>1. \A q \in Pane : children'[q] \subseteq children[q]
    <3>1. children' = Without(children, batch[k]) /\ children \in [Pane -> SUBSET Pane]
      BY <1>17 DEF Finish
    <3>2. \A q \in Pane : Without(children, batch[k])[q] \subseteq children[q]
      BY ONLY <3>1, WithoutLess
    <3> QED BY <3>1, <3>2
  <2>2. UNCHANGED <<pending, by, stage>>
    BY <1>17 DEF Finish
  <2> QED BY <2>1, <2>2
<1>18. CASE UNCHANGED vars
  BY <1>18 DEF vars
<1> QED
  BY <1>1, <1>2, <1>3, <1>4, <1>5, <1>6, <1>7, <1>8, <1>9,
     <1>10, <1>11, <1>12, <1>13, <1>14, <1>15, <1>16, <1>17, <1>18
     DEF Next, OpenerStep, CloserStep, UserOpen, Delegate

(* A closer finishes what it has in hand.                                  *)
LEMMA IdleStep == IInv /\ [Next]_vars => IdleInv'
<1> USE HandoffAssumption, PaneFacts DEF IInv, TypeOK, IdleInv, openVars, procVars, tokenVars, kinVars, closeVars, Move
<1> SUFFICES ASSUME IInv, [Next]_vars PROVE IdleInv'
  OBVIOUS
<1>1. ASSUME NEW p \in Pane, NEW parent \in Pane \cup {Nobody}, Issue(p, parent),
            parent = Nobody \/ parent \in live \cap tokens
     PROVE  IdleInv'
  BY <1>1 DEF Issue
<1>2. ASSUME NEW p \in Pane, Spawn(p) PROVE IdleInv'
  BY <1>2 DEF Spawn
<1>3. ASSUME NEW p \in Pane, Fail(p) PROVE IdleInv'
  BY <1>3 DEF Fail
<1>4. ASSUME NEW p \in Pane, Insert(p) PROVE IdleInv'
  BY <1>4 DEF Insert
<1>5. ASSUME NEW p \in Pane, Bind(p) PROVE IdleInv'
  BY <1>5 DEF Bind
<1>6. ASSUME NEW p \in Pane, Flush(p) PROVE IdleInv'
  BY <1>6 DEF Flush
<1>7. ASSUME NEW p \in Pane, Claim(p) PROVE IdleInv'
  BY <1>7 DEF Claim
<1>8. ASSUME NEW p \in Pane, Record(p) PROVE IdleInv'
  BY <1>8 DEF Record
<1>9. ASSUME NEW p \in Pane, Settle(p) PROVE IdleInv'
  BY <1>9 DEF Settle
<1>10. ASSUME NEW p \in Pane, Die(p) PROVE IdleInv'
  BY <1>10 DEF Die
<1>11. ASSUME NEW k \in Closers, NEW p \in Pane, UserClose(k, p) PROVE IdleInv'
  BY <1>11 DEF UserClose
<1>12. ASSUME NEW k \in Closers, NEW p \in Pane, ToolClose(k, p) PROVE IdleInv'
  BY <1>12 DEF ToolClose
<1>13. ASSUME NEW k \in Closers, NEW p \in Pane, Target(k, p) PROVE IdleInv'
  BY <1>13 DEF Target
<1>14. ASSUME NEW k \in Closers, NEW p \in Pane, EndProcess(k, p) PROVE IdleInv'
  BY <1>14 DEF EndProcess
<1>15. ASSUME NEW k \in Closers, ForgetToken(k) PROVE IdleInv'
  BY <1>15 DEF ForgetToken
<1>16. ASSUME NEW k \in Closers, ForgetKin(k) PROVE IdleInv'
  BY <1>16 DEF ForgetKin
<1>17. ASSUME NEW k \in Closers, Finish(k) PROVE IdleInv'
  BY <1>17 DEF Finish
<1>18. CASE UNCHANGED vars
  BY <1>18 DEF vars
<1> QED
  BY <1>1, <1>2, <1>3, <1>4, <1>5, <1>6, <1>7, <1>8, <1>9,
     <1>10, <1>11, <1>12, <1>13, <1>14, <1>15, <1>16, <1>17, <1>18
     DEF Next, OpenerStep, CloserStep, UserOpen, Delegate

(* What a closer has in hand was open, and what it dropped is gone.        *)
LEMMA CloseStep == IInv /\ [Next]_vars => CloseInv'
<1> USE HandoffAssumption, PaneFacts DEF IInv, TypeOK, OrderInv, LiveInv, TokenInv, CloseInv, Registered, Open,
       openVars, procVars, tokenVars, kinVars, closeVars, Move
<1> SUFFICES ASSUME IInv, [Next]_vars PROVE CloseInv'
  OBVIOUS
<1>1. ASSUME NEW p \in Pane, NEW parent \in Pane \cup {Nobody}, Issue(p, parent),
            parent = Nobody \/ parent \in live \cap tokens
     PROVE  CloseInv'
  BY <1>1 DEF Issue
<1>2. ASSUME NEW p \in Pane, Spawn(p) PROVE CloseInv'
  BY <1>2 DEF Spawn
<1>3. ASSUME NEW p \in Pane, Fail(p) PROVE CloseInv'
  BY <1>3 DEF Fail
<1>4. ASSUME NEW p \in Pane, Insert(p) PROVE CloseInv'
  BY <1>4 DEF Insert
<1>5. ASSUME NEW p \in Pane, Bind(p) PROVE CloseInv'
  BY <1>5 DEF Bind
<1>6. ASSUME NEW p \in Pane, Flush(p) PROVE CloseInv'
  BY <1>6 DEF Flush
<1>7. ASSUME NEW p \in Pane, Claim(p) PROVE CloseInv'
  BY <1>7 DEF Claim
<1>8. ASSUME NEW p \in Pane, Record(p) PROVE CloseInv'
  <2>1. /\ stage' = [stage EXCEPT ![p] = "working"]
        /\ UNCHANGED <<at, todo, victims, pane, entries, live, shut, tokens>>
    BY <1>8 DEF Record
  <2>2. \A q \in Pane : stage[q] \in Open => stage'[q] \in Open
    BY <2>1
  <2> QED BY <2>1, <2>2
<1>9. ASSUME NEW p \in Pane, Settle(p) PROVE CloseInv'
  BY <1>9 DEF Settle
<1>10. ASSUME NEW p \in Pane, Die(p) PROVE CloseInv'
  BY <1>10 DEF Die
<1>11. ASSUME NEW k \in Closers, NEW p \in Pane, UserClose(k, p) PROVE CloseInv'
  BY <1>11 DEF UserClose
<1>12. ASSUME NEW k \in Closers, NEW p \in Pane, ToolClose(k, p) PROVE CloseInv'
  <2>1. \A q \in Closable(children, done, p) : stage[q] \in Open
    BY FoundIsRecorded DEF Recorded
  <2>2. /\ todo' = [todo EXCEPT ![k] = Closable(children, done, p)]
        /\ at' = [at EXCEPT ![k] = "next"]
        /\ UNCHANGED <<victims, pane, stage, entries, live, shut, tokens>>
    BY <1>12 DEF ToolClose
  <2> QED BY <2>1, <2>2
<1>13. ASSUME NEW k \in Closers, NEW p \in Pane, Target(k, p) PROVE CloseInv'
  <2>1. \A q \in Subtree(children, p) : stage[q] \in Open
    BY <1>13, FoundIsRecorded DEF Target, Deepest, Recorded, Subtree
  <2>2. /\ todo' = [todo EXCEPT ![k] = todo[k] \ {p}]
        /\ victims' = [victims EXCEPT ![k] = Subtree(children, p)]
        /\ at' = [at EXCEPT ![k] = "end"]
        /\ UNCHANGED <<pane, stage, entries, live, shut, tokens>>
    BY <1>13 DEF Target
  <2> QED BY <2>1, <2>2
<1>14. ASSUME NEW k \in Closers, NEW p \in Pane, EndProcess(k, p) PROVE CloseInv'
  <2>1. p \in victims[k] /\ stage[p] \in Open
    BY <1>14 DEF EndProcess, Deepest
  <2>2. p \in live => p \in entries
    BY <2>1
  <2>3. /\ at' = [at EXCEPT ![k] = "token"]
        /\ pane' = [pane EXCEPT ![k] = p]
        /\ victims' = [victims EXCEPT ![k] = victims[k] \ {p}]
        /\ live' = live \ ({p} \cap entries)
        /\ entries' = entries \ {p}
        /\ UNCHANGED <<todo, stage, shut, tokens>>
    BY <1>14 DEF EndProcess
  <2>4. p \notin entries' \cup live' /\ entries' \subseteq entries /\ live' \subseteq live
    BY <2>2, <2>3
  <2> QED BY <2>1, <2>3, <2>4
<1>15. ASSUME NEW k \in Closers, ForgetToken(k) PROVE CloseInv'
  BY <1>15 DEF ForgetToken
<1>16. ASSUME NEW k \in Closers, ForgetKin(k) PROVE CloseInv'
  BY <1>16 DEF ForgetKin
<1>17. ASSUME NEW k \in Closers, Finish(k) PROVE CloseInv'
  BY <1>17 DEF Finish
<1>18. CASE UNCHANGED vars
  BY <1>18 DEF vars
<1> QED
  BY <1>1, <1>2, <1>3, <1>4, <1>5, <1>6, <1>7, <1>8, <1>9,
     <1>10, <1>11, <1>12, <1>13, <1>14, <1>15, <1>16, <1>17, <1>18
     DEF Next, OpenerStep, CloserStep, UserOpen, Delegate

(* A tool's close stays below its caller.                                  *)
LEMMA OwnStep == IInv /\ [Next]_vars => ToolReachesOwn'
<1> USE HandoffAssumption, PaneFacts DEF openVars, procVars, tokenVars, kinVars, closeVars, Move
<1> DEFINE Hand(k) == todo[k] \cup victims[k] \cup ({pane[k]} \ {Nobody})
<1> SUFFICES ASSUME IInv, [Next]_vars PROVE ToolReachesOwn'
  OBVIOUS
<1>1. /\ Offspring \in [Pane -> SUBSET Pane] /\ Offspring' \in [Pane -> SUBSET Pane]
      /\ children \in [Pane -> SUBSET Pane]
  BY DEF Offspring, IInv, TypeOK
<1>2. \A p \in Pane : children[p] \subseteq Offspring[p]
  BY DEF Offspring, IInv, TypeOK, KinInv
<1>3. ASSUME UNCHANGED <<by, caller, todo, victims, pane>> PROVE ToolReachesOwn'
  BY <1>3 DEF IInv, ToolReachesOwn, Offspring
<1>4. ASSUME NEW p \in Pane, NEW parent \in Pane \cup {Nobody}, Issue(p, parent)
      PROVE  ToolReachesOwn'
  <2>1. /\ stage[p] = "unborn" /\ by' = [by EXCEPT ![p] = parent]
        /\ UNCHANGED <<caller, todo, victims, pane>>
    BY <1>4 DEF Issue
  <2>2. by[p] = Nobody
    BY <2>1 DEF IInv, OrderInv
  <2>3. \A q \in Pane : Offspring[q] \subseteq Offspring'[q]
    BY <2>1, <2>2 DEF Offspring, IInv, TypeOK
  <2>4. \A q \in Pane : Below(Offspring, q) \subseteq Below(Offspring', q)
    BY <1>1, <2>3, BelowMono
  <2> QED BY <2>1, <2>4 DEF IInv, TypeOK, ToolReachesOwn
<1>5. ASSUME NEW k \in Closers, NEW p \in Pane, UserClose(k, p) PROVE ToolReachesOwn'
  BY <1>5 DEF UserClose, IInv, TypeOK, ToolReachesOwn, Offspring
<1>6. ASSUME NEW k \in Closers, NEW p \in Pane, ToolClose(k, p) PROVE ToolReachesOwn'
  <2>1. /\ todo' = [todo EXCEPT ![k] = Closable(children, done, p)]
        /\ caller' = [caller EXCEPT ![k] = p]
        /\ victims[k] = {} /\ pane[k] = Nobody
        /\ UNCHANGED <<victims, pane, by>>
    BY <1>6 DEF ToolClose, IInv, IdleInv
  <2>2. Closable(children, done, p) \subseteq Below(Offspring, p)
    <3>1. Closable(children, done, p) \subseteq Below(children, p)
      BY <1>1, ClosableBelow
    <3>2. Below(children, p) \subseteq Below(Offspring, p)
      BY <1>1, <1>2, BelowMono
    <3> QED BY <3>1, <3>2
  <2>3. Offspring' = Offspring
    BY <2>1 DEF Offspring
  <2> QED BY <2>1, <2>2, <2>3 DEF IInv, TypeOK, ToolReachesOwn
<1>7. ASSUME NEW k \in Closers, NEW p \in Pane, Target(k, p) PROVE ToolReachesOwn'
  <2>1. /\ p \in todo[k]
        /\ todo' = [todo EXCEPT ![k] = todo[k] \ {p}]
        /\ victims' = [victims EXCEPT ![k] = Subtree(children, p)]
        /\ UNCHANGED <<caller, pane, by>>
    BY <1>7 DEF Target, Deepest
  <2>2. ASSUME caller[k] # Nobody PROVE Subtree(children, p) \subseteq Below(Offspring, caller[k])
    <3>1. caller[k] \in Pane /\ p \in Below(Offspring, caller[k])
      BY <2>1, <2>2 DEF IInv, TypeOK, ToolReachesOwn
    <3>2. Subtree(Offspring, p) \subseteq Below(Offspring, caller[k])
      BY <1>1, <3>1, SubtreeBelow
    <3>3. Below(children, p) \subseteq Below(Offspring, p)
      BY <1>1, <1>2, BelowMono
    <3> QED BY <3>2, <3>3 DEF Subtree
  <2>3. Offspring' = Offspring
    BY <2>1 DEF Offspring
  <2> QED BY <2>1, <2>2, <2>3 DEF IInv, TypeOK, ToolReachesOwn
<1>8. ASSUME NEW k \in Closers, NEW p \in Pane, EndProcess(k, p) PROVE ToolReachesOwn'
  <2>1. /\ p \in victims[k]
        /\ pane' = [pane EXCEPT ![k] = p]
        /\ victims' = [victims EXCEPT ![k] = victims[k] \ {p}]
        /\ UNCHANGED <<caller, todo, by>>
    BY <1>8 DEF EndProcess, Deepest
  <2>2. Offspring' = Offspring
    BY <2>1 DEF Offspring
  <2> QED BY <2>1, <2>2 DEF IInv, TypeOK, ToolReachesOwn
<1>9. ASSUME NEW k \in Closers, Finish(k) PROVE ToolReachesOwn'
  BY <1>9 DEF Finish, IInv, TypeOK, ToolReachesOwn, Offspring
<1>10. ASSUME NEW p \in Pane, OpenerStep(p) \/ Die(p) PROVE ToolReachesOwn'
  <2>1. UNCHANGED <<by, caller, todo, victims, pane>>
    BY <1>10 DEF OpenerStep, Spawn, Fail, Insert, Bind, Flush, Claim, Record, Settle, Die
  <2> QED BY <1>3, <2>1
<1>11. ASSUME NEW k \in Closers, ForgetToken(k) \/ ForgetKin(k) PROVE ToolReachesOwn'
  <2>1. UNCHANGED <<by, caller, todo, victims, pane>>
    BY <1>11 DEF ForgetToken, ForgetKin
  <2> QED BY <1>3, <2>1
<1>12. CASE UNCHANGED vars
  BY <1>3, <1>12 DEF vars
<1> QED
  BY <1>4, <1>5, <1>6, <1>7, <1>8, <1>9, <1>10, <1>11, <1>12
     DEF Next, CloserStep, UserOpen, Delegate

-----------------------------------------------------------------------------
(* The inductive invariant holds of the first state, and for ever.         *)
LEMMA InitInv == Init => IInv
<1> SUFFICES ASSUME Init PROVE IInv
  OBVIOUS
<1> USE HandoffAssumption, PaneFacts DEF Init, None
<1>1. TypeOK
  BY DEF TypeOK
<1>2. OrderInv
  BY DEF OrderInv, Nobody, Pane
<1>3. LiveInv /\ TokenInv /\ KinInv /\ IdleInv /\ CloseInv /\ ToolReachesOwn
  BY DEF LiveInv, TokenInv, KinInv, IdleInv, CloseInv, ToolReachesOwn, Open
<1> QED BY <1>1, <1>2, <1>3 DEF IInv

THEOREM Invariant == Spec => []IInv
<1>1. Init => IInv
  BY InitInv
<1>2. IInv /\ [Next]_vars => IInv'
  BY TypeStep, OrderStep, LiveStep, TokenStep, KinStep, IdleStep, CloseStep, OwnStep DEF IInv
<1> QED BY <1>1, <1>2, PTL DEF Spec

(* Every variable keeps its type.                                          *)
THEOREM TypeCorrect == Spec => []TypeOK
<1>1. IInv => TypeOK
  BY DEF IInv
<1> QED BY <1>1, Invariant, PTL

(* The parentage map holds who opened whom: it has no cycle and gives no   *)
(* session two parents, however many threads file in it.                   *)
THEOREM ParentageIsTrue == Spec => []ParentIsOpener
<1>1. IInv => ParentIsOpener
  BY PaneFacts DEF IInv, TypeOK, OrderInv, KinInv, ParentIsOpener
<1> QED BY <1>1, Invariant, PTL

(* A session in the map whose token is not bound yet is behind the lock.   *)
THEOREM BoundBeforeSeen == Spec => []VisibleIsBound
<1>1. IInv => VisibleIsBound
  BY DEF IInv, TypeOK, LiveInv, VisibleIsBound, AgentsFree
<1> QED BY <1>1, Invariant, PTL

(* A closed session's token, entry and process are gone for good.          *)
THEOREM ShutIsShut == Spec => []ShutForGood
<1>1. IInv => ShutForGood
  BY DEF IInv, TypeOK, CloseInv, TokenInv, ShutForGood
<1> QED BY <1>1, Invariant, PTL

(* close_agents ends nothing but what its caller's delegations opened.     *)
THEOREM ToolStaysBelow == Spec => []ToolReachesOwn
<1>1. IInv => ToolReachesOwn
  BY DEF IInv
<1> QED BY <1>1, Invariant, PTL

-----------------------------------------------------------------------------
(* Of what a closer has still to end, everybody but the first opened has   *)
(* its opener there too: the list is worked through from its leaves.       *)
VictimsInv ==
    \A k \in Closers : \A p, q \in victims[k] : p < q => by[q] \in victims[k]

(* In the parentage map everybody below p came after p, and was opened by  *)
(* p or by somebody below it.                                              *)
LEMMA SubtreeJoined ==
  ASSUME IInv, NEW p \in Pane
  PROVE  \A q \in Below(children, p) : q \in Pane /\ p < q /\ by[q] \in Subtree(children, p)
<1>1. children \in [Pane -> SUBSET Pane]
  BY DEF IInv, TypeOK
<1>2. \A q \in Pane : \A r \in children[q] : by[r] = q /\ q < r /\ r \in Pane
  <2>1. \A q \in Pane : by[q] < q
    BY DEF IInv, OrderInv
  <2> QED BY <1>1, <2>1 DEF IInv, KinInv
<1>3. /\ Closed(children, Below(children, p)) /\ Below(children, p) \subseteq Pane
      /\ children[p] \subseteq Below(children, p)
  BY <1>1, BelowClosed, BelowKids
<1> DEFINE S == {q \in Below(children, p) : p < q /\ by[q] \in Subtree(children, p)}
<1>4. children[p] \subseteq S
  BY <1>2, <1>3 DEF Subtree
<1>5. Closed(children, S)
  <2>1. ASSUME NEW q \in S, NEW r \in children[q]
        PROVE  r \in S
    <3>1. q \in Pane /\ q \in Below(children, p) /\ p < q
      BY <1>3
    <3>2. r \in Below(children, p) /\ by[r] = q /\ q < r /\ r \in Pane
      BY <1>2, <1>3, <3>1 DEF Closed
    <3>3. p < r
      BY <3>1, <3>2, PaneFacts
    <3> QED BY <3>1, <3>2, <3>3 DEF Subtree
  <2> QED BY <2>1 DEF Closed
<1>6. Below(children, p) \subseteq S
  <2>1. S \in SUBSET DOMAIN children
    BY <1>1, <1>3
  <2> QED BY <1>4, <1>5, <2>1, BelowLeast
<1> QED BY <1>3, <1>6

LEMMA VictimsStep == IInv /\ VictimsInv /\ [Next]_vars => VictimsInv'
<1> SUFFICES ASSUME IInv, VictimsInv, [Next]_vars PROVE VictimsInv'
  OBVIOUS
<1> USE DEF openVars, procVars, tokenVars, kinVars, closeVars, Move
<1>0. /\ victims \in [Closers -> SUBSET Pane] /\ by \in [Pane -> Pane \cup {Nobody}]
      /\ \A k \in Closers : \A q \in victims[k] : stage[q] # "unborn"
  BY DEF IInv, TypeOK, CloseInv, Open
<1>1. CASE UNCHANGED <<by, victims>>
  BY <1>1 DEF VictimsInv
<1>2. ASSUME NEW p \in Pane, NEW parent \in Pane \cup {Nobody}, Issue(p, parent)
      PROVE  VictimsInv'
  <2>1. victims' = victims /\ stage[p] = "unborn" /\ \A q \in Pane \ {p} : by'[q] = by[q]
    BY <1>0, <1>2 DEF Issue
  <2>2. \A k \in Closers : \A q \in victims[k] : q \in Pane \ {p}
    BY <1>0, <2>1
  <2> QED BY <2>1, <2>2 DEF VictimsInv
<1>3. ASSUME NEW k \in Closers, NEW p \in Pane, Target(k, p)
      PROVE  VictimsInv'
  <2>1. /\ by' = by /\ victims'[k] = Subtree(children, p)
        /\ \A j \in Closers \ {k} : victims'[j] = victims[j]
    BY <1>0, <1>3 DEF Target
  <2>2. \A q \in Below(children, p) : q \in Pane /\ p < q /\ by[q] \in Subtree(children, p)
    BY SubtreeJoined
  <2>3. ASSUME NEW q \in Subtree(children, p), NEW r \in Subtree(children, p), q < r
        PROVE  by[r] \in Subtree(children, p)
    <3>1. r # p
      BY <2>2, <2>3, PaneFacts DEF Subtree
    <3> QED BY <2>2, <3>1 DEF Subtree
  <2>4. ASSUME NEW j \in Closers, NEW q \in victims'[j], NEW r \in victims'[j], q < r
        PROVE  by'[r] \in victims'[j]
    <3>1. CASE j = k
      BY <2>1, <2>3, <2>4, <3>1
    <3>2. CASE j # k
      BY <2>1, <2>4, <3>2 DEF VictimsInv
    <3> QED BY <3>1, <3>2
  <2> QED BY <2>4 DEF VictimsInv
<1>4. ASSUME NEW k \in Closers, NEW p \in Pane, EndProcess(k, p)
      PROVE  VictimsInv'
  <2>1. /\ by' = by /\ victims'[k] = victims[k] \ {p}
        /\ \A j \in Closers \ {k} : victims'[j] = victims[j]
        /\ \A q \in victims[k] : by[q] # p
    BY <1>0, <1>4 DEF EndProcess, Deepest
  <2>2. ASSUME NEW j \in Closers, NEW q \in victims'[j], NEW r \in victims'[j], q < r
        PROVE  by'[r] \in victims'[j]
    <3>1. q \in victims[j] /\ r \in victims[j] /\ by[r] \in victims[j]
      BY <2>1, <2>2 DEF VictimsInv
    <3> QED BY <2>1, <3>1
  <2> QED BY <2>2 DEF VictimsInv
<1>5. ASSUME NEW p \in Pane, OpenerStep(p) \/ Die(p)
      PROVE  UNCHANGED <<by, victims>>
  BY <1>5 DEF OpenerStep, Spawn, Fail, Insert, Bind, Flush, Claim, Record, Settle, Die
<1>6. ASSUME NEW k \in Closers, NEW p \in Pane, UserClose(k, p) \/ ToolClose(k, p)
      PROVE  UNCHANGED <<by, victims>>
  BY <1>6 DEF UserClose, ToolClose
<1>7. ASSUME NEW k \in Closers, ForgetToken(k) \/ ForgetKin(k) \/ Finish(k)
      PROVE  UNCHANGED <<by, victims>>
  BY <1>7 DEF ForgetToken, ForgetKin, Finish
<1>8. CASE UNCHANGED vars
  BY <1>1, <1>8 DEF vars
<1>9. CASE Next
  <2>1. CASE \E p \in Pane : UserOpen(p) \/ \E parent \in Pane : Delegate(parent, p)
    BY <1>2, <2>1 DEF UserOpen, Delegate
  <2>2. CASE \E p \in Pane : OpenerStep(p) \/ Die(p)
    BY <1>1, <1>5, <2>2
  <2>3. CASE \E k \in Closers : CloserStep(k) \/ \E p \in Pane : UserClose(k, p) \/ ToolClose(k, p)
    BY <1>1, <1>3, <1>4, <1>6, <1>7, <2>3 DEF CloserStep
  <2> QED BY <1>9, <2>1, <2>2, <2>3 DEF Next
<1> QED BY <1>8, <1>9

(* Whatever several closers do at once, each ends a session only after     *)
(* those it has still to end below it: close_agent ends a subtree from its *)
(* leaves, so no CLI runs on under a parent that was ended before it.      *)
THEOREM ChildrenEndFirst == Spec => ChildrenFirst
<1>1. Init => VictimsInv
  BY DEF Init, VictimsInv
<1>2. IInv /\ VictimsInv /\ [Next]_vars =>
        [\A k \in Closers, p \in Pane :
             p \in victims[k] \ victims'[k] /\ at[k] = "end" =>
                \A q \in victims[k] : q \notin Below(Offspring, p)]_vars
  <2> SUFFICES ASSUME IInv, VictimsInv, [Next]_vars, vars' # vars,
                      NEW k \in Closers, NEW p \in Pane,
                      p \in victims[k], p \notin victims'[k], at[k] = "end"
               PROVE  \A q \in victims[k] : q \notin Below(Offspring, p)
    OBVIOUS
  <2>1. EndProcess(k, p)
    <3> USE DEF openVars, procVars, tokenVars, kinVars, closeVars
    <3>1. victims \in [Closers -> SUBSET Pane]
      BY DEF IInv, TypeOK
    <3>2. victims' # victims
      OBVIOUS
    <3>3. \/ \E j \in Closers, r \in Pane : Target(j, r)
          \/ \E j \in Closers, r \in Pane : EndProcess(j, r)
      BY <3>2 DEF Next, OpenerStep, CloserStep, UserOpen, Delegate, Issue, Spawn, Fail, Insert, Bind, Flush,
           Claim, Record, Settle, Die, UserClose, ToolClose, ForgetToken, ForgetKin, Finish, vars
    <3>4. ASSUME NEW j \in Closers, NEW r \in Pane, Target(j, r)
          PROVE  FALSE
      BY <3>1, <3>4 DEF Target
    <3>5. ASSUME NEW j \in Closers, NEW r \in Pane, EndProcess(j, r)
          PROVE  j = k /\ r = p
      BY <3>1, <3>5 DEF EndProcess
    <3> QED BY <3>3, <3>4, <3>5
  <2>2. \A q \in victims[k] : by[q] # p
    BY <2>1 DEF EndProcess, Deepest
  <2>3. /\ Offspring \in [Pane -> SUBSET Pane] /\ victims[k] \subseteq Pane
        /\ \A q \in Pane : by[q] < q
    BY DEF Offspring, IInv, TypeOK, OrderInv
  <2> DEFINE S == {q \in Pane : p < q /\ q \notin victims[k]}
  <2>4. Offspring[p] \subseteq S
    BY <2>2, <2>3 DEF Offspring
  <2>5. Closed(Offspring, S)
    <3>1. ASSUME NEW q \in S, NEW r \in Offspring[q]
          PROVE  r \in S
      <4>1. r \in Pane /\ by[r] = q /\ q < r /\ p < q /\ q \in Pane
        BY <2>3 DEF Offspring
      <4>2. p < r
        <5>1. p \in Nat /\ q \in Nat /\ r \in Nat
          BY <4>1, PaneFacts
        <5> QED BY <4>1, <5>1
      <4>3. r \notin victims[k]
        BY <4>1, <4>2 DEF VictimsInv
      <4> QED BY <4>1, <4>2, <4>3
    <3> QED BY <3>1 DEF Closed
  <2>6. Below(Offspring, p) \subseteq S
    <3>1. S \in SUBSET DOMAIN Offspring
      BY <2>3
    <3> QED BY <2>4, <2>5, <3>1, BelowLeast
  <2> QED BY <2>6
<1>3. Spec => []VictimsInv
  BY <1>1, VictimsStep, Invariant, PTL DEF Spec
<1> QED BY <1>2, <1>3, Invariant, PTL DEF Spec, ChildrenFirst
-----------------------------------------------------------------------------
(* Parentage.  What a recursive function gives for every input is proved   *)
(* by the least input for which it does not.                               *)

\* A set of naturals has a least member.
LEMMA LeastOf ==
  ASSUME NEW T, T \subseteq Nat, T # {}
  PROVE  \E n \in T : \A m \in T : n <= m
<1>1. IsWellFoundedOn(OpToRel(<, Nat), Nat)
  BY NatLessThanWellFounded
<1>2. PICK n \in T : \A m \in T : ~(<<m, n>> \in OpToRel(<, Nat))
  BY <1>1, WFMin
<1>3. \A m \in T : ~(m < n)
  BY <1>2 DEF OpToRel
<1> QED BY <1>3

\* What is made of a value in n steps.
Steps(V, n) == [1 .. n -> [V -> V]]
Chain(V, base, n, F) ==
  {f \in [0 .. n -> V] : f[0] = base /\ \A i \in 1 .. n : f[i] = F[i][f[i - 1]]}

(* There is a function from 0 .. n that begins with base and of which each *)
(* value is made from the one before.                                      *)
LEMMA ChainExists ==
  ASSUME NEW V, NEW base \in V, NEW n \in Nat, NEW F \in Steps(V, n)
  PROVE  Chain(V, base, n, F) # {}
<1>0. \A i \in 1 .. n : F[i] \in [V -> V]
  BY DEF Steps
<1> DEFINE Made(f, m) == \A i \in 0 .. m : f[i] = IF i = 0 THEN base ELSE F[i][f[i - 1]]
           Bad == {m \in 0 .. n : ~\E f \in [0 .. m -> V] : Made(f, m)}
<1>1. Bad = {}
  <2>1. SUFFICES ASSUME Bad # {} PROVE FALSE
    OBVIOUS
  <2>2. PICK m \in Bad : \A k \in Bad : m <= k
    <3>1. Bad \subseteq Nat
      OBVIOUS
    <3> QED BY <2>1, <3>1, LeastOf
  <2>3. CASE m = 0
    <3>1. [i \in 0 .. 0 |-> base] \in [0 .. m -> V] /\ Made([i \in 0 .. 0 |-> base], m)
      BY <2>3
    <3> QED BY <2>2, <3>1
  <2>4. CASE m # 0
    <3>1. m \in 1 .. n /\ m - 1 \in 0 .. n /\ m - 1 \notin Bad
      <4>1. m \in 0 .. n
        BY <2>2
      <4> HIDE DEF Bad
      <4> QED BY <2>2, <2>4, <4>1
    <3>2. PICK f \in [0 .. m - 1 -> V] : Made(f, m - 1)
      BY <3>1
    <3> DEFINE g == [i \in 0 .. m |-> IF i < m THEN f[i] ELSE F[m][f[m - 1]]]
    <3>3. f[m - 1] \in V /\ F[m][f[m - 1]] \in V
      BY <1>0, <3>1
    <3>4. g \in [0 .. m -> V]
      BY <3>1, <3>3
    <3>5. ASSUME NEW i \in 0 .. m PROVE g[i] = IF i = 0 THEN base ELSE F[i][g[i - 1]]
      <4>1. CASE i = m
        BY <3>1, <4>1
      <4>2. CASE i # m /\ i # 0
        <5>1. g[i] = f[i] /\ g[i - 1] = f[i - 1] /\ i \in 0 .. m - 1
          BY <3>1, <4>2
        <5> QED BY <3>2, <4>2, <5>1
      <4>3. CASE i # m /\ i = 0
        <5>1. g[i] = f[i] /\ i \in 0 .. m - 1
          BY <3>1, <4>3
        <5> QED BY <3>2, <4>3, <5>1
      <4> QED BY <4>1, <4>2, <4>3
    <3> HIDE DEF g
    <3>6. Made(g, m)
      BY <3>5
    <3> QED BY <2>2, <3>4, <3>6
  <2> QED BY <2>3, <2>4
<1>2. PICK f \in [0 .. n -> V] : Made(f, n)
  BY <1>1
<1>3. ASSUME NEW i \in 1 .. n PROVE f[i] = F[i][f[i - 1]]
  <2>1. i \in 0 .. n /\ i # 0
    OBVIOUS
  <2> QED BY <1>2, <2>1
<1>4. f[0] = base
  BY <1>2
<1> QED BY <1>3, <1>4 DEF Chain

(* No entry is in what B gives for an earlier one: with Itself, no entry   *)
(* comes twice; with Sub, nobody comes before someone below it.            *)
Apart(B, list) == \A i, j \in DOMAIN list : i < j => list[j] \notin B[list[i]]

\* Lists with no entry of the second in what B gives for one of the first.
LEMMA JoinFacts ==
  ASSUME NEW A, NEW B, NEW s \in Seq(A), NEW t \in Seq(A)
  PROVE  /\ s \o t \in Seq(A) /\ Len(s \o t) = Len(s) + Len(t)
         /\ \A i \in 1 .. Len(s) : (s \o t)[i] = s[i]
         /\ ToSet(s \o t) = ToSet(s) \cup ToSet(t)
         /\ /\ Apart(B, s) /\ Apart(B, t)
            /\ \A x \in ToSet(s), y \in ToSet(t) : y \notin B[x]
            => Apart(B, s \o t)
<1> DEFINE u == s \o t
           m == Len(s)
           n == Len(t)
<1>1. /\ m \in Nat /\ n \in Nat /\ u \in Seq(A) /\ Len(u) = m + n
      /\ DOMAIN s = 1 .. m /\ DOMAIN t = 1 .. n /\ DOMAIN u = 1 .. m + n
      /\ \A i \in 1 .. m : u[i] = s[i]
      /\ \A i \in 1 .. m + n : i > m => u[i] = t[i - m]
  OBVIOUS
<1> HIDE DEF u, m, n
<1>2. ToSet(u) = ToSet(s) \cup ToSet(t)
  <2>1. ASSUME NEW i \in 1 .. m + n PROVE u[i] \in ToSet(s) \cup ToSet(t)
    <3>1. CASE i <= m
      <4>1. i \in 1 .. m /\ u[i] = s[i]
        BY <1>1, <3>1
      <4> QED BY <1>1, <4>1 DEF ToSet
    <3>2. CASE i > m
      <4>1. i - m \in 1 .. n
        BY <1>1, <3>2
      <4> QED BY <1>1, <3>2, <4>1 DEF ToSet
    <3> QED BY <1>1, <3>1, <3>2
  <2>2. ASSUME NEW i \in 1 .. m PROVE s[i] \in ToSet(u)
    <3>1. i \in 1 .. m + n
      BY <1>1
    <3> QED BY <1>1, <3>1 DEF ToSet
  <2>3. ASSUME NEW i \in 1 .. n PROVE t[i] \in ToSet(u)
    <3>1. i + m \in 1 .. m + n /\ i + m > m /\ (i + m) - m = i
      BY <1>1
    <3> QED BY <1>1, <3>1 DEF ToSet
  <2> QED BY <1>1, <2>1, <2>2, <2>3 DEF ToSet
<1>3. ASSUME Apart(B, s), Apart(B, t), \A x \in ToSet(s), y \in ToSet(t) : y \notin B[x]
      PROVE  Apart(B, u)
  <2>1. SUFFICES ASSUME NEW i \in 1 .. m + n, NEW j \in 1 .. m + n, i < j
                 PROVE  u[j] \notin B[u[i]]
    BY <1>1 DEF Apart
  <2>2. CASE j <= m
    <3>1. i \in 1 .. m /\ j \in 1 .. m
      BY <1>1, <2>1, <2>2
    <3> QED BY <1>1, <1>3, <2>1, <3>1 DEF Apart
  <2>3. CASE i > m
    <3>1. i - m \in 1 .. n /\ j - m \in 1 .. n /\ i - m < j - m /\ j > m
      BY <1>1, <2>1, <2>3
    <3>2. u[i] = t[i - m] /\ u[j] = t[j - m]
      BY <1>1, <2>3, <3>1
    <3> QED BY <1>1, <1>3, <3>1, <3>2 DEF Apart
  <2>4. CASE i <= m /\ j > m
    <3>1. i \in 1 .. m /\ j - m \in 1 .. n
      BY <1>1, <2>1, <2>4
    <3>2. u[i] = s[i] /\ u[j] = t[j - m]
      BY <1>1, <2>4, <3>1
    <3>3. u[i] \in ToSet(s) /\ u[j] \in ToSet(t)
      BY <1>1, <3>1, <3>2 DEF ToSet
    <3> QED BY <1>3, <3>3
  <2> QED BY <1>1, <2>2, <2>3, <2>4
<1> QED BY <1>1, <1>2, <1>3 DEF u, m, n

\* One entry more.
LEMMA AppendSet ==
  ASSUME NEW A, NEW s \in Seq(A), NEW e \in A
  PROVE  /\ Append(s, e) \in Seq(A)
         /\ ToSet(Append(s, e)) = ToSet(s) \cup {e}
<1>1. /\ Len(s) \in Nat /\ DOMAIN s = 1 .. Len(s) /\ DOMAIN Append(s, e) = 1 .. Len(s) + 1
      /\ Append(s, e)[Len(s) + 1] = e /\ \A i \in 1 .. Len(s) : Append(s, e)[i] = s[i]
  OBVIOUS
<1>2. 1 .. Len(s) + 1 = (1 .. Len(s)) \cup {Len(s) + 1}
  BY <1>1
<1>3. ToSet(Append(s, e)) = ToSet(s) \cup {e}
  BY <1>1, <1>2 DEF ToSet
<1> QED BY <1>3

LEMMA AppendApart ==
  ASSUME NEW A, NEW B, NEW s \in Seq(A), NEW e \in A,
         Apart(B, s), \A x \in ToSet(s) : e \notin B[x]
  PROVE  Apart(B, Append(s, e))
<1>1. /\ Len(s) \in Nat /\ DOMAIN s = 1 .. Len(s) /\ DOMAIN Append(s, e) = 1 .. Len(s) + 1
      /\ Append(s, e)[Len(s) + 1] = e /\ \A i \in 1 .. Len(s) : Append(s, e)[i] = s[i]
  OBVIOUS
<1>4. Apart(B, Append(s, e))
  <2>1. SUFFICES ASSUME NEW i \in 1 .. Len(s) + 1, NEW j \in 1 .. Len(s) + 1, i < j
                 PROVE  Append(s, e)[j] \notin B[Append(s, e)[i]]
    BY <1>1 DEF Apart
  <2>2. i \in 1 .. Len(s) /\ Append(s, e)[i] = s[i]
    BY <1>1, <2>1
  <2>3. CASE j <= Len(s)
    <3>1. j \in 1 .. Len(s) /\ Append(s, e)[j] = s[j]
      BY <1>1, <2>3
    <3> QED BY <1>1, <2>1, <2>2, <3>1 DEF Apart
  <2>4. CASE j = Len(s) + 1
    <3>1. s[i] \in ToSet(s)
      BY <1>1, <2>2 DEF ToSet
    <3> QED BY <1>1, <2>2, <2>4, <3>1
  <2> QED BY <1>1, <2>3, <2>4
<1> QED BY <1>4

LEMMA EmptyFacts ==
  ASSUME NEW A, NEW B
  PROVE  <<>> \in Seq(A) /\ ToSet(<<>>) = {} /\ Apart(B, <<>>)
BY DEF ToSet, Apart

(* Retain keeps the entries that are in S, and what is apart so.       *)
LEMMA RetainFacts ==
  ASSUME NEW A, NEW B, NEW S, NEW list \in Seq(A)
  PROVE  /\ Retain(list, S) \in Seq(A)
         /\ ToSet(Retain(list, S)) = ToSet(list) \cap S
         /\ Apart(B, list) => Apart(B, Retain(list, S))
<1> DEFINE upTo[i \in 0 .. Len(list)] ==
              IF i = 0 THEN <<>>
              ELSE IF list[i] \in S THEN Append(upTo[i - 1], list[i]) ELSE upTo[i - 1]
           n == Len(list)
           V == Seq(A)
           F == [i \in 1 .. n |->
                    [t \in V |-> IF list[i] \in S THEN Append(t, list[i]) ELSE t]]
<1>0. n = Len(list) /\ n \in Nat /\ DOMAIN list = 1 .. n /\ \A i \in 1 .. n : list[i] \in A
  OBVIOUS
<1>5. Retain(list, S) = upTo[n]
  BY DEF Retain
<1> HIDE DEF n
<1>1. F \in [1 .. n -> [V -> V]] /\ <<>> \in V
  <2>1. ASSUME NEW i \in 1 .. n, NEW t \in V
        PROVE  (IF list[i] \in S THEN Append(t, list[i]) ELSE t) \in V
    BY <1>0
  <2>2. <<>> \in V
    OBVIOUS
  <2> HIDE DEF V
  <2> QED BY <2>1, <2>2
<1> DEFINE none == <<>>
<1>9. none \in V
  BY <1>1
<1>2. PICK f \in [0 .. n -> V] : f[0] = none /\ \A i \in 1 .. n : f[i] = F[i][f[i - 1]]
  <2>1. n \in Nat /\ none \in V /\ F \in Steps(V, n)
    BY <1>0, <1>1, <1>9 DEF Steps
  <2> HIDE DEF F, V, none, upTo
  <2>2. Chain(V, none, n, F) # {}
    BY <2>1, ChainExists
  <2> QED BY <2>2 DEF Chain
<1>3. f = [i \in 0 .. n |-> IF i = 0 THEN <<>>
             ELSE IF list[i] \in S THEN Append(f[i - 1], list[i]) ELSE f[i - 1]]
  <2>1. ASSUME NEW i \in 0 .. n
        PROVE  f[i] = IF i = 0 THEN <<>>
                      ELSE IF list[i] \in S THEN Append(f[i - 1], list[i]) ELSE f[i - 1]
    <3>1. CASE i = 0
      BY <1>2, <3>1
    <3>2. CASE i # 0
      <4>1. i \in 1 .. n /\ i - 1 \in 0 .. n
        BY <1>0, <3>2
      <4>2. f[i] = F[i][f[i - 1]] /\ f[i - 1] \in V
        BY <1>2, <4>1
      <4> HIDE DEF V
      <4>3. F[i][f[i - 1]] = IF list[i] \in S THEN Append(f[i - 1], list[i]) ELSE f[i - 1]
        BY <4>1, <4>2
      <4> QED BY <3>2, <4>2, <4>3
    <3> QED BY <3>1, <3>2
  <2> HIDE DEF V
  <2> QED BY <2>1
<1>4. upTo = [i \in 0 .. n |-> IF i = 0 THEN <<>>
                ELSE IF list[i] \in S THEN Append(upTo[i - 1], list[i]) ELSE upTo[i - 1]]
  <2>1. \E h : h = [i \in 0 .. n |-> IF i = 0 THEN <<>>
                      ELSE IF list[i] \in S THEN Append(h[i - 1], list[i]) ELSE h[i - 1]]
    BY <1>3
  <2> QED BY <1>0, <2>1
<1> HIDE DEF upTo, F
<1> DEFINE Good(i) == /\ upTo[i] \in Seq(A)
                      /\ ToSet(upTo[i]) = {list[k] : k \in 1 .. i} \cap S
                      /\ Apart(B, list) => Apart(B, upTo[i])
           Bad == {i \in 0 .. n : ~Good(i)}
<1>6. Bad = {}
  <2>1. SUFFICES ASSUME Bad # {} PROVE FALSE
    OBVIOUS
  <2>2. PICK m \in Bad : \A k \in Bad : m <= k
    <3>1. Bad \subseteq Nat
      BY <1>0
    <3> QED BY <2>1, <3>1, LeastOf
  <2>3. CASE m = 0
    <3>1. upTo[m] = <<>>
      BY <1>0, <1>4, <2>3
    <3>2. ToSet(<<>>) = {} /\ Apart(B, <<>>) /\ <<>> \in Seq(A)
      BY EmptyFacts
    <3>3. {list[k] : k \in 1 .. m} = {}
      BY <2>3
    <3>4. Good(m)
      BY <3>1, <3>2, <3>3
    <3> QED BY <2>2, <3>4
  <2>4. CASE m # 0
    <3>1. m \in 1 .. n /\ m - 1 \in 0 .. n /\ m - 1 \notin Bad
      <4>1. m \in 0 .. n
        BY <2>2
      <4> HIDE DEF Bad
      <4> QED BY <1>0, <2>2, <2>4, <4>1
    <3>0. list[m] \in A /\ m \in Nat
      BY <1>0, <3>1
    <3>2. Good(m - 1)
      BY <3>1
    <3> DEFINE t == upTo[m - 1]
    <3>3. upTo[m] = IF list[m] \in S THEN Append(t, list[m]) ELSE t
      <4>1. m \in 0 .. n /\ m # 0
        BY <3>1
      <4> QED BY <1>4, <4>1
    <3>4. t \in Seq(A) /\ ToSet(t) = {list[k] : k \in 1 .. m - 1} \cap S
          /\ (Apart(B, list) => Apart(B, t))
      BY <3>2
    <3> HIDE DEF t
    <3>5. {list[k] : k \in 1 .. m} = {list[k] : k \in 1 .. m - 1} \cup {list[m]}
      <4>1. 1 .. m = (1 .. m - 1) \cup {m}
        BY <3>1
      <4> QED BY <4>1
    <3>6. CASE list[m] \notin S
      <4>1. Good(m)
        BY <3>3, <3>4, <3>5, <3>6
      <4> QED BY <2>2, <4>1
    <3>7. CASE list[m] \in S
      <4>1. /\ Append(t, list[m]) \in Seq(A)
            /\ ToSet(Append(t, list[m])) = ToSet(t) \cup {list[m]}
        BY <3>0, <3>4, AppendSet
      <4>2. ASSUME Apart(B, list) PROVE Apart(B, Append(t, list[m]))
        <5>1. ASSUME NEW x \in ToSet(t) PROVE list[m] \notin B[x]
          <6>1. PICK k \in 1 .. m - 1 : x = list[k]
            BY <3>4
          <6>2. k \in DOMAIN list /\ m \in DOMAIN list /\ k < m
            BY <1>0, <3>1
          <6> QED BY <4>2, <6>1, <6>2 DEF Apart
        <5>2. t \in Seq(A) /\ Apart(B, t)
          BY <3>4, <4>2
        <5> QED BY <3>0, <5>1, <5>2, AppendApart
      <4>3. Good(m)
        BY <3>3, <3>4, <3>5, <3>7, <4>1, <4>2
      <4> QED BY <2>2, <4>3
    <3> QED BY <3>6, <3>7
  <2> QED BY <2>3, <2>4
<1>7. Good(n)
  <2>1. n \in 0 .. n /\ n \notin Bad
    <3> HIDE DEF Bad
    <3> QED BY <1>0, <1>6
  <2> QED BY <2>1
<1>8. ToSet(list) = {list[k] : k \in 1 .. n}
  BY <1>0 DEF ToSet
<1> QED BY <1>5, <1>7, <1>8

-----------------------------------------------------------------------------
\* No session is a child of two, and none is its own elder.
Tidy(kids) ==
    /\ kids \in [Session -> SUBSET Session]
    /\ \A p \in Session : \A c \in kids[p] : p < c
    /\ \A p, q \in Session : p # q => kids[p] \cap kids[q] = {}

\* Each session alone.
Itself == [x \in Session |-> {x}]

(* The inductive invariant of HubSpec: a child comes after its parent, has *)
(* been recorded, and is on one list, once.                                *)
HubInv ==
    /\ HubTypeOK
    /\ Tidy(Sets)
    /\ \A p \in Session : Sets[p] \subseteq known /\ Apart(Itself, recorded[p])

(* Who is below comes after.                                               *)
LEMMA BelowLater ==
  ASSUME NEW kids, Tidy(kids), NEW p \in Session, NEW q \in Below(kids, p)
  PROVE  q \in Session /\ p < q
<1> DEFINE S == {r \in Session : p < r}
<1>1. kids \in [Session -> SUBSET Session] /\ Session \subseteq Nat
  BY DEF Tidy, Session
<1>2. S \in SUBSET DOMAIN kids /\ kids[p] \subseteq S
  BY <1>1 DEF Tidy
<1>3. Closed(kids, S)
  <2>1. ASSUME NEW r \in S, NEW c \in kids[r] PROVE c \in S
    <3>1. c \in Session /\ r < c /\ p < r
      BY <1>1, <2>1 DEF Tidy
    <3> QED BY <1>1, <3>1
  <2> QED BY <2>1 DEF Closed
<1>4. Below(kids, p) \subseteq S
  BY <1>2, <1>3, BelowLeast
<1> QED BY <1>4

(* Below p are its children and who is below them.                         *)
LEMMA BelowParts ==
  ASSUME NEW kids, Tidy(kids), NEW p \in Session
  PROVE  Below(kids, p) = UNION {Subtree(kids, c) : c \in kids[p]}
<1> DEFINE U == UNION {Subtree(kids, c) : c \in kids[p]}
<1>1. kids \in [Session -> SUBSET Session] /\ kids[p] \subseteq Session
  BY DEF Tidy
<1>2. ASSUME NEW c \in kids[p] PROVE Subtree(kids, c) \subseteq Below(kids, p)
  BY <1>1, <1>2, BelowKids, SubtreeBelow
<1>3. ASSUME NEW c \in kids[p] PROVE Below(kids, c) \subseteq Session
  BY <1>1, <1>3, BelowClosed
<1>4. U \in SUBSET DOMAIN kids /\ kids[p] \subseteq U
  BY <1>1, <1>3 DEF Subtree
<1>5. Closed(kids, U)
  <2>1. ASSUME NEW c \in kids[p], NEW q \in Subtree(kids, c) PROVE kids[q] \subseteq Subtree(kids, c)
    <3>1. c \in Session
      BY <1>1, <2>1
    <3>2. kids[c] \subseteq Below(kids, c) /\ Closed(kids, Below(kids, c))
      BY <1>1, <3>1, BelowKids, BelowClosed
    <3> QED BY <2>1, <3>2 DEF Subtree, Closed
  <2> QED BY <2>1 DEF Closed
<1>6. Below(kids, p) \subseteq U
  BY <1>4, <1>5, BelowLeast
<1> QED BY <1>2, <1>6

(* Who is below p is the child of somebody of p's subtree.                 *)
LEMMA BelowHasParent ==
  ASSUME NEW kids, Tidy(kids), NEW p \in Session, NEW q \in Below(kids, p)
  PROVE  \E r \in Subtree(kids, p) : r \in Session /\ q \in kids[r]
<1> DEFINE S == {x \in Below(kids, p) : \E r \in Subtree(kids, p) : r \in Session /\ x \in kids[r]}
<1>1. kids \in [Session -> SUBSET Session]
  BY DEF Tidy
<1>2. Closed(kids, Below(kids, p)) /\ Below(kids, p) \subseteq Session /\ kids[p] \subseteq Below(kids, p)
  BY <1>1, BelowClosed, BelowKids
<1>3. S \in SUBSET DOMAIN kids /\ kids[p] \subseteq S
  BY <1>1, <1>2 DEF Subtree
<1>4. Closed(kids, S)
  BY <1>2 DEF Closed, Subtree
<1>5. Below(kids, p) \subseteq S
  BY <1>3, <1>4, BelowLeast
<1> QED BY <1>5

(* The subtrees of two children have nobody in common.                     *)
LEMMA SubtreesApart ==
  ASSUME NEW kids, Tidy(kids), NEW p \in Session, NEW c \in kids[p], NEW d \in kids[p], c # d
  PROVE  Subtree(kids, c) \cap Subtree(kids, d) = {}
<1> DEFINE T == Subtree(kids, c) \cap Subtree(kids, d)
<1>1. /\ kids \in [Session -> SUBSET Session] /\ c \in Session /\ d \in Session /\ Session \subseteq Nat
      /\ p < c /\ p < d
  BY DEF Tidy, Session
<1>2. ASSUME NEW e \in Session, NEW x \in Subtree(kids, e)
      PROVE  x \in Session /\ e <= x
  <2>1. CASE x = e
    BY <1>1, <2>1
  <2>2. CASE x \in Below(kids, e)
    <3>1. x \in Session /\ e < x
      BY <1>2, <2>2, BelowLater
    <3> QED BY <1>1, <3>1
  <2> QED BY <1>2, <2>1, <2>2 DEF Subtree
<1>3. SUFFICES ASSUME T # {} PROVE FALSE
  OBVIOUS
<1>4. PICK x \in T : \A y \in T : x <= y
  <2>1. T \subseteq Nat
    BY <1>1, <1>2
  <2> QED BY <1>3, <2>1, LeastOf
<1>5. ASSUME NEW e \in kids[p], NEW f \in kids[p], e # f, e \in Session, f \in Session, p < e, p < f,
             e \in Below(kids, f)
      PROVE  FALSE
  <2>1. PICK r \in Subtree(kids, f) : r \in Session /\ e \in kids[r]
    BY <1>5, BelowHasParent
  <2>2. r = p
    BY <1>5, <2>1 DEF Tidy
  <2>3. f <= r
    BY <1>2, <1>5, <2>1
  <2> QED BY <1>1, <1>5, <2>2, <2>3
<1>6. x \in Below(kids, c) /\ x \in Below(kids, d)
  <2>1. ~(x = c /\ x \in Below(kids, d))
    BY <1>1, <1>5
  <2>2. ~(x = d /\ x \in Below(kids, c))
    BY <1>1, <1>5
  <2> QED BY <1>4, <2>1, <2>2 DEF Subtree
<1>7. PICK r \in Subtree(kids, c) : r \in Session /\ x \in kids[r]
  BY <1>1, <1>6, BelowHasParent
<1>8. PICK s \in Subtree(kids, d) : s \in Session /\ x \in kids[s]
  BY <1>1, <1>6, BelowHasParent
<1>9. r = s /\ r < x /\ x \in Session
  BY <1>7, <1>8 DEF Tidy
<1>10. r \in T
  BY <1>7, <1>8, <1>9
<1>11. x <= r
  BY <1>4, <1>10
<1> QED BY <1>1, <1>7, <1>9, <1>11

(* A parent is in no subtree below it, nor one child's in another's.       *)
LEMMA ParentsLast ==
  ASSUME NEW kids, Tidy(kids), NEW c \in Session, NEW x \in Below(kids, c)
  PROVE  c \notin Subtree(kids, x)
<1>1. x \in Session /\ c < x /\ Session \subseteq Nat
  BY BelowLater DEF Session
<1>2. ASSUME c \in Below(kids, x) PROVE FALSE
  <2>1. x < c
    BY <1>1, <1>2, BelowLater
  <2> QED BY <1>1, <2>1
<1> QED BY <1>1, <1>2 DEF Subtree

LEMMA SubtreeIn ==
  ASSUME NEW kids, Tidy(kids), NEW c \in Session, NEW x \in Subtree(kids, c)
  PROVE  Subtree(kids, x) \subseteq Subtree(kids, c)
<1>1. kids \in [Session -> SUBSET Session]
  BY DEF Tidy
<1> QED BY <1>1, SubtreeBelow DEF Subtree

-----------------------------------------------------------------------------
(* A spot has its place in the walk: the spots its value is made of.       *)
LEMMA SpotFacts ==
  ASSUME HubInv, NEW sp \in Spots
  PROVE  /\ sp[1] \in Session /\ sp[2] \in Nat /\ sp[2] <= Len(recorded[sp[1]])
         /\ sp = <<sp[1], sp[2]>>
         /\ sp[2] # 0 => /\ sp[2] \in 1 .. Len(recorded[sp[1]])
                         /\ Earlier(sp) \in Spots
                         /\ Earlier(sp)[1] = sp[1] /\ Earlier(sp)[2] = sp[2] - 1
                         /\ Kid(sp) \in Sets[sp[1]] /\ Kid(sp) \in Session /\ sp[1] < Kid(sp)
                         /\ All(Kid(sp)) \in Spots
                         /\ All(Kid(sp))[1] = Kid(sp)
                         /\ All(Kid(sp))[2] = Len(recorded[Kid(sp)])
<1>1. /\ sp[1] \in Session /\ sp[2] \in Nat /\ sp[2] <= Len(recorded[sp[1]])
      /\ sp = <<sp[1], sp[2]>>
  BY DEF Spots
<1>2. recorded \in [Session -> Seq(Session)] /\ Tidy(Sets)
  BY DEF HubInv, HubTypeOK
<1>3. ASSUME sp[2] # 0
      PROVE  /\ sp[2] \in 1 .. Len(recorded[sp[1]])
             /\ Earlier(sp) \in Spots
             /\ Earlier(sp)[1] = sp[1] /\ Earlier(sp)[2] = sp[2] - 1
             /\ Kid(sp) \in Sets[sp[1]] /\ Kid(sp) \in Session /\ sp[1] < Kid(sp)
             /\ All(Kid(sp)) \in Spots
             /\ All(Kid(sp))[1] = Kid(sp)
             /\ All(Kid(sp))[2] = Len(recorded[Kid(sp)])
  <2>1. recorded[sp[1]] \in Seq(Session) /\ Len(recorded[sp[1]]) \in Nat
    BY <1>1, <1>2
  <2>2. sp[2] \in 1 .. Len(recorded[sp[1]])
    BY <1>1, <1>3, <2>1
  <2>3. Earlier(sp) = <<sp[1], sp[2] - 1>> /\ sp[2] - 1 \in Nat /\ sp[2] - 1 <= Len(recorded[sp[1]])
    BY <1>1, <2>1, <2>2 DEF Earlier
  <2>4. Earlier(sp) \in Spots /\ Earlier(sp)[1] = sp[1] /\ Earlier(sp)[2] = sp[2] - 1
    BY <1>1, <2>3 DEF Spots
  <2>5. Kid(sp) \in Session /\ Kid(sp) \in ToSet(recorded[sp[1]])
    BY <2>1, <2>2 DEF Kid, ToSet
  <2>6. Kid(sp) \in Sets[sp[1]] /\ sp[1] < Kid(sp)
    BY <1>1, <1>2, <2>5 DEF Sets, Tidy
  <2>7. Len(recorded[Kid(sp)]) \in Nat
    BY <1>2, <2>5
  <2>8. All(Kid(sp)) = <<Kid(sp), Len(recorded[Kid(sp)])>>
    BY DEF All
  <2>9. All(Kid(sp)) \in Spots /\ All(Kid(sp))[1] = Kid(sp)
        /\ All(Kid(sp))[2] = Len(recorded[Kid(sp)])
    BY <2>5, <2>7, <2>8 DEF Spots
  <2> QED BY <2>2, <2>4, <2>5, <2>6, <2>9
<1> QED BY <1>1, <1>3

LEMMA AllSpots ==
  ASSUME HubInv, NEW p \in Session, NEW i \in 0 .. Len(recorded[p])
  PROVE  /\ <<p, i>> \in Spots /\ All(p) \in Spots /\ All(p) = <<p, Len(recorded[p])>>
<1>1. Len(recorded[p]) \in Nat
  BY DEF HubInv, HubTypeOK
<1> QED BY <1>1 DEF Spots, All

\* Among some spots there is one of which none of those it is made of is.
LEMMA SpotLeast ==
  ASSUME HubInv, NEW T \in SUBSET Spots, T # {}
  PROVE  \E sp \in T : sp[2] # 0 => Earlier(sp) \notin T /\ All(Kid(sp)) \notin T
<1>1. Session \subseteq Nat /\ MaxSessions \in Nat /\ \A p \in Session : p <= MaxSessions
  BY ParentageAssumption DEF Session
<1> DEFINE Up == {MaxSessions - sp[1] : sp \in T}
<1>2. \A sp \in T : sp[1] \in Session /\ sp[2] \in Nat
  BY SpotFacts
<1>3. PICK u \in Up : \A m \in Up : u <= m
  <2>1. ASSUME NEW sp \in T PROVE MaxSessions - sp[1] \in Nat
    <3>1. sp[1] \in Nat /\ sp[1] <= MaxSessions
      BY <1>1, <1>2
    <3> QED BY <1>1, <3>1
  <2>2. Up \subseteq Nat /\ Up # {}
    BY <2>1
  <2> HIDE DEF Up
  <2> QED BY <2>2, LeastOf
<1>4. PICK a \in T : u = MaxSessions - a[1]
  BY <1>3
<1> DEFINE Far == {sp[2] : sp \in {b \in T : b[1] = a[1]}}
<1>5. PICK f \in Far : \A m \in Far : f <= m
  <2>1. Far \subseteq Nat /\ Far # {}
    BY <1>2, <1>4
  <2> HIDE DEF Far
  <2> QED BY <2>1, LeastOf
<1>6. PICK sp \in T : sp[1] = a[1] /\ sp[2] = f
  BY <1>5
<1>7. ASSUME sp[2] # 0 PROVE Earlier(sp) \notin T /\ All(Kid(sp)) \notin T
  <2>1. sp \in Spots
    OBVIOUS
  <2>2. /\ Earlier(sp)[1] = sp[1] /\ Earlier(sp)[2] = sp[2] - 1 /\ sp[2] \in Nat
        /\ Kid(sp) \in Session /\ sp[1] < Kid(sp) /\ sp[1] \in Session
        /\ All(Kid(sp))[1] = Kid(sp)
    BY <1>7, <2>1, SpotFacts
  <2>3. Earlier(sp) \notin T
    <3>1. ASSUME Earlier(sp) \in T PROVE FALSE
      <4>1. sp[2] - 1 \in Far
        BY <1>6, <2>2, <3>1
      <4>2. f <= sp[2] - 1
        BY <1>5, <4>1
      <4> QED BY <1>6, <2>2, <4>2
    <3> QED BY <3>1
  <2>4. All(Kid(sp)) \notin T
    <3>1. ASSUME All(Kid(sp)) \in T PROVE FALSE
      <4>1. MaxSessions - Kid(sp) \in Up
        BY <2>2, <3>1
      <4>2. u <= MaxSessions - Kid(sp)
        BY <1>3, <4>1
      <4>3. MaxSessions \in Nat /\ sp[1] \in Nat /\ Kid(sp) \in Nat
        BY <1>1, <2>2
      <4> HIDE DEF Up
      <4>4. u = MaxSessions - sp[1] /\ sp[1] < Kid(sp)
        BY <1>4, <1>6, <2>2
      <4> QED BY <4>2, <4>3, <4>4
    <3> QED BY <3>1
  <2> QED BY <2>3, <2>4
<1> QED BY <1>7

(* There is a function on the spots that is base where a session begins,   *)
(* and is made elsewhere from the spot before and from all of the child's. *)
Joins(V) == [Session -> [V -> [V -> V]]]
Walk(V, base, G) ==
  {f \in [Spots -> V] : \A sp \in Spots :
      f[sp] = IF sp[2] = 0 THEN base ELSE G[Kid(sp)][f[Earlier(sp)]][f[All(Kid(sp))]]}

LEMMA WalkExists ==
  ASSUME HubInv, NEW V, NEW base \in V, NEW G \in Joins(V)
  PROVE  Walk(V, base, G) # {}
<1>0. /\ Session \subseteq Nat /\ MaxSessions \in Nat
      /\ \A p \in Session : 1 <= p /\ p <= MaxSessions
      /\ \A p \in Nat : 1 <= p /\ p <= MaxSessions => p \in Session
  BY ParentageAssumption DEF Session
<1> DEFINE N == MaxSessions
           Part(m) == {sp \in Spots : sp[1] > N - m}
           Fits(f, sp) == f[sp] = IF sp[2] = 0 THEN base
                                  ELSE G[Kid(sp)][f[Earlier(sp)]][f[All(Kid(sp))]]
           Made(m) == \E f \in [Part(m) -> V] : \A sp \in Part(m) : Fits(f, sp)
           Bad == {m \in 0 .. N : ~Made(m)}
<1>1. Bad = {}
  <2>1. SUFFICES ASSUME Bad # {} PROVE FALSE
    OBVIOUS
  <2>2. PICK m \in Bad : \A k \in Bad : m <= k
    <3>1. Bad \subseteq Nat
      OBVIOUS
    <3> QED BY <2>1, <3>1, LeastOf
  <2>3. m \in 0 .. N /\ ~Made(m)
    BY <2>2
  <2>4. CASE m = 0
    <3>1. Part(m) = {}
      <4>1. \A sp \in Spots : sp[1] \in Session
        BY SpotFacts
      <4>2. ASSUME NEW sp \in Spots PROVE ~(sp[1] > N - 0)
        <5>1. sp[1] \in Nat /\ sp[1] <= N
          BY <1>0, <4>1
        <5> QED BY <1>0, <5>1
      <4> QED BY <2>4, <4>2
    <3>2. [sp \in {} |-> base] \in [Part(m) -> V]
      BY <3>1
    <3>3. Made(m)
      BY <3>1, <3>2
    <3> QED BY <2>3, <3>3
  <2>5. CASE m # 0
    <3> DEFINE p == N - m + 1
               n == Len(recorded[p])
    <3>1. /\ m \in Nat /\ m - 1 \in 0 .. N /\ Made(m - 1) /\ p \in Session
          /\ p > N - m /\ N - (m - 1) = p
      <4>1. m - 1 \in 0 .. N /\ m - 1 \notin Bad
        <5>1. m \in Nat /\ m - 1 \in 0 .. N
          BY <1>0, <2>3, <2>5
        <5> HIDE DEF Bad
        <5> QED BY <2>2, <5>1
      <4>2. m \in Nat /\ p \in Session /\ p > N - m /\ N - (m - 1) = p
        BY <1>0, <2>3, <2>5
      <4> HIDE DEF Made
      <4> QED BY <4>1, <4>2
    <3>2. PICK f \in [Part(m - 1) -> V] : \A sp \in Part(m - 1) : Fits(f, sp)
      BY <3>1
    <3>3. n \in Nat /\ recorded[p] \in Seq(Session)
      BY <3>1 DEF HubInv, HubTypeOK
    <3>4. ASSUME NEW c \in Session, c > p
          PROVE  All(c) \in Part(m - 1) /\ f[All(c)] \in V
      <4>1. All(c) \in Spots /\ All(c)[1] = c
        <5>1. Len(recorded[c]) \in Nat
          BY DEF HubInv, HubTypeOK
        <5> QED BY <5>1 DEF All, Spots
      <4>2. c > N - (m - 1)
        BY <3>1, <3>4
      <4> QED BY <4>1, <4>2
    <3>5. ASSUME NEW i \in 1 .. n
          PROVE  recorded[p][i] \in Session /\ recorded[p][i] > p
      <4>1. recorded[p][i] \in Session /\ recorded[p][i] \in Sets[p]
        BY <3>1, <3>3 DEF ToSet, Sets
      <4>2. p < recorded[p][i]
        BY <3>1, <4>1 DEF HubInv, Tidy
      <4> QED BY <1>0, <3>1, <4>1, <4>2
    <3> DEFINE F == [i \in 1 .. n |-> [t \in V |-> G[recorded[p][i]][t][f[All(recorded[p][i])]]]]
    <3>6. F \in Steps(V, n)
      <4>1. ASSUME NEW i \in 1 .. n, NEW t \in V
            PROVE  G[recorded[p][i]][t][f[All(recorded[p][i])]] \in V
        BY <3>4, <3>5 DEF Joins
      <4> HIDE DEF n
      <4> QED BY <4>1 DEF Steps
    <3>7. PICK h \in [0 .. n -> V] : h[0] = base /\ \A i \in 1 .. n : h[i] = F[i][h[i - 1]]
      <4>1. n \in Nat
        BY <3>3
      <4> HIDE DEF F, n
      <4>2. Chain(V, base, n, F) # {}
        BY <3>6, <4>1, ChainExists
      <4> QED BY <4>2 DEF Chain
    <3> DEFINE g == [sp \in Part(m) |-> IF sp[1] = p THEN h[sp[2]] ELSE f[sp]]
    <3>8. ASSUME NEW sp \in Part(m)
          PROVE  /\ sp \in Spots /\ sp[1] \in Session /\ sp[2] \in Nat
                 /\ sp[1] = p => sp[2] \in 0 .. n
                 /\ sp[1] # p => sp \in Part(m - 1)
      <4>1. sp \in Spots /\ sp[1] \in Session /\ sp[2] \in Nat /\ sp[2] <= Len(recorded[sp[1]]) /\ sp[1] > N - m
        BY SpotFacts
      <4>2. sp[1] = p => sp[2] \in 0 .. n
        BY <3>3, <4>1
      <4>3. ASSUME sp[1] # p PROVE sp \in Part(m - 1)
        <5>1. sp[1] > N - (m - 1)
          <6>1. sp[1] \in Nat /\ N \in Nat /\ m \in Nat /\ sp[1] # p /\ sp[1] > N - m
            BY <1>0, <3>1, <4>1, <4>3
          <6> QED BY <6>1
        <5> QED BY <4>1, <5>1
      <4> QED BY <4>1, <4>2, <4>3
    <3>9. g \in [Part(m) -> V]
      <4>1. ASSUME NEW sp \in Part(m) PROVE (IF sp[1] = p THEN h[sp[2]] ELSE f[sp]) \in V
        BY <3>2, <3>7, <3>8
      <4> HIDE DEF Part
      <4> QED BY <4>1
    <3>10. ASSUME NEW sp \in Part(m) PROVE Fits(g, sp)
      <4>1. g[sp] = IF sp[1] = p THEN h[sp[2]] ELSE f[sp]
        OBVIOUS
      <4>2. CASE sp[2] = 0
        <5>1. CASE sp[1] = p
          BY <3>7, <4>1, <4>2, <5>1
        <5>2. CASE sp[1] # p
          BY <3>2, <3>8, <4>1, <4>2, <5>2
        <5> QED BY <5>1, <5>2
      <4>3. CASE sp[2] # 0
        <5>1. /\ sp[2] \in 1 .. Len(recorded[sp[1]])
              /\ Earlier(sp) \in Spots
              /\ Earlier(sp)[1] = sp[1] /\ Earlier(sp)[2] = sp[2] - 1
              /\ Kid(sp) \in Session /\ sp[1] < Kid(sp) /\ sp[1] \in Session
              /\ All(Kid(sp)) \in Spots /\ All(Kid(sp))[1] = Kid(sp)
          BY <3>8, <4>3, SpotFacts
        <5>2. sp[1] > N - m
          OBVIOUS
        <5>3. Kid(sp) > N - m /\ Kid(sp) # p
          <6>1. sp[1] \in Nat /\ Kid(sp) \in Nat /\ N \in Nat /\ m \in Nat
            BY <1>0, <3>1, <5>1
          <6>2. sp[1] < Kid(sp) /\ sp[1] > N - m
            BY <5>1, <5>2
          <6> QED BY <6>1, <6>2
        <5>4. Earlier(sp) \in Part(m) /\ All(Kid(sp)) \in Part(m)
          BY <5>1, <5>2, <5>3
        <5>5. g[All(Kid(sp))] = f[All(Kid(sp))]
          BY <5>1, <5>3, <5>4
        <5>6. g[Earlier(sp)] = IF sp[1] = p THEN h[sp[2] - 1] ELSE f[Earlier(sp)]
          BY <5>1, <5>4
        <5>7. CASE sp[1] = p
          <6>1. sp[2] \in 1 .. n /\ Kid(sp) = recorded[p][sp[2]]
            BY <5>1, <5>7 DEF Kid
          <6>2. h[sp[2]] = F[sp[2]][h[sp[2] - 1]] /\ h[sp[2] - 1] \in V
            <7>1. sp[2] - 1 \in 0 .. n
              BY <3>3, <6>1
            <7> QED BY <3>7, <6>1, <7>1
          <6>3. h[sp[2]] = G[Kid(sp)][h[sp[2] - 1]][f[All(Kid(sp))]]
            BY <6>1, <6>2
          <6> QED BY <4>1, <4>3, <5>5, <5>6, <5>7, <6>3
        <5>8. CASE sp[1] # p
          <6>1. sp \in Part(m - 1)
            BY <3>8, <5>8
          <6>2. f[sp] = G[Kid(sp)][f[Earlier(sp)]][f[All(Kid(sp))]]
            BY <3>2, <4>3, <6>1
          <6> QED BY <4>1, <4>3, <5>5, <5>6, <5>8, <6>2
        <5> QED BY <5>7, <5>8
      <4> QED BY <4>2, <4>3
    <3> HIDE DEF g, Fits, Part
    <3>11. Made(m)
      BY <3>9, <3>10
    <3> QED BY <2>3, <3>11
  <2> QED BY <2>4, <2>5
<1>2. N \in 0 .. N /\ N \notin Bad
  <2> HIDE DEF Bad
  <2> QED BY <1>0, <1>1
<1>3. Made(N)
  <2> HIDE DEF Made
  <2> QED BY <1>2
<1>4. Part(N) = Spots
  <2>1. \A sp \in Spots : sp[1] \in Session
    BY SpotFacts
  <2>2. ASSUME NEW sp \in Spots PROVE sp[1] > N - N
    <3>1. sp[1] \in Nat /\ 1 <= sp[1]
      BY <1>0, <2>1
    <3> QED BY <1>0, <3>1
  <2> QED BY <2>2
<1>5. PICK f \in [Spots -> V] : \A sp \in Spots : Fits(f, sp)
  BY <1>3, <1>4
<1> QED BY <1>5 DEF Walk

-----------------------------------------------------------------------------
\* Each session with everyone below it.
Sub == [x \in Session |-> Subtree(Sets, x)]

\* The subtrees of the children that have been passed.
Passed(sp) == UNION {Subtree(Sets, recorded[sp[1]][i]) : i \in 1 .. sp[2]}

\* A child's subtree comes after those of the children before it.
LEMMA PassedFacts ==
  ASSUME HubInv, NEW sp \in Spots
  PROVE  /\ sp[2] = 0 => Passed(sp) = {}
         /\ Passed(sp) \subseteq Session
         /\ sp[2] # 0 =>
              /\ Passed(sp) = Passed(Earlier(sp)) \cup Subtree(Sets, Kid(sp))
              /\ \A x \in Passed(Earlier(sp)), y \in Subtree(Sets, Kid(sp)) : y \notin Subtree(Sets, x)
              /\ Passed(Earlier(sp)) \cap Subtree(Sets, Kid(sp)) = {}
<1> DEFINE p == sp[1]
           list == recorded[p]
<1>1. p \in Session /\ sp[2] \in Nat /\ sp[2] <= Len(list) /\ list \in Seq(Session) /\ Tidy(Sets)
      /\ Len(list) \in Nat
  BY SpotFacts DEF HubInv, HubTypeOK
<1>2. \A i \in 1 .. sp[2] : i \in 1 .. Len(list) /\ list[i] \in Session /\ list[i] \in Sets[p]
  BY <1>1 DEF Sets, ToSet
<1>3. sp[2] = 0 => Passed(sp) = {}
  BY DEF Passed
<1>4. \A c \in Session : Below(Sets, c) \subseteq Session /\ Subtree(Sets, c) \subseteq Session
  <2>1. Sets \in [Session -> SUBSET Session]
    BY <1>1 DEF Tidy
  <2> QED BY <2>1, BelowClosed DEF Subtree
<1>5. Passed(sp) \subseteq Session
  BY <1>2, <1>4 DEF Passed
<1>6. ASSUME sp[2] # 0
      PROVE  /\ Passed(sp) = Passed(Earlier(sp)) \cup Subtree(Sets, Kid(sp))
             /\ \A x \in Passed(Earlier(sp)), y \in Subtree(Sets, Kid(sp)) : y \notin Subtree(Sets, x)
             /\ Passed(Earlier(sp)) \cap Subtree(Sets, Kid(sp)) = {}
  <2>1. /\ Earlier(sp)[1] = p /\ Earlier(sp)[2] = sp[2] - 1 /\ sp[2] \in 1 .. Len(list)
        /\ Kid(sp) = list[sp[2]] /\ Kid(sp) \in Sets[p]
    BY <1>6, SpotFacts DEF Kid
  <2>2. 1 .. sp[2] = (1 .. (sp[2] - 1)) \cup {sp[2]}
    BY <2>1
  <2>3. Passed(sp) = Passed(Earlier(sp)) \cup Subtree(Sets, Kid(sp))
    BY <2>1, <2>2 DEF Passed
  <2>4. ASSUME NEW x \in Passed(Earlier(sp)), NEW y \in Subtree(Sets, Kid(sp))
        PROVE  y \notin Subtree(Sets, x) /\ x \notin Subtree(Sets, Kid(sp))
    <3>1. PICK i \in 1 .. (sp[2] - 1) : x \in Subtree(Sets, list[i])
      BY <2>1 DEF Passed
    <3>2. i \in 1 .. Len(list) /\ i < sp[2] /\ i \in 1 .. sp[2]
      BY <1>1, <2>1
    <3>3. list[i] \in Sets[p] /\ list[i] \in Session /\ list[sp[2]] \in Session
      BY <1>2, <2>1, <3>2
    <3>4. list[i] # Kid(sp)
      <4>1. Apart(Itself, list)
        BY <1>1 DEF HubInv
      <4>2. list[sp[2]] \notin Itself[list[i]]
        BY <1>1, <2>1, <3>2, <4>1 DEF Apart
      <4> QED BY <2>1, <3>3, <4>2 DEF Itself
    <3>5. Subtree(Sets, list[i]) \cap Subtree(Sets, Kid(sp)) = {}
      BY <1>1, <2>1, <3>3, <3>4, SubtreesApart
    <3>6. Subtree(Sets, x) \subseteq Subtree(Sets, list[i])
      BY <1>1, <3>1, <3>3, SubtreeIn
    <3> QED BY <2>4, <3>1, <3>5, <3>6
  <2> QED BY <2>3, <2>4
<1> QED BY <1>3, <1>5, <1>6

LEMMA PassedAll ==
  ASSUME HubInv, NEW p \in Session
  PROVE  Passed(All(p)) = Below(Sets, p) /\ All(p) \in Spots
<1>1. recorded[p] \in Seq(Session) /\ Len(recorded[p]) \in Nat /\ Tidy(Sets)
  BY DEF HubInv, HubTypeOK
<1>2. All(p) \in Spots /\ All(p)[1] = p /\ All(p)[2] = Len(recorded[p])
  BY <1>1 DEF All, Spots
<1>3. Sets[p] = {recorded[p][i] : i \in 1 .. Len(recorded[p])}
  BY <1>1 DEF Sets, ToSet
<1>4. Passed(All(p)) = UNION {Subtree(Sets, c) : c \in Sets[p]}
  BY <1>2, <1>3 DEF Passed
<1> QED BY <1>1, <1>2, <1>4, BelowParts

\* A subtree's session at the end of who is below it.
LEMMA LastOfSubtree ==
  ASSUME HubInv, NEW c \in Session, NEW list \in Seq(Session),
         Apart(Sub, list), ToSet(list) \subseteq Below(Sets, c)
  PROVE  /\ Append(list, c) \in Seq(Session) /\ Apart(Sub, Append(list, c))
         /\ ToSet(Append(list, c)) = {c} \cup ToSet(list)
<1>1. Tidy(Sets)
  BY DEF HubInv
<1>2. ASSUME NEW x \in ToSet(list) PROVE c \notin Sub[x]
  <2>1. x \in Below(Sets, c) /\ x \in Session
    BY <1>1, BelowLater
  <2>2. c \notin Subtree(Sets, x)
    BY <1>1, <2>1, ParentsLast
  <2> QED BY <2>1, <2>2 DEF Sub
<1>3. Apart(Sub, Append(list, c))
  BY <1>2, AppendApart
<1> QED BY <1>3, AppendSet

\* What is found of a child's subtree, after what is found before it.
LEMMA JoinWalk ==
  ASSUME HubInv, NEW sp \in Spots, sp[2] # 0,
         NEW s \in Seq(Session), Apart(Sub, s), ToSet(s) \subseteq Passed(Earlier(sp)),
         NEW t \in Seq(Session), Apart(Sub, t), ToSet(t) \subseteq Subtree(Sets, Kid(sp))
  PROVE  /\ s \o t \in Seq(Session) /\ Apart(Sub, s \o t)
         /\ ToSet(s \o t) = ToSet(s) \cup ToSet(t)
<1>1. ASSUME NEW x \in ToSet(s), NEW y \in ToSet(t) PROVE y \notin Sub[x]
  <2>1. x \in Passed(Earlier(sp)) /\ y \in Subtree(Sets, Kid(sp)) /\ Earlier(sp) \in Spots
    BY <1>1, SpotFacts
  <2>2. x \in Session /\ y \notin Subtree(Sets, x)
    BY <2>1, PassedFacts
  <2> QED BY <2>2 DEF Sub
<1> QED BY <1>1, JoinFacts

(* collect_all finds everyone below, and each after all below it.          *)
LEMMA CollectAllFacts ==
  ASSUME HubInv, NEW p \in Session
  PROVE  /\ CollectAll(p) \in Seq(Session)
         /\ ToSet(CollectAll(p)) = Below(Sets, p)
         /\ Apart(Sub, CollectAll(p))
<1> DEFINE out[sp \in Spots] ==
              IF sp[2] = 0 THEN <<>>
              ELSE out[Earlier(sp)] \o Append(out[All(Kid(sp))], Kid(sp))
           V == Seq(Session)
           none == <<>>
           G == [c \in Session |-> [s \in V |-> [t \in V |-> s \o Append(t, c)]]]
<1>1. CollectAll(p) = out[All(p)]
  BY DEF CollectAll
<1>2. none \in V /\ G \in Joins(V)
  <2>1. ASSUME NEW c \in Session, NEW s \in V, NEW t \in V PROVE s \o Append(t, c) \in V
    OBVIOUS
  <2>2. none \in V
    OBVIOUS
  <2> HIDE DEF V
  <2> QED BY <2>1, <2>2 DEF Joins
<1>3. PICK f : f \in Walk(V, none, G)
  <2> HIDE DEF V, none, G, out
  <2> QED BY <1>2, WalkExists
<1>4. f = [sp \in Spots |-> IF sp[2] = 0 THEN <<>>
                            ELSE f[Earlier(sp)] \o Append(f[All(Kid(sp))], Kid(sp))]
  <2>1. f \in [Spots -> V]
    BY <1>3 DEF Walk
  <2>2. ASSUME NEW sp \in Spots
        PROVE  f[sp] = IF sp[2] = 0 THEN <<>>
                       ELSE f[Earlier(sp)] \o Append(f[All(Kid(sp))], Kid(sp))
    <3>1. CASE sp[2] = 0
      BY <1>3, <3>1 DEF Walk
    <3>2. CASE sp[2] # 0
      <4>1. Earlier(sp) \in Spots /\ All(Kid(sp)) \in Spots /\ Kid(sp) \in Session
        BY <3>2, SpotFacts
      <4>2. f[Earlier(sp)] \in V /\ f[All(Kid(sp))] \in V
        BY <2>1, <4>1
      <4>3. f[sp] = G[Kid(sp)][f[Earlier(sp)]][f[All(Kid(sp))]]
        BY <1>3, <3>2 DEF Walk
      <4> HIDE DEF V
      <4>4. G[Kid(sp)][f[Earlier(sp)]][f[All(Kid(sp))]]
              = f[Earlier(sp)] \o Append(f[All(Kid(sp))], Kid(sp))
        BY <4>1, <4>2
      <4> QED BY <3>2, <4>3, <4>4
    <3> QED BY <3>1, <3>2
  <2> HIDE DEF V, out
  <2> QED BY <2>1, <2>2
<1>5. out = [sp \in Spots |-> IF sp[2] = 0 THEN <<>>
                              ELSE out[Earlier(sp)] \o Append(out[All(Kid(sp))], Kid(sp))]
  <2>1. \E h : h = [sp \in Spots |-> IF sp[2] = 0 THEN <<>>
                        ELSE h[Earlier(sp)] \o Append(h[All(Kid(sp))], Kid(sp))]
    BY <1>4
  <2> QED BY <2>1
<1> HIDE DEF out
<1>6. ASSUME NEW sp \in Spots
      PROVE  out[sp] = IF sp[2] = 0 THEN <<>>
                       ELSE out[Earlier(sp)] \o Append(out[All(Kid(sp))], Kid(sp))
  BY <1>5
<1> DEFINE Good(sp) == /\ out[sp] \in Seq(Session)
                       /\ ToSet(out[sp]) = Passed(sp)
                       /\ Apart(Sub, out[sp])
           Bad == {sp \in Spots : ~Good(sp)}
<1>7. Bad = {}
  <2>1. SUFFICES ASSUME Bad # {} PROVE FALSE
    OBVIOUS
  <2>2. PICK sp \in Bad : sp[2] # 0 => Earlier(sp) \notin Bad /\ All(Kid(sp)) \notin Bad
    <3>1. Bad \in SUBSET Spots
      OBVIOUS
    <3> HIDE DEF Bad
    <3> QED BY <2>1, <3>1, SpotLeast
  <2>3. sp \in Spots /\ ~Good(sp)
    OBVIOUS
  <2>4. CASE sp[2] = 0
    <3>1. out[sp] = <<>> /\ Passed(sp) = {}
      BY <1>6, <2>3, <2>4, PassedFacts
    <3>2. Good(sp)
      BY <3>1, EmptyFacts
    <3> QED BY <2>3, <3>2
  <2>5. CASE sp[2] # 0
    <3>1. Earlier(sp) \in Spots /\ All(Kid(sp)) \in Spots /\ Kid(sp) \in Session
      BY <2>3, <2>5, SpotFacts
    <3>2. Good(Earlier(sp)) /\ Good(All(Kid(sp)))
      <4>1. Earlier(sp) \notin Bad /\ All(Kid(sp)) \notin Bad
        <5> HIDE DEF Bad
        <5> QED BY <2>2, <2>5
      <4> HIDE DEF Good
      <4> QED BY <3>1, <4>1
    <3> DEFINE s == out[Earlier(sp)]
               t == out[All(Kid(sp))]
    <3>3. /\ s \in Seq(Session) /\ ToSet(s) = Passed(Earlier(sp)) /\ Apart(Sub, s)
          /\ t \in Seq(Session) /\ ToSet(t) = Below(Sets, Kid(sp)) /\ Apart(Sub, t)
      BY <3>1, <3>2, PassedAll
    <3>4. out[sp] = s \o Append(t, Kid(sp))
      BY <1>6, <2>3, <2>5
    <3> HIDE DEF s, t
    <3>5. /\ Append(t, Kid(sp)) \in Seq(Session) /\ Apart(Sub, Append(t, Kid(sp)))
          /\ ToSet(Append(t, Kid(sp))) = Subtree(Sets, Kid(sp))
      BY <3>1, <3>3, LastOfSubtree DEF Subtree
    <3>6. /\ s \o Append(t, Kid(sp)) \in Seq(Session) /\ Apart(Sub, s \o Append(t, Kid(sp)))
          /\ ToSet(s \o Append(t, Kid(sp))) = ToSet(s) \cup ToSet(Append(t, Kid(sp)))
      <4>1. ToSet(s) \subseteq Passed(Earlier(sp))
            /\ ToSet(Append(t, Kid(sp))) \subseteq Subtree(Sets, Kid(sp))
        BY <3>3, <3>5
      <4> QED BY <2>3, <2>5, <3>3, <3>5, <4>1, JoinWalk
    <3>7. Passed(sp) = Passed(Earlier(sp)) \cup Subtree(Sets, Kid(sp))
      BY <2>3, <2>5, PassedFacts
    <3>8. Good(sp)
      BY <3>3, <3>4, <3>5, <3>6, <3>7
    <3> QED BY <2>3, <3>8
  <2> QED BY <2>4, <2>5
<1>8. All(p) \in Spots /\ Passed(All(p)) = Below(Sets, p)
  BY PassedAll
<1>9. Good(All(p))
  <2>1. All(p) \notin Bad
    <3> HIDE DEF Bad
    <3> QED BY <1>7
  <2> HIDE DEF Good
  <2> QED BY <1>8, <2>1
<1> QED BY <1>1, <1>8, <1>9

-----------------------------------------------------------------------------
\* Of the children passed, the subtrees that have settled.
Offered(sp) ==
    UNION {Subtree(Sets, recorded[sp[1]][i]) :
              i \in {j \in 1 .. sp[2] : Subtree(Sets, recorded[sp[1]][j]) \subseteq finished}}

LEMMA OfferedFacts ==
  ASSUME HubInv, NEW sp \in Spots
  PROVE  /\ Offered(sp) \subseteq Passed(sp)
         /\ Passed(sp) \subseteq finished => Offered(sp) = Passed(sp)
         /\ sp[2] = 0 => Offered(sp) = {}
         /\ sp[2] # 0 =>
              Offered(sp) = Offered(Earlier(sp)) \cup
                 (IF Subtree(Sets, Kid(sp)) \subseteq finished THEN Subtree(Sets, Kid(sp)) ELSE {})
<1> DEFINE Of(i) == Subtree(Sets, recorded[sp[1]][i])
<1>1. Offered(sp) = UNION {Of(i) : i \in {j \in 1 .. sp[2] : Of(j) \subseteq finished}}
      /\ Passed(sp) = UNION {Of(i) : i \in 1 .. sp[2]}
  BY DEF Offered, Passed
<1>2. ASSUME sp[2] # 0
      PROVE  Offered(sp) = Offered(Earlier(sp)) \cup
                 (IF Subtree(Sets, Kid(sp)) \subseteq finished THEN Subtree(Sets, Kid(sp)) ELSE {})
  <2>1. /\ Earlier(sp)[1] = sp[1] /\ Earlier(sp)[2] = sp[2] - 1 /\ sp[2] \in Nat
        /\ Of(sp[2]) = Subtree(Sets, Kid(sp))
    BY <1>2, SpotFacts DEF Kid
  <2>2. 1 .. sp[2] = (1 .. (sp[2] - 1)) \cup {sp[2]}
    BY <1>2, <2>1
  <2>3. Offered(Earlier(sp)) = UNION {Of(i) : i \in {j \in 1 .. (sp[2] - 1) : Of(j) \subseteq finished}}
    BY <2>1 DEF Offered
  <2> HIDE DEF Of
  <2> QED BY <1>1, <2>1, <2>2, <2>3
<1>3. sp[2] = 0 => Offered(sp) = {}
  BY <1>1
<1> HIDE DEF Of
<1>4. Offered(sp) \subseteq Passed(sp) /\ (Passed(sp) \subseteq finished => Offered(sp) = Passed(sp))
  BY <1>1
<1> QED BY <1>2, <1>3, <1>4

LEMMA OfferedAll ==
  ASSUME HubInv, NEW p \in Session
  PROVE  Offered(All(p)) = Closable(Sets, finished, p)
<1>1. recorded[p] \in Seq(Session) /\ Len(recorded[p]) \in Nat
  BY DEF HubInv, HubTypeOK
<1>2. All(p)[1] = p /\ All(p)[2] = Len(recorded[p])
  BY DEF All
<1>3. Sets[p] = {recorded[p][i] : i \in 1 .. Len(recorded[p])}
  BY <1>1 DEF Sets, ToSet
<1> DEFINE T(c) == Subtree(Sets, c)
           n == Len(recorded[p])
           e(i) == recorded[p][i]
<1>4. Offered(All(p)) = UNION {T(e(i)) : i \in {j \in 1 .. n : T(e(j)) \subseteq finished}}
  BY <1>2 DEF Offered
<1>5. Closable(Sets, finished, p) = UNION {T(c) : c \in {d \in Sets[p] : T(d) \subseteq finished}}
  BY DEF Closable
<1>6. Sets[p] = {e(i) : i \in 1 .. n}
  BY <1>3
<1> HIDE DEF T, n, e
<1> QED BY <1>4, <1>5, <1>6

\* Who works among two sets that have nobody in common.
LEMMA Workers ==
  ASSUME NEW S \in SUBSET Session, NEW T \in SUBSET Session, S \cap T = {}
  PROVE  /\ Cardinality(S \ finished) \in Nat
         /\ Cardinality((S \cup T) \ finished) = Cardinality(S \ finished) + Cardinality(T \ finished)
         /\ Cardinality(S \ finished) = 0 <=> S \subseteq finished
<1>1. IsFiniteSet(Session)
  BY ParentageAssumption, FS_Interval DEF Session
<1>2. IsFiniteSet(S \ finished) /\ IsFiniteSet(T \ finished)
  <2>1. S \ finished \in SUBSET Session /\ T \ finished \in SUBSET Session
    OBVIOUS
  <2> QED BY <1>1, <2>1, FS_Subset
<1>3. /\ Cardinality(S \ finished) \in Nat /\ Cardinality(T \ finished) \in Nat
      /\ Cardinality(S \ finished) = 0 <=> S \ finished = {}
  BY <1>2, FS_CardinalityType, FS_EmptySet
<1>4. (S \ finished) \cap (T \ finished) = {} /\ (S \cup T) \ finished = (S \ finished) \cup (T \ finished)
  OBVIOUS
<1>5. Cardinality((S \cup T) \ finished)
        = Cardinality(S \ finished) + Cardinality(T \ finished) - Cardinality({})
  BY <1>2, <1>4, FS_Union
<1> QED BY <1>3, <1>5, FS_EmptySet

LEMMA WorkersOfSubtree ==
  ASSUME HubInv, NEW c \in Session
  PROVE  /\ Cardinality(Below(Sets, c) \ finished) \in Nat
         /\ Cardinality(Below(Sets, c) \ finished) = 0 <=> Below(Sets, c) \subseteq finished
         /\ Cardinality(Subtree(Sets, c) \ finished)
              = Cardinality(Below(Sets, c) \ finished) + (IF c \in finished THEN 0 ELSE 1)
<1>1. Tidy(Sets) /\ Session \subseteq Nat
  BY DEF HubInv, Session
<1>2. Below(Sets, c) \in SUBSET Session /\ {c} \in SUBSET Session /\ Below(Sets, c) \cap {c} = {}
  <2>1. \A q \in Below(Sets, c) : q \in Session /\ c < q
    BY <1>1, BelowLater
  <2> QED BY <1>1, <2>1
<1>3. /\ Cardinality(Below(Sets, c) \ finished) \in Nat
      /\ Cardinality((Below(Sets, c) \cup {c}) \ finished)
           = Cardinality(Below(Sets, c) \ finished) + Cardinality({c} \ finished)
      /\ Cardinality(Below(Sets, c) \ finished) = 0 <=> Below(Sets, c) \subseteq finished
  BY <1>2, Workers
<1>4. Cardinality({c} \ finished) = IF c \in finished THEN 0 ELSE 1
  <2>1. CASE c \in finished
    <3>1. {c} \ finished = {}
      BY <2>1
    <3> QED BY <2>1, <3>1, FS_EmptySet
  <2>2. CASE c \notin finished
    <3>1. {c} \ finished = {c}
      BY <2>2
    <3> QED BY <2>2, <3>1, FS_Singleton
  <2> QED BY <2>1, <2>2
<1>5. Subtree(Sets, c) = Below(Sets, c) \cup {c}
  BY DEF Subtree
<1> QED BY <1>3, <1>4, <1>5

(* collect_closable finds the subtrees below that have settled, each       *)
(* session after all below it, and counts those that work.                 *)
LEMMA CollectClosableFacts ==
  ASSUME HubInv, NEW p \in Session
  PROVE  /\ CollectClosable(p).list \in Seq(Session)
         /\ ToSet(CollectClosable(p).list) = Closable(Sets, finished, p)
         /\ Apart(Sub, CollectClosable(p).list)
         /\ CollectClosable(p).busy = Cardinality(Below(Sets, p) \ finished)
<1> DEFINE Found == [list : Seq(Session), busy : Nat]
           none == [list |-> <<>>, busy |-> 0]
           Next1(c, sum, below) ==
             IF c \in finished /\ below.busy = 0
             THEN [sum EXCEPT !.list = @ \o Append(below.list, c)]
             ELSE [sum EXCEPT !.busy = @ + below.busy + (IF c \in finished THEN 0 ELSE 1)]
           found[sp \in Spots] ==
             IF sp[2] = 0 THEN [list |-> <<>>, busy |-> 0]
             ELSE LET sum == found[Earlier(sp)]
                      below == found[All(Kid(sp))]
                  IN  IF Kid(sp) \in finished /\ below.busy = 0
                      THEN [sum EXCEPT !.list = @ \o Append(below.list, Kid(sp))]
                      ELSE [sum EXCEPT !.busy = @ + below.busy
                                                 + (IF Kid(sp) \in finished THEN 0 ELSE 1)]
           G == [c \in Session |-> [s \in Found |-> [t \in Found |-> Next1(c, s, t)]]]
<1>1. CollectClosable(p) = found[All(p)]
  BY DEF CollectClosable
<1>2. ASSUME NEW c \in Session, NEW s \in Found, NEW t \in Found
      PROVE  /\ c \in finished /\ t.busy = 0 =>
                  /\ Next1(c, s, t).list = s.list \o Append(t.list, c)
                  /\ Next1(c, s, t).busy = s.busy
             /\ ~(c \in finished /\ t.busy = 0) =>
                  /\ Next1(c, s, t).list = s.list
                  /\ Next1(c, s, t).busy = s.busy + t.busy + (IF c \in finished THEN 0 ELSE 1)
             /\ Next1(c, s, t) \in Found
  <2>1. s.list \o Append(t.list, c) \in Seq(Session)
        /\ s.busy + t.busy + (IF c \in finished THEN 0 ELSE 1) \in Nat
    OBVIOUS
  <2> QED BY <2>1
<1>3. none \in Found /\ G \in Joins(Found)
  <2>1. none \in Found
    OBVIOUS
  <2> HIDE DEF Found, Next1
  <2> QED BY <1>2, <2>1 DEF Joins
<1>4. PICK f : f \in Walk(Found, none, G)
  <2> HIDE DEF Found, none, G, found
  <2> QED BY <1>3, WalkExists
<1>5. f = [sp \in Spots |-> IF sp[2] = 0 THEN none ELSE Next1(Kid(sp), f[Earlier(sp)], f[All(Kid(sp))])]
  <2>1. f \in [Spots -> Found]
    BY <1>4 DEF Walk
  <2>2. ASSUME NEW sp \in Spots
        PROVE  f[sp] = IF sp[2] = 0 THEN none ELSE Next1(Kid(sp), f[Earlier(sp)], f[All(Kid(sp))])
    <3>1. CASE sp[2] = 0
      BY <1>4, <3>1 DEF Walk
    <3>2. CASE sp[2] # 0
      <4>1. Earlier(sp) \in Spots /\ All(Kid(sp)) \in Spots /\ Kid(sp) \in Session
        BY <3>2, SpotFacts
      <4>2. f[Earlier(sp)] \in Found /\ f[All(Kid(sp))] \in Found
        BY <2>1, <4>1
      <4>3. f[sp] = G[Kid(sp)][f[Earlier(sp)]][f[All(Kid(sp))]]
        BY <1>4, <3>2 DEF Walk
      <4> HIDE DEF Found, Next1
      <4>4. G[Kid(sp)][f[Earlier(sp)]][f[All(Kid(sp))]]
              = Next1(Kid(sp), f[Earlier(sp)], f[All(Kid(sp))])
        BY <4>1, <4>2
      <4> QED BY <3>2, <4>3, <4>4
    <3> QED BY <3>1, <3>2
  <2> HIDE DEF Found, found, Next1, none
  <2> QED BY <2>1, <2>2
<1>6. found = [sp \in Spots |-> IF sp[2] = 0 THEN none
                                ELSE Next1(Kid(sp), found[Earlier(sp)], found[All(Kid(sp))])]
  <2>1. \E h : h = [sp \in Spots |-> IF sp[2] = 0 THEN none
                                     ELSE Next1(Kid(sp), h[Earlier(sp)], h[All(Kid(sp))])]
    <3> HIDE DEF Next1, none, found
    <3> QED BY <1>5
  <2> QED BY <2>1
<1> HIDE DEF found
<1>7. ASSUME NEW sp \in Spots
      PROVE  found[sp] = IF sp[2] = 0 THEN none
                         ELSE Next1(Kid(sp), found[Earlier(sp)], found[All(Kid(sp))])
  <2> HIDE DEF Next1, none
  <2> QED BY <1>6
<1> DEFINE Good(sp) == /\ found[sp] \in Found
                       /\ ToSet(found[sp].list) = Offered(sp)
                       /\ Apart(Sub, found[sp].list)
                       /\ found[sp].busy = Cardinality(Passed(sp) \ finished)
           Bad == {sp \in Spots : ~Good(sp)}
<1>8. Bad = {}
  <2>1. SUFFICES ASSUME Bad # {} PROVE FALSE
    OBVIOUS
  <2>2. PICK sp \in Bad : sp[2] # 0 => Earlier(sp) \notin Bad /\ All(Kid(sp)) \notin Bad
    <3>1. Bad \in SUBSET Spots
      OBVIOUS
    <3> HIDE DEF Bad
    <3> QED BY <2>1, <3>1, SpotLeast
  <2>3. sp \in Spots /\ ~Good(sp)
    OBVIOUS
  <2>4. CASE sp[2] = 0
    <3>1. found[sp] = none /\ Passed(sp) = {} /\ Offered(sp) = {}
      BY <1>7, <2>3, <2>4, PassedFacts, OfferedFacts
    <3>2. none.list = <<>> /\ none.busy = 0
      OBVIOUS
    <3>3. Cardinality({} \ finished) = 0
      BY FS_EmptySet
    <3> HIDE DEF none, Found
    <3>4. Good(sp)
      BY <1>3, <3>1, <3>2, <3>3, EmptyFacts
    <3> QED BY <2>3, <3>4
  <2>5. CASE sp[2] # 0
    <3> DEFINE c == Kid(sp)
               s == found[Earlier(sp)]
               t == found[All(c)]
    <3>1. Earlier(sp) \in Spots /\ All(c) \in Spots /\ c \in Session
      BY <2>3, <2>5, SpotFacts
    <3>2. Good(Earlier(sp)) /\ Good(All(c))
      <4>1. Earlier(sp) \notin Bad /\ All(c) \notin Bad
        <5> HIDE DEF Bad
        <5> QED BY <2>2, <2>5
      <4> HIDE DEF Good
      <4> QED BY <3>1, <4>1
    <3>3. /\ s \in Found /\ ToSet(s.list) = Offered(Earlier(sp)) /\ Apart(Sub, s.list)
          /\ s.busy = Cardinality(Passed(Earlier(sp)) \ finished)
          /\ t \in Found /\ ToSet(t.list) = Offered(All(c)) /\ Apart(Sub, t.list)
          /\ t.busy = Cardinality(Below(Sets, c) \ finished)
      BY <3>1, <3>2, PassedAll
    <3>4. found[sp] = Next1(c, s, t)
      BY <1>7, <2>3, <2>5
    <3>5. s.list \in Seq(Session) /\ t.list \in Seq(Session) /\ s.busy \in Nat /\ t.busy \in Nat
      BY <3>3
    <3>6. /\ Passed(sp) = Passed(Earlier(sp)) \cup Subtree(Sets, c)
          /\ Passed(Earlier(sp)) \cap Subtree(Sets, c) = {}
          /\ Passed(sp) \subseteq Session
          /\ Offered(sp) = Offered(Earlier(sp)) \cup
                (IF Subtree(Sets, c) \subseteq finished THEN Subtree(Sets, c) ELSE {})
          /\ Offered(Earlier(sp)) \subseteq Passed(Earlier(sp))
      BY <2>3, <2>5, <3>1, PassedFacts, OfferedFacts
    <3>7. Cardinality(Passed(sp) \ finished)
            = s.busy + (t.busy + (IF c \in finished THEN 0 ELSE 1))
      <4>1. Cardinality(Subtree(Sets, c) \ finished)
              = Cardinality(Below(Sets, c) \ finished) + (IF c \in finished THEN 0 ELSE 1)
        BY <3>1, WorkersOfSubtree
      <4>2. Passed(Earlier(sp)) \in SUBSET Session /\ Subtree(Sets, c) \in SUBSET Session
        BY <3>6
      <4>3. Cardinality(Passed(sp) \ finished)
              = Cardinality(Passed(Earlier(sp)) \ finished) + Cardinality(Subtree(Sets, c) \ finished)
        <5> DEFINE P == Passed(Earlier(sp))
                   Q == Subtree(Sets, c)
        <5>1. P \in SUBSET Session /\ Q \in SUBSET Session /\ P \cap Q = {} /\ Passed(sp) = P \cup Q
          BY <3>6, <4>2
        <5> HIDE DEF P, Q
        <5>2. Cardinality((P \cup Q) \ finished) = Cardinality(P \ finished) + Cardinality(Q \ finished)
          BY <5>1, Workers
        <5>3. Cardinality(Passed(sp) \ finished) = Cardinality(P \ finished) + Cardinality(Q \ finished)
          BY <5>1, <5>2
        <5> QED BY <5>3 DEF P, Q
      <4> QED BY <3>3, <4>1, <4>3
    <3>8. c \in finished /\ t.busy = 0 <=> Subtree(Sets, c) \subseteq finished
      <4>1. Cardinality(Below(Sets, c) \ finished) = 0 <=> Below(Sets, c) \subseteq finished
        BY <3>1, WorkersOfSubtree
      <4> QED BY <3>3, <4>1 DEF Subtree
    <3>9. /\ c \in finished /\ t.busy = 0 =>
               found[sp].list = s.list \o Append(t.list, c) /\ found[sp].busy = s.busy
          /\ ~(c \in finished /\ t.busy = 0) =>
               /\ found[sp].list = s.list
               /\ found[sp].busy = s.busy + t.busy + (IF c \in finished THEN 0 ELSE 1)
          /\ found[sp] \in Found
      <4> HIDE DEF Next1, Found, s, t, c
      <4>1. c \in Session /\ s \in Found /\ t \in Found
        BY <3>1, <3>3
      <4>2. /\ c \in finished /\ t.busy = 0 =>
                 /\ Next1(c, s, t).list = s.list \o Append(t.list, c)
                 /\ Next1(c, s, t).busy = s.busy
            /\ ~(c \in finished /\ t.busy = 0) =>
                 /\ Next1(c, s, t).list = s.list
                 /\ Next1(c, s, t).busy = s.busy + t.busy + (IF c \in finished THEN 0 ELSE 1)
            /\ Next1(c, s, t) \in Found
        BY <1>2, <4>1, Zenon
      <4> QED BY <3>4, <4>2, Zenon
    <3> HIDE DEF s, t, c, Found, Next1
    <3>10. found[sp].busy = Cardinality(Passed(sp) \ finished)
      <4>1. CASE c \in finished /\ t.busy = 0
        <5>1. found[sp].busy = s.busy
          BY <3>9, <4>1
        <5>2. s.busy + (t.busy + (IF c \in finished THEN 0 ELSE 1)) = s.busy
          BY <3>5, <4>1
        <5> QED BY <3>7, <5>1, <5>2
      <4>2. CASE ~(c \in finished /\ t.busy = 0)
        <5>1. found[sp].busy = s.busy + t.busy + (IF c \in finished THEN 0 ELSE 1)
          BY <3>9, <4>2
        <5>2. s.busy + (t.busy + (IF c \in finished THEN 0 ELSE 1))
                = s.busy + t.busy + (IF c \in finished THEN 0 ELSE 1)
          BY <3>5
        <5> QED BY <3>7, <5>1, <5>2
      <4> QED BY <4>1, <4>2
    <3>11. ToSet(found[sp].list) = Offered(sp) /\ Apart(Sub, found[sp].list)
      <4>1. CASE ~(c \in finished /\ t.busy = 0)
        BY <3>3, <3>6, <3>8, <3>9, <4>1
      <4>2. CASE c \in finished /\ t.busy = 0
        <5>1. Subtree(Sets, c) \subseteq finished
          BY <3>8, <4>2
        <5>2. ToSet(t.list) = Below(Sets, c)
          <6>1. Passed(All(c)) = Below(Sets, c) /\ Below(Sets, c) \subseteq finished
            BY <3>1, <5>1, PassedAll DEF Subtree
          <6> QED BY <3>1, <3>3, <6>1, OfferedFacts
        <5>3. /\ Append(t.list, c) \in Seq(Session) /\ Apart(Sub, Append(t.list, c))
              /\ ToSet(Append(t.list, c)) = {c} \cup ToSet(t.list)
          BY <3>1, <3>3, <3>5, <5>2, LastOfSubtree
        <5>4. ToSet(Append(t.list, c)) = Subtree(Sets, c)
          BY <5>2, <5>3 DEF Subtree
        <5>5. /\ Apart(Sub, s.list \o Append(t.list, c))
              /\ ToSet(s.list \o Append(t.list, c)) = ToSet(s.list) \cup ToSet(Append(t.list, c))
          <6>1. ToSet(s.list) \subseteq Passed(Earlier(sp))
                /\ ToSet(Append(t.list, c)) \subseteq Subtree(Sets, Kid(sp))
            BY <3>3, <3>6, <5>4 DEF c
          <6> QED BY <2>3, <2>5, <3>3, <3>5, <5>3, <6>1, JoinWalk
        <5> QED BY <3>3, <3>6, <3>9, <4>2, <5>1, <5>4, <5>5
      <4> QED BY <4>1, <4>2
    <3>12. Good(sp)
      BY <3>9, <3>10, <3>11
    <3> QED BY <2>3, <3>12
  <2> QED BY <2>4, <2>5
<1>9. All(p) \in Spots /\ Passed(All(p)) = Below(Sets, p) /\ Offered(All(p)) = Closable(Sets, finished, p)
  BY PassedAll, OfferedAll
<1>10. Good(All(p))
  <2>1. All(p) \notin Bad
    <3> HIDE DEF Bad
    <3> QED BY <1>8
  <2> HIDE DEF Good
  <2> QED BY <1>9, <2>1
<1>11. found[All(p)].list \in Seq(Session)
  <2>1. found[All(p)] \in Found
    BY <1>10
  <2> QED BY <2>1
<1> QED BY <1>1, <1>9, <1>10, <1>11

-----------------------------------------------------------------------------
\* A list that is apart by sets with their own session in them is injective.
LEMMA ApartInjective ==
  ASSUME NEW B, NEW list \in Seq(Session), Apart(B, list), \A x \in Session : x \in B[x]
  PROVE  IsInjective(list)
<1>1. Len(list) \in Nat /\ DOMAIN list = 1 .. Len(list) /\ \A i \in 1 .. Len(list) : list[i] \in Session
  OBVIOUS
<1>2. ASSUME NEW i \in 1 .. Len(list), NEW j \in 1 .. Len(list), i < j
      PROVE  list[i] # list[j]
  BY <1>1, <1>2 DEF Apart
<1>3. ASSUME NEW i \in 1 .. Len(list), NEW j \in 1 .. Len(list), list[i] = list[j]
      PROVE  i = j
  <2>1. ~(i < j) /\ ~(j < i)
    BY <1>2, <1>3
  <2> QED BY <1>1, <2>1
<1> QED BY <1>1, <1>3 DEF IsInjective

LEMMA ApartFirst ==
  ASSUME NEW list \in Seq(Session), Apart(Sub, list)
  PROVE  DescendantsFirst(list)
<1>1. \A x \in Session : x \in Sub[x] /\ Below(Sets, x) \subseteq Sub[x]
  BY DEF Sub, Subtree
<1>2. IsInjective(list)
  BY <1>1, ApartInjective
<1>3. \A i, j \in DOMAIN list : i < j => list[j] \notin Below(Sets, list[i])
  <2>1. \A i \in DOMAIN list : list[i] \in Session
    OBVIOUS
  <2> QED BY <1>1, <2>1 DEF Apart
<1> QED BY <1>2, <1>3 DEF DescendantsFirst

\* A list of sessions on which none comes twice is no longer than they are.
LEMMA NoLonger ==
  ASSUME NEW list \in Seq(Session), Apart(Itself, list)
  PROVE  Len(list) <= MaxSessions
<1>1. Len(list) \in Nat /\ MaxSessions \in Nat /\ list \in [1 .. Len(list) -> Session]
  BY ParentageAssumption
<1>2. /\ IsFiniteSet(1 .. Len(list)) /\ Cardinality(1 .. Len(list)) = Len(list)
      /\ IsFiniteSet(Session) /\ Cardinality(Session) = MaxSessions
  <2>1. ASSUME NEW b \in Nat PROVE IsFiniteSet(1 .. b) /\ Cardinality(1 .. b) = b
    <3>1. 1 \in Int /\ b \in Int
      OBVIOUS
    <3>2. IsFiniteSet(1 .. b) /\ Cardinality(1 .. b) = IF 1 > b THEN 0 ELSE b - 1 + 1
      BY <3>1, FS_Interval
    <3> QED BY <3>2
  <2> QED BY <1>1, <2>1 DEF Session
<1>3. IsInjective(list)
  <2>1. \A x \in Session : x \in Itself[x]
    BY DEF Itself
  <2> QED BY <2>1, ApartInjective
<1>4. ASSUME Len(list) > MaxSessions PROVE FALSE
  <2>1. Cardinality(Session) < Cardinality(1 .. Len(list))
    BY <1>1, <1>2, <1>4
  <2>2. \E x, y \in 1 .. Len(list) : x # y /\ list[x] = list[y]
    BY <1>1, <1>2, <2>1, FS_PigeonHole
  <2> QED BY <1>1, <1>3, <2>2 DEF IsInjective
<1> QED BY <1>1, <1>4

(* The worklist of forget_children ends with the subtree, each session     *)
(* once.                                                                   *)
LEMMA GrowFacts ==
  ASSUME HubInv, NEW p \in Session
  PROVE  ToSet(Grow(<<p>>)) = Subtree(Sets, p) /\ IsInjective(Grow(<<p>>))
<1> DEFINE N == MaxSessions
           V == Seq(Session)
           one == <<p>>
           More(t, i) == Retain(recorded[t[i]], Session \ ToSet(t))
           Reads(t, i) == IF i > Len(t) THEN t ELSE t \o More(t, i)
           read[i \in 0 .. MaxSessions] ==
              IF i = 0 THEN <<p>>
              ELSE LET drop == read[i - 1] IN
                   IF i > Len(drop) THEN drop
                   ELSE drop \o Retain(recorded[drop[i]], Session \ ToSet(drop))
           F == [i \in 1 .. N |-> [t \in V |-> Reads(t, i)]]
<1>0. N \in Nat /\ Tidy(Sets) /\ recorded \in [Session -> Seq(Session)]
  BY ParentageAssumption DEF HubInv, HubTypeOK
<1>1. Grow(<<p>>) = read[N]
  BY DEF Grow
<1>2. ASSUME NEW i \in 1 .. N, NEW t \in V, i <= Len(t)
      PROVE  /\ t[i] \in Session /\ t[i] \in ToSet(t) /\ More(t, i) \in V
             /\ ToSet(More(t, i)) = Sets[t[i]] \ ToSet(t)
             /\ Apart(Itself, More(t, i))
  <2>1. t[i] \in Session /\ t[i] \in ToSet(t)
    BY <1>2 DEF ToSet
  <2>2. recorded[t[i]] \in Seq(Session) /\ Apart(Itself, recorded[t[i]])
        /\ ToSet(recorded[t[i]]) = Sets[t[i]] /\ Sets[t[i]] \subseteq Session
    BY <1>0, <2>1 DEF HubInv, Sets, Tidy
  <2>3. /\ More(t, i) \in Seq(Session)
        /\ ToSet(More(t, i)) = ToSet(recorded[t[i]]) \cap (Session \ ToSet(t))
        /\ Apart(Itself, More(t, i))
    BY <2>2, RetainFacts
  <2> QED BY <2>1, <2>2, <2>3
<1>3. F \in Steps(V, N) /\ one \in V
  <2>1. ASSUME NEW i \in 1 .. N, NEW t \in V PROVE Reads(t, i) \in V
    <3>1. CASE i > Len(t)
      BY <3>1
    <3>2. CASE i <= Len(t)
      <4>1. More(t, i) \in V
        BY <1>2, <3>2
      <4> HIDE DEF More
      <4>2. t \o More(t, i) \in V
        BY <4>1
      <4> QED BY <3>2, <4>1, <4>2
    <3>3. Len(t) \in Nat
      OBVIOUS
    <3> HIDE DEF Reads, V
    <3> QED BY <1>0, <3>1, <3>2, <3>3
  <2>2. one \in V
    OBVIOUS
  <2> HIDE DEF V, Reads
  <2> QED BY <2>1, <2>2 DEF Steps
<1>4. PICK f \in [0 .. N -> V] : f[0] = one /\ \A i \in 1 .. N : f[i] = F[i][f[i - 1]]
  <2> HIDE DEF V, F, one, read
  <2>1. Chain(V, one, N, F) # {}
    BY <1>0, <1>3, ChainExists
  <2> QED BY <2>1 DEF Chain
<1>5. f = [i \in 0 .. N |-> IF i = 0 THEN one ELSE Reads(f[i - 1], i)]
  <2>1. ASSUME NEW i \in 0 .. N PROVE f[i] = IF i = 0 THEN one ELSE Reads(f[i - 1], i)
    <3>1. CASE i = 0
      BY <1>4, <3>1
    <3>2. CASE i # 0
      <4>1. i \in 1 .. N /\ i - 1 \in 0 .. N
        BY <1>0, <3>2
      <4>2. f[i] = F[i][f[i - 1]] /\ f[i - 1] \in V
        BY <1>4, <4>1
      <4> HIDE DEF V, Reads
      <4> QED BY <3>2, <4>1, <4>2
    <3> QED BY <3>1, <3>2
  <2> HIDE DEF V, Reads, one, read
  <2> QED BY <2>1
<1>6. read = [i \in 0 .. N |-> IF i = 0 THEN one ELSE Reads(read[i - 1], i)]
  <2>1. \E h : h = [i \in 0 .. N |-> IF i = 0 THEN one ELSE Reads(h[i - 1], i)]
    <3> HIDE DEF Reads, one, read
    <3> QED BY <1>5
  <2> QED BY <2>1
<1> HIDE DEF read
<1>7. ASSUME NEW i \in 0 .. N
      PROVE  read[i] = IF i = 0 THEN one ELSE Reads(read[i - 1], i)
  <2> HIDE DEF Reads, one
  <2> QED BY <1>6
<1> DEFINE Good(i) == /\ read[i] \in Seq(Session)
                      /\ Apart(Itself, read[i])
                      /\ p \in ToSet(read[i])
                      /\ ToSet(read[i]) \subseteq Subtree(Sets, p)
                      /\ \A k \in 1 .. i : k <= Len(read[i]) => Sets[read[i][k]] \subseteq ToSet(read[i])
           Bad == {i \in 0 .. N : ~Good(i)}
<1>8. Bad = {}
  <2>1. SUFFICES ASSUME Bad # {} PROVE FALSE
    OBVIOUS
  <2>2. PICK m \in Bad : \A k \in Bad : m <= k
    <3>1. Bad \subseteq Nat
      OBVIOUS
    <3> QED BY <2>1, <3>1, LeastOf
  <2>3. m \in 0 .. N /\ ~Good(m)
    BY <2>2
  <2>4. CASE m = 0
    <3>1. read[m] = <<p>>
      BY <1>7, <2>3, <2>4
    <3>2. <<p>> \in Seq(Session) /\ ToSet(<<p>>) = {p} /\ Apart(Itself, <<p>>)
      BY DEF ToSet, Apart
    <3>3. Good(m)
      BY <2>4, <3>1, <3>2 DEF Subtree
    <3> QED BY <2>3, <3>3
  <2>5. CASE m # 0
    <3>1. m \in 1 .. N /\ Good(m - 1)
      <4>1. m - 1 \in 0 .. N /\ m - 1 \notin Bad /\ m \in 1 .. N
        <5>1. m - 1 \in 0 .. N /\ m \in 1 .. N
          BY <1>0, <2>3, <2>5
        <5> HIDE DEF Bad
        <5> QED BY <2>2, <5>1
      <4> HIDE DEF Good
      <4> QED BY <4>1
    <3> DEFINE t == read[m - 1]
    <3>2. /\ t \in Seq(Session) /\ Apart(Itself, t) /\ p \in ToSet(t)
          /\ ToSet(t) \subseteq Subtree(Sets, p)
          /\ \A k \in 1 .. (m - 1) : k <= Len(t) => Sets[t[k]] \subseteq ToSet(t)
      BY <3>1
    <3>3. read[m] = IF m > Len(t) THEN t ELSE t \o More(t, m)
      BY <1>7, <2>3, <2>5
    <3>4. Len(t) \in Nat /\ m \in Nat
      BY <3>1, <3>2
    <3> HIDE DEF t
    <3>5. CASE m > Len(t)
      <4>1. \A k \in 1 .. m : k <= Len(t) => Sets[t[k]] \subseteq ToSet(t)
        <5>1. \A k \in 1 .. m : k <= Len(t) => k \in 1 .. (m - 1)
          BY <3>4, <3>5
        <5> QED BY <3>2, <5>1
      <4>2. Good(m)
        BY <3>2, <3>3, <3>5, <4>1
      <4> QED BY <2>3, <4>2
    <3>6. CASE m <= Len(t)
      <4> DEFINE w == More(t, m)
      <4>1. /\ t[m] \in Session /\ t[m] \in ToSet(t) /\ w \in Seq(Session)
            /\ ToSet(w) = Sets[t[m]] \ ToSet(t)
            /\ Apart(Itself, w)
        BY <1>2, <3>1, <3>2, <3>6
      <4>2. read[m] = t \o w
        BY <3>3, <3>4, <3>6
      <4> HIDE DEF w
      <4>3. ToSet(t) \subseteq Session
        BY <3>2 DEF ToSet
      <4>4. \A x \in ToSet(t), y \in ToSet(w) : y \notin Itself[x]
        BY <4>1, <4>3 DEF Itself
      <4>5. /\ t \o w \in Seq(Session) /\ Len(t \o w) = Len(t) + Len(w)
            /\ \A i \in 1 .. Len(t) : (t \o w)[i] = t[i]
            /\ ToSet(t \o w) = ToSet(t) \cup ToSet(w)
            /\ Apart(Itself, t \o w)
        BY <3>2, <4>1, <4>4, JoinFacts
      <4>6. Sets[t[m]] \subseteq Subtree(Sets, p)
        <5>1. Sets \in [Session -> SUBSET Session]
          BY <1>0 DEF Tidy
        <5>2. Sets[t[m]] \subseteq Subtree(Sets, t[m])
          BY <4>1, <5>1, BelowKids DEF Subtree
        <5>3. Subtree(Sets, t[m]) \subseteq Subtree(Sets, p)
          BY <1>0, <3>2, <4>1, SubtreeIn
        <5> QED BY <5>2, <5>3
      <4>7. ASSUME NEW k \in 1 .. m PROVE Sets[(t \o w)[k]] \subseteq ToSet(t \o w)
        <5>1. k \in 1 .. Len(t) /\ (t \o w)[k] = t[k]
          BY <3>4, <3>6, <4>5
        <5>2. CASE k = m
          BY <4>1, <4>5, <5>1, <5>2
        <5>3. CASE k # m
          <6>1. k \in 1 .. (m - 1) /\ k <= Len(t)
            BY <3>4, <5>1, <5>3
          <6> QED BY <3>2, <4>5, <5>1, <6>1
        <5> QED BY <5>2, <5>3
      <4>8. Good(m)
        BY <3>2, <4>1, <4>2, <4>5, <4>6, <4>7
      <4> QED BY <2>3, <4>8
    <3> QED BY <3>4, <3>5, <3>6
  <2> QED BY <2>4, <2>5
<1>9. Good(N)
  <2>1. N \in 0 .. N /\ N \notin Bad
    <3> HIDE DEF Bad
    <3> QED BY <1>0, <1>8
  <2> HIDE DEF Good
  <2> QED BY <2>1
<1> DEFINE t == read[N]
<1>10. /\ t \in Seq(Session) /\ Apart(Itself, t) /\ p \in ToSet(t)
       /\ ToSet(t) \subseteq Subtree(Sets, p)
       /\ \A k \in 1 .. N : k <= Len(t) => Sets[t[k]] \subseteq ToSet(t)
  BY <1>9
<1> HIDE DEF t
<1>11. \A x \in ToSet(t) : Sets[x] \subseteq ToSet(t)
  <2>1. Len(t) <= N /\ Len(t) \in Nat
    BY <1>10, NoLonger
  <2>2. ASSUME NEW x \in ToSet(t) PROVE Sets[x] \subseteq ToSet(t)
    <3>1. PICK k \in 1 .. Len(t) : x = t[k]
      BY <1>10 DEF ToSet
    <3>2. k \in 1 .. N /\ k <= Len(t)
      BY <1>0, <2>1
    <3> QED BY <1>10, <3>1, <3>2
  <2> QED BY <2>2
<1>12. Below(Sets, p) \subseteq ToSet(t)
  <2>1. ToSet(t) \in SUBSET DOMAIN Sets
    BY <1>0, <1>10 DEF ToSet, Tidy
  <2>2. Closed(Sets, ToSet(t)) /\ Sets[p] \subseteq ToSet(t)
    BY <1>10, <1>11 DEF Closed
  <2> QED BY <2>1, <2>2, BelowLeast
<1>13. IsInjective(t)
  <2>1. \A x \in Session : x \in Itself[x]
    BY DEF Itself
  <2> QED BY <1>10, <2>1, ApartInjective
<1> QED BY <1>1, <1>10, <1>12, <1>13 DEF t, Subtree

-----------------------------------------------------------------------------
(* Shorter lists of the same sessions: what settling, closing and          *)
(* forgetting leave.                                                       *)
LEMMA LessStep ==
  ASSUME HubInv, recorded' \in [Session -> Seq(Session)],
         \A p \in Session : /\ ToSet(recorded'[p]) \subseteq ToSet(recorded[p])
                            /\ Apart(Itself, recorded'[p]),
         finished' \subseteq Session, known' = known
  PROVE  HubInv'
<1>1. \A p \in Session : Sets'[p] \subseteq Sets[p]
  BY DEF Sets
<1>2. HubTypeOK'
  BY DEF HubInv, HubTypeOK
<1>3. Tidy(Sets)'
  <2>1. Sets' \in [Session -> SUBSET Session]
    <3>1. ASSUME NEW p \in Session PROVE ToSet(recorded'[p]) \in SUBSET Session
      <4>1. recorded'[p] \in Seq(Session)
        OBVIOUS
      <4> QED BY <4>1 DEF ToSet
    <3> QED BY <3>1 DEF Sets
  <2> QED BY <1>1, <2>1 DEF HubInv, Tidy
<1>4. \A p \in Session : Sets'[p] \subseteq known' /\ Apart(Itself, recorded'[p])
  BY <1>1 DEF HubInv
<1> QED BY <1>2, <1>3, <1>4 DEF HubInv, Apart, Itself

(* A map of which every list is emptied, or keeps some of its sessions.    *)
LEMMA ShorterStep ==
  ASSUME HubInv, UNCHANGED <<finished, known>>, NEW drop, NEW S,
         recorded' = [p \in Session |-> IF p \in drop THEN <<>> ELSE Retain(recorded[p], S)]
  PROVE  HubInv'
<1>1. ASSUME NEW p \in Session
      PROVE  /\ recorded'[p] \in Seq(Session) /\ ToSet(recorded'[p]) \subseteq ToSet(recorded[p])
             /\ Apart(Itself, recorded'[p])
  <2>1. recorded[p] \in Seq(Session) /\ Apart(Itself, recorded[p])
    BY DEF HubInv, HubTypeOK
  <2>2. CASE p \in drop
    <3>1. recorded'[p] = <<>>
      BY <2>2
    <3> QED BY <3>1, EmptyFacts
  <2>3. CASE p \notin drop
    <3>1. recorded'[p] = Retain(recorded[p], S)
      BY <2>3
    <3> DEFINE list == recorded[p]
    <3>2. list \in Seq(Session) /\ Apart(Itself, list)
      BY <2>1
    <3> HIDE DEF list
    <3>3. /\ Retain(list, S) \in Seq(Session) /\ ToSet(Retain(list, S)) = ToSet(list) \cap S
          /\ Apart(Itself, Retain(list, S))
      BY <3>2, RetainFacts
    <3> QED BY <3>1, <3>3 DEF list
  <2> QED BY <2>2, <2>3
<1>2. recorded' \in [Session -> Seq(Session)]
  BY <1>1
<1>3. finished' \subseteq Session
  BY DEF HubInv, HubTypeOK
<1> QED BY <1>1, <1>2, <1>3, LessStep

LEMMA ForgetStep ==
  ASSUME HubInv, NEW sessions, ForgetChildren(sessions), UNCHANGED <<finished, known>>
  PROVE  HubInv'
<1> DEFINE drop == ToSet(Grow(sessions))
           S == Session \ drop
<1>1. recorded' = [p \in Session |-> IF p \in drop THEN <<>> ELSE Retain(recorded[p], S)]
  BY DEF ForgetChildren
<1> HIDE DEF drop, S
<1> QED BY <1>1, ShorterStep

LEMMA RecordStep ==
  ASSUME HubInv, NEW p \in Session, NEW c \in Session, RecordChild(p, c)
  PROVE  HubInv'
<1>0. /\ p < c /\ c \notin known /\ recorded' = [recorded EXCEPT ![p] = Append(@, c)]
      /\ known' = known \cup {c} /\ finished' = finished
  BY DEF RecordChild
<1>1. recorded \in [Session -> Seq(Session)] /\ Tidy(Sets) /\ finished \subseteq Session /\ known \subseteq Session
  BY DEF HubInv, HubTypeOK
<1>2. recorded[p] \in Seq(Session) /\ Sets[p] = ToSet(recorded[p]) /\ Sets[p] \subseteq known
      /\ Sets[p] \subseteq Session
  BY <1>1 DEF HubInv, Sets, Tidy
<1>3. /\ Append(recorded[p], c) \in Seq(Session)
      /\ ToSet(Append(recorded[p], c)) = Sets[p] \cup {c}
      /\ Apart(Itself, Append(recorded[p], c))
  <2>1. \A x \in ToSet(recorded[p]) : c \notin Itself[x]
    BY <1>0, <1>2 DEF Itself
  <2>2. Apart(Itself, recorded[p])
    BY DEF HubInv
  <2> QED BY <1>2, <2>1, <2>2, AppendSet, AppendApart
<1>4. \A q \in Session : recorded'[q] = IF q = p THEN Append(recorded[p], c) ELSE recorded[q]
  BY <1>0, <1>1
<1>5. recorded' \in [Session -> Seq(Session)]
  BY <1>0, <1>1, <1>3
<1>6. \A q \in Session : Sets'[q] = IF q = p THEN Sets[p] \cup {c} ELSE Sets[q]
  BY <1>3, <1>4 DEF Sets
<1>7. HubTypeOK'
  BY <1>0, <1>1, <1>5 DEF HubTypeOK
<1>8. Tidy(Sets)'
  <2>1. Sets' \in [Session -> SUBSET Session]
    <3>1. Sets' = [q \in Session |-> IF q = p THEN Sets[p] \cup {c} ELSE Sets[q]]
      BY <1>3, <1>4 DEF Sets
    <3> QED BY <1>1, <1>2, <3>1 DEF Tidy
  <2>2. \A q \in Session : \A d \in Sets'[q] : q < d
    BY <1>0, <1>1, <1>6 DEF Tidy
  <2>3. ASSUME NEW q \in Session, NEW r \in Session, q # r PROVE Sets'[q] \cap Sets'[r] = {}
    <3>1. Sets[q] \cap Sets[r] = {} /\ c \notin Sets[q] /\ c \notin Sets[r]
      BY <1>0, <1>1, <2>3 DEF HubInv, Tidy
    <3> QED BY <1>6, <2>3, <3>1
  <2> QED BY <2>1, <2>2, <2>3 DEF Tidy
<1>9. \A q \in Session : Sets'[q] \subseteq known' /\ Apart(Itself, recorded'[q])
  BY <1>0, <1>3, <1>4, <1>6 DEF HubInv
<1> QED BY <1>7, <1>8, <1>9 DEF HubInv, Apart, Itself

LEMMA SameStep ==
  ASSUME HubInv, UNCHANGED <<recorded, known>>, finished' \subseteq Session
  PROVE  HubInv'
<1>1. recorded' \in [Session -> Seq(Session)]
      /\ \A p \in Session : /\ ToSet(recorded'[p]) \subseteq ToSet(recorded[p])
                            /\ Apart(Itself, recorded'[p])
  BY DEF HubInv, HubTypeOK
<1> QED BY <1>1, LessStep

LEMMA HubStep == HubInv /\ [HubNext]_hubVars => HubInv'
<1> SUFFICES ASSUME HubInv, [HubNext]_hubVars PROVE HubInv'
  OBVIOUS
<1>0. finished \subseteq Session
  BY DEF HubInv, HubTypeOK
<1>1. CASE \E p, c \in Session : RecordChild(p, c)
  BY <1>1, RecordStep
<1>2. ASSUME NEW c \in Session, SettleChild(c) PROVE HubInv'
  <2>1. UNCHANGED <<recorded, known>> /\ finished' \subseteq Session
    BY <1>0, <1>2 DEF SettleChild
  <2> QED BY <2>1, SameStep
<1>3. ASSUME NEW p \in Session, ForgetSession(p) PROVE HubInv'
  <2>1. ForgetChildren(<<p>>) /\ UNCHANGED <<finished, known>>
    BY <1>3 DEF ForgetSession
  <2> QED BY <2>1, ForgetStep
<1>4. ASSUME NEW p \in Session, CloseChildren(p) PROVE HubInv'
  <2>1. ForgetChildren(CollectClosable(p).list) /\ UNCHANGED <<finished, known>>
    BY <1>4 DEF CloseChildren
  <2> QED BY <2>1, ForgetStep
<1>5. ASSUME NEW S \in SUBSET Session, ForgetWorktree(S) PROVE HubInv'
  <2> DEFINE rest == Session \ S
  <2>1. /\ recorded' = [p \in Session |-> IF p \in {} THEN <<>> ELSE Retain(recorded[p], rest)]
        /\ UNCHANGED <<finished, known>>
    BY <1>5 DEF ForgetWorktree
  <2> HIDE DEF rest
  <2> QED BY <2>1, ShorterStep
<1>6. CASE UNCHANGED hubVars
  <2>1. UNCHANGED <<recorded, known>> /\ finished' \subseteq Session
    BY <1>0, <1>6 DEF hubVars
  <2> QED BY <2>1, SameStep
<1> QED BY <1>1, <1>2, <1>3, <1>4, <1>5, <1>6 DEF HubNext

LEMMA HubStart == HubInit => HubInv
<1> SUFFICES ASSUME HubInit PROVE HubInv
  OBVIOUS
<1>1. recorded \in [Session -> Seq(Session)] /\ \A p \in Session : recorded[p] = <<>>
  BY DEF HubInit
<1>2. \A p \in Session : Sets[p] = {} /\ Apart(Itself, recorded[p])
  BY <1>1, EmptyFacts DEF Sets
<1>3. Sets \in [Session -> SUBSET Session]
  BY <1>1, EmptyFacts DEF Sets
<1>4. Tidy(Sets)
  BY <1>2, <1>3 DEF Tidy
<1> QED BY <1>1, <1>2, <1>4 DEF HubInv, HubTypeOK, HubInit

(* Whatever was recorded, settled and forgotten, the three walks over the  *)
(* hub's lists find what Forest says they should.                          *)
THEOREM WalksAreWhole == HubSpec => []ParentageOK
<1>1. ASSUME HubInv PROVE ParentageOK
  <2>1. \A p \in Session : ToSet(CollectAll(p)) = Below(Sets, p) /\ DescendantsFirst(CollectAll(p))
    BY <1>1, CollectAllFacts, ApartFirst
  <2>2. ASSUME NEW p \in Session
        PROVE  /\ ToSet(CollectClosable(p).list) = Closable(Sets, finished, p)
               /\ ToSet(CollectClosable(p).list) \subseteq finished
               /\ DescendantsFirst(CollectClosable(p).list)
               /\ CollectClosable(p).busy = Cardinality(Below(Sets, p) \ finished)
    <3>1. Closable(Sets, finished, p) \subseteq finished
      BY DEF Closable
    <3> QED BY <1>1, <3>1, CollectClosableFacts, ApartFirst
  <2>3. \A p \in Session : ToSet(Grow(<<p>>)) = Subtree(Sets, p) /\ IsInjective(Grow(<<p>>))
    BY <1>1, GrowFacts
  <2>4. WalksAll
    BY <2>1 DEF WalksAll
  <2>5. OffersSettled
    BY <2>2 DEF OffersSettled
  <2>6. ForgetsWhole
    BY <2>3 DEF ForgetsWhole
  <2> QED BY <1>1, <2>4, <2>5, <2>6 DEF ParentageOK, HubInv
<1>2. HubInit => HubInv
  BY HubStart
<1>3. HubInv /\ [HubNext]_hubVars => HubInv'
  BY HubStep
<1> QED BY <1>1, <1>2, <1>3, PTL DEF HubSpec
=============================================================================
