----------------------------- MODULE TurnsProofs -----------------------------
(* Proofs about Turns for any number of callers, sessions and limits.      *)
EXTENDS Turns, TLAPS, FiniteSetTheorems

-----------------------------------------------------------------------------
(* The declared types survive every step.                                  *)
LEMMA TypeStep == TypeOK /\ BusyInv /\ AddressInv /\ [Next]_vars => TypeOK'
<1> USE TurnsAssumption DEF TypeOK, Outcomes, Settled, regVars, logVars, procVars,
       sinkVars, callVars
<1> SUFFICES ASSUME TypeOK, BusyInv, AddressInv, [Next]_vars PROVE TypeOK'
  OBVIOUS
<1>1. ASSUME NEW c \in Callers, NEW s \in Sessions, Admit(c, s) PROVE TypeOK'
  BY <1>1 DEF Admit
<1>2. ASSUME NEW c \in Callers, Begin(c) PROVE TypeOK'
  <2>1. ring' \in Seq(Callers)
    <3>1. CASE Len(ring) < MaxExchanges
      <4>1. ring' = Append(ring, c)
        BY <1>2, <3>1 DEF Begin
      <4> QED BY <4>1
    <3>2. CASE ~(Len(ring) < MaxExchanges)
      <4>1. ring # <<>>
        BY <3>2
      <4>2. Tail(ring) \in Seq(Callers)
        BY <4>1
      <4>3. ring' = Append(Tail(ring), c)
        BY <1>2, <3>2 DEF Begin
      <4> QED BY <4>2, <4>3
    <3> QED BY <3>1, <3>2
  <2>2. log' \in [Callers -> Settled \cup {"none", "in_flight", "dropped"}]
    BY <1>2, ZenonT(60) DEF Begin
  <2> QED BY <1>2, <2>1, <2>2 DEF Begin
<1>3. ASSUME NEW c \in Callers, Watch(c) PROVE TypeOK'
  <2>1. watches' \in [Sessions -> SUBSET Callers]
    <3>1. CASE Cardinality(watches[to[c]]) >= MaxWatches
      BY <1>3, <3>1 DEF Watch
    <3>2. CASE ~(Cardinality(watches[to[c]]) >= MaxWatches)
      <4>1. watches' = [watches EXCEPT ![to[c]] = watches[to[c]] \cup {c}]
        BY <1>3, <3>2 DEF Watch
      <4>2. to[c] \in Sessions
        BY <1>3 DEF Watch, AddressInv
      <4> QED BY <4>1, <4>2
    <3> QED BY <3>1, <3>2
  <2>2. pc' = [pc EXCEPT ![c] = "failing"] \/ pc' = [pc EXCEPT ![c] = "armed"]
    BY <1>3 DEF Watch
  <2> QED BY <1>3, <2>1, <2>2 DEF Watch
<1>4. ASSUME NEW c \in Callers, SendOk(c) PROVE TypeOK'
  <2>1. turn' \in [Sessions -> SUBSET Prompts]
    BY <1>4, ZenonT(60) DEF SendOk, Prompts
  <2>2. working' \in SUBSET Sessions
    BY <1>4 DEF SendOk, AddressInv
  <2> QED BY <1>4, <2>1, <2>2 DEF SendOk
<1>5. ASSUME NEW c \in Callers, SendRefused(c) PROVE TypeOK'
  BY <1>5 DEF SendRefused
<1>6. ASSUME NEW c \in Callers, Cancel(c) PROVE TypeOK'
  <2>1. watches' \in [Sessions -> SUBSET Callers]
    <3>1. CASE c \in watches[to[c]]
      <4>1. watches' = [watches EXCEPT ![to[c]] = watches[to[c]] \ {c}]
        BY <1>6, <3>1 DEF Cancel
      <4>2. to[c] \in Sessions
        BY <1>6 DEF Cancel, AddressInv
      <4> QED BY <4>1, <4>2
    <3>2. CASE c \notin watches[to[c]]
      BY <1>6, <3>2 DEF Cancel
    <3> QED BY <3>1, <3>2
  <2>2. chan' = [chan EXCEPT ![c] = "lost"] \/ chan' = chan
    BY <1>6 DEF Cancel
  <2> QED BY <1>6, <2>1, <2>2 DEF Cancel
<1>7. ASSUME NEW c \in Callers, Fail(c) PROVE TypeOK'
  BY <1>7 DEF Fail, SettleLog, StateOf
<1>8. ASSUME NEW c \in Callers, WaitEnded(c) PROVE TypeOK'
  BY <1>8 DEF WaitEnded
<1>9. ASSUME NEW c \in Callers, GiveUp(c) PROVE TypeOK'
  BY <1>9 DEF GiveUp
<1>10. ASSUME NEW s \in Sessions, UserTurn(s) PROVE TypeOK'
  BY <1>10 DEF UserTurn, Prompts
<1>11. ASSUME NEW s \in Sessions, TurnStarted(s) PROVE TypeOK'
  BY <1>11 DEF TurnStarted
<1>12. ASSUME NEW s \in Sessions, TurnLine(s) PROVE TypeOK'
  <2>1. \A how \in Outcomes : [how |-> how, owed |-> turn[s]] \in Ending
    BY DEF Ending
  <2>2. PICK ends \in Seq(Ending) : lines' = [lines EXCEPT ![s] = ends]
    <3> DEFINE end(how) == [how |-> how, owed |-> turn[s]]
    <3>1. end("finished") \in Ending /\ end("failed") \in Ending
      BY <2>1
    <3>2. \/ lines' = [lines EXCEPT ![s] = <<end("finished")>>]
          \/ lines' = [lines EXCEPT ![s] = <<end("failed"), end("finished")>>]
      BY <1>12 DEF TurnLine
    <3>3. <<end("finished")>> \in Seq(Ending) /\ <<end("failed"), end("finished")>> \in Seq(Ending)
      <4> HIDE DEF end
      <4> QED BY <3>1
    <3> QED BY <3>2, <3>3
  <2> QED BY <1>12, <2>2 DEF TurnLine
<1>13. ASSUME NEW s \in Sessions, FailureLine(s) PROVE TypeOK'
  <2>1. [how |-> "failed", owed |-> turn[s]] \in Ending
    BY DEF Ending
  <2>2. lines' \in [Sessions -> Seq(Ending)]
    BY <1>13, <2>1 DEF FailureLine
  <2>3. turn' \in [Sessions -> SUBSET Prompts]
    BY <1>13 DEF FailureLine
  <2> QED BY <1>13, <2>2, <2>3 DEF FailureLine
<1>14. ASSUME NEW s \in Sessions, Record(s) PROVE TypeOK'
  BY <1>14 DEF Record
<1>15. ASSUME NEW s \in Sessions, Observe(s) PROVE TypeOK'
  BY <1>15 DEF Observe, TakeWatches
<1>16. ASSUME NEW s \in Sessions, NEW c \in Callers, Send(s, c) PROVE TypeOK'
  <2>1. now[s].how \in Outcomes
    BY <1>16 DEF Send, BusyInv, Ending
  <2> QED BY <1>16, <2>1 DEF Send
<1>17. ASSUME NEW s \in Sessions, NEW c \in Callers, Settle(s, c) PROVE TypeOK'
  BY <1>17 DEF Settle, SettleLog, StateOf
<1>18. ASSUME NEW s \in Sessions, End(s) PROVE TypeOK'
  BY <1>18 DEF End
<1>19. ASSUME NEW s \in Sessions, Exit(s) PROVE TypeOK'
  BY <1>19 DEF Exit, TakeWatches, Ending
<1>20. CASE UNCHANGED vars
  BY <1>20 DEF vars
<1> QED
  BY <1>1, <1>2, <1>3, <1>4, <1>5, <1>6, <1>7, <1>8, <1>9, <1>10, <1>11, <1>12,
     <1>13, <1>14, <1>15, <1>16, <1>17, <1>18, <1>19, <1>20
     DEF Next, CallerStep, SinkStep, SessionStep
-----------------------------------------------------------------------------
(* The parts of the inductive invariant survive every step.                *)

(* The reader holds watches only while it reports an ending.               *)
LEMMA BusyStep == IInv /\ [Next]_vars => BusyInv'
<1> USE TurnsAssumption DEF IInv, TypeOK, Outcomes, Settled, regVars, logVars, procVars,
       sinkVars, callVars, BusyInv
<1> SUFFICES ASSUME IInv, [Next]_vars PROVE BusyInv'
  OBVIOUS
<1>1. ASSUME NEW c \in Callers, NEW s \in Sessions, Admit(c, s) PROVE BusyInv'
  BY <1>1 DEF Admit
<1>2. ASSUME NEW c \in Callers, Begin(c) PROVE BusyInv'
  BY <1>2 DEF Begin
<1>3. ASSUME NEW c \in Callers, Watch(c) PROVE BusyInv'
  BY <1>3 DEF Watch
<1>4. ASSUME NEW c \in Callers, SendOk(c) PROVE BusyInv'
  BY <1>4 DEF SendOk
<1>5. ASSUME NEW c \in Callers, SendRefused(c) PROVE BusyInv'
  BY <1>5 DEF SendRefused
<1>6. ASSUME NEW c \in Callers, Cancel(c) PROVE BusyInv'
  BY <1>6 DEF Cancel
<1>7. ASSUME NEW c \in Callers, Fail(c) PROVE BusyInv'
  BY <1>7 DEF Fail, SettleLog, StateOf
<1>8. ASSUME NEW c \in Callers, WaitEnded(c) PROVE BusyInv'
  BY <1>8 DEF WaitEnded
<1>9. ASSUME NEW c \in Callers, GiveUp(c) PROVE BusyInv'
  BY <1>9 DEF GiveUp
<1>10. ASSUME NEW s \in Sessions, UserTurn(s) PROVE BusyInv'
  BY <1>10 DEF UserTurn
<1>11. ASSUME NEW s \in Sessions, TurnStarted(s) PROVE BusyInv'
  BY <1>11 DEF TurnStarted
<1>12. ASSUME NEW s \in Sessions, TurnLine(s) PROVE BusyInv'
  BY <1>12 DEF TurnLine
<1>13. ASSUME NEW s \in Sessions, FailureLine(s) PROVE BusyInv'
  BY <1>13 DEF FailureLine
<1>14. ASSUME NEW s \in Sessions, Record(s) PROVE BusyInv'
  BY <1>14 DEF Record
<1>15. ASSUME NEW s \in Sessions, Observe(s) PROVE BusyInv'
  BY <1>15 DEF Observe, TakeWatches
<1>16. ASSUME NEW s \in Sessions, NEW c \in Callers, Send(s, c) PROVE BusyInv'
  BY <1>16 DEF Send
<1>17. ASSUME NEW s \in Sessions, NEW c \in Callers, Settle(s, c) PROVE BusyInv'
  BY <1>17 DEF Settle, SettleLog, StateOf
<1>18. ASSUME NEW s \in Sessions, End(s) PROVE BusyInv'
  BY <1>18 DEF End
<1>19. ASSUME NEW s \in Sessions, Exit(s) PROVE BusyInv'
  <2>1. [how |-> "gone", owed |-> turn[s]] \in Ending
    BY DEF Ending
  <2>2. /\ sending[s] = {} /\ settling[s] = {}
        /\ sending' = [sending EXCEPT ![s] = watches[s]]
        /\ UNCHANGED settling
        /\ now' = [now EXCEPT ![s] = IF watches[s] = {} THEN None
                                     ELSE [how |-> "gone", owed |-> turn[s]]]
    BY <1>19 DEF Exit, TakeWatches, AtRest
  <2> QED BY <2>1, <2>2
<1>20. CASE UNCHANGED vars
  BY <1>20 DEF vars
<1> QED
  BY <1>1, <1>2, <1>3, <1>4, <1>5, <1>6, <1>7, <1>8, <1>9, <1>10, <1>11, <1>12,
     <1>13, <1>14, <1>15, <1>16, <1>17, <1>18, <1>19, <1>20
     DEF Next, CallerStep, SinkStep, SessionStep

(* No caller forgets whom it addresses.                                    *)
LEMMA AddressStep == IInv /\ [Next]_vars => AddressInv'
<1> USE TurnsAssumption DEF IInv, TypeOK, Outcomes, Settled, regVars, logVars, procVars,
       sinkVars, callVars, AddressInv
<1> SUFFICES ASSUME IInv, [Next]_vars PROVE AddressInv'
  OBVIOUS
<1>1. ASSUME NEW c \in Callers, NEW s \in Sessions, Admit(c, s) PROVE AddressInv'
  BY <1>1 DEF Admit
<1>2. ASSUME NEW c \in Callers, Begin(c) PROVE AddressInv'
  BY <1>2 DEF Begin
<1>3. ASSUME NEW c \in Callers, Watch(c) PROVE AddressInv'
  BY <1>3 DEF Watch
<1>4. ASSUME NEW c \in Callers, SendOk(c) PROVE AddressInv'
  BY <1>4 DEF SendOk
<1>5. ASSUME NEW c \in Callers, SendRefused(c) PROVE AddressInv'
  BY <1>5 DEF SendRefused
<1>6. ASSUME NEW c \in Callers, Cancel(c) PROVE AddressInv'
  BY <1>6 DEF Cancel
<1>7. ASSUME NEW c \in Callers, Fail(c) PROVE AddressInv'
  BY <1>7 DEF Fail, SettleLog, StateOf
<1>8. ASSUME NEW c \in Callers, WaitEnded(c) PROVE AddressInv'
  BY <1>8 DEF WaitEnded
<1>9. ASSUME NEW c \in Callers, GiveUp(c) PROVE AddressInv'
  BY <1>9 DEF GiveUp
<1>10. ASSUME NEW s \in Sessions, UserTurn(s) PROVE AddressInv'
  BY <1>10 DEF UserTurn
<1>11. ASSUME NEW s \in Sessions, TurnStarted(s) PROVE AddressInv'
  BY <1>11 DEF TurnStarted
<1>12. ASSUME NEW s \in Sessions, TurnLine(s) PROVE AddressInv'
  BY <1>12 DEF TurnLine
<1>13. ASSUME NEW s \in Sessions, FailureLine(s) PROVE AddressInv'
  BY <1>13 DEF FailureLine
<1>14. ASSUME NEW s \in Sessions, Record(s) PROVE AddressInv'
  BY <1>14 DEF Record
<1>15. ASSUME NEW s \in Sessions, Observe(s) PROVE AddressInv'
  BY <1>15 DEF Observe, TakeWatches
<1>16. ASSUME NEW s \in Sessions, NEW c \in Callers, Send(s, c) PROVE AddressInv'
  BY <1>16 DEF Send
<1>17. ASSUME NEW s \in Sessions, NEW c \in Callers, Settle(s, c) PROVE AddressInv'
  BY <1>17 DEF Settle, SettleLog, StateOf
<1>18. ASSUME NEW s \in Sessions, End(s) PROVE AddressInv'
  BY <1>18 DEF End
<1>19. ASSUME NEW s \in Sessions, Exit(s) PROVE AddressInv'
  BY <1>19 DEF Exit, TakeWatches
<1>20. CASE UNCHANGED vars
  BY <1>20 DEF vars
<1> QED
  BY <1>1, <1>2, <1>3, <1>4, <1>5, <1>6, <1>7, <1>8, <1>9, <1>10, <1>11, <1>12,
     <1>13, <1>14, <1>15, <1>16, <1>17, <1>18, <1>19, <1>20
     DEF Next, CallerStep, SinkStep, SessionStep

(* A watch stays in the list of its own session, unsent.                   *)
LEMMA ArmedStep == IInv /\ [Next]_vars => ArmedInv'
<1> USE TurnsAssumption DEF IInv, TypeOK, Outcomes, Settled, regVars, logVars, procVars,
       sinkVars, callVars, Live, AddressInv, ArmedInv, SendingInv, SettlingInv, CallInv, CallOf
<1> SUFFICES ASSUME IInv, [Next]_vars PROVE ArmedInv'
  OBVIOUS
<1>1. ASSUME NEW c \in Callers, NEW s \in Sessions, Admit(c, s) PROVE ArmedInv'
  BY <1>1 DEF Admit
<1>2. ASSUME NEW c \in Callers, Begin(c) PROVE ArmedInv'
  BY <1>2 DEF Begin
<1>3. ASSUME NEW c \in Callers, Watch(c) PROVE ArmedInv'
  <2>1. CASE Cardinality(watches[to[c]]) >= MaxWatches
    <3>1. /\ pc[c] = "begun" /\ pc' = [pc EXCEPT ![c] = "failing"]
          /\ UNCHANGED <<watches, to, chan, sending, settling>>
      BY <1>3, <2>1 DEF Watch
    <3>2. \A s \in Sessions : c \notin watches[s]
      BY <3>1
    <3> QED BY <3>1, <3>2
  <2>2. CASE ~(Cardinality(watches[to[c]]) >= MaxWatches)
    <3>1. /\ pc[c] = "begun" /\ to[c] \in Sessions
          /\ pc' = [pc EXCEPT ![c] = "armed"]
          /\ watches' = [watches EXCEPT ![to[c]] = watches[to[c]] \cup {c}]
          /\ UNCHANGED <<to, chan, sending, settling>>
      BY <1>3, <2>2 DEF Watch
    <3>2. chan[c] = "empty"
      BY <3>1
    <3>3. c \notin sending[to[c]] \cup settling[to[c]]
      BY <3>1
    <3>4. SUFFICES ASSUME NEW s \in Sessions, NEW d \in watches'[s]
                   PROVE  /\ to[d] = s /\ pc'[d] \in Live /\ chan[d] = "empty"
                          /\ d \notin sending[s] \cup settling[s]
      BY <3>1
    <3>5. CASE d = c
      <4>1. s = to[c]
        BY <3>1, <3>5
      <4> QED BY <4>1, <3>1, <3>2, <3>3, <3>5
    <3>6. CASE d # c
      <4>1. d \in watches[s] /\ d \in Callers
        BY <3>1, <3>6
      <4> QED BY <4>1, <3>1, <3>6
    <3> QED BY <3>5, <3>6
  <2> QED BY <2>1, <2>2
<1>4. ASSUME NEW c \in Callers, SendOk(c) PROVE ArmedInv'
  BY <1>4 DEF SendOk
<1>5. ASSUME NEW c \in Callers, SendRefused(c) PROVE ArmedInv'
  BY <1>5 DEF SendRefused
<1>6. ASSUME NEW c \in Callers, Cancel(c) PROVE ArmedInv'
  <2>1. CASE c \in watches[to[c]]
    <3>1. /\ to[c] \in Sessions
          /\ pc' = [pc EXCEPT ![c] = "failing"]
          /\ watches' = [watches EXCEPT ![to[c]] = watches[to[c]] \ {c}]
          /\ chan' = [chan EXCEPT ![c] = "lost"]
          /\ UNCHANGED <<to, sending, settling>>
      BY <1>6, <2>1 DEF Cancel
    <3>2. SUFFICES ASSUME NEW s \in Sessions, NEW d \in watches'[s]
                   PROVE  /\ to[d] = s /\ pc'[d] \in Live /\ chan'[d] = "empty"
                          /\ d \notin sending[s] \cup settling[s]
      BY <3>1
    <3>3. d \in watches[s] /\ d \in Callers /\ d # c
      BY <3>1
    <3> QED BY <3>1, <3>3
  <2>2. CASE c \notin watches[to[c]]
    <3>1. \A s \in Sessions : c \notin watches[s]
      BY <2>2
    <3> QED BY <1>6, <2>2, <3>1 DEF Cancel
  <2> QED BY <2>1, <2>2
<1>7. ASSUME NEW c \in Callers, Fail(c) PROVE ArmedInv'
  BY <1>7 DEF Fail, SettleLog, StateOf
<1>8. ASSUME NEW c \in Callers, WaitEnded(c) PROVE ArmedInv'
  BY <1>8 DEF WaitEnded
<1>9. ASSUME NEW c \in Callers, GiveUp(c) PROVE ArmedInv'
  BY <1>9 DEF GiveUp
<1>10. ASSUME NEW s \in Sessions, UserTurn(s) PROVE ArmedInv'
  BY <1>10 DEF UserTurn
<1>11. ASSUME NEW s \in Sessions, TurnStarted(s) PROVE ArmedInv'
  BY <1>11 DEF TurnStarted
<1>12. ASSUME NEW s \in Sessions, TurnLine(s) PROVE ArmedInv'
  BY <1>12 DEF TurnLine
<1>13. ASSUME NEW s \in Sessions, FailureLine(s) PROVE ArmedInv'
  BY <1>13 DEF FailureLine
<1>14. ASSUME NEW s \in Sessions, Record(s) PROVE ArmedInv'
  BY <1>14 DEF Record
<1>15. ASSUME NEW s \in Sessions, Observe(s) PROVE ArmedInv'
  BY <1>15 DEF Observe, TakeWatches
<1>16. ASSUME NEW s \in Sessions, NEW c \in Callers, Send(s, c) PROVE ArmedInv'
  BY <1>16 DEF Send
<1>17. ASSUME NEW s \in Sessions, NEW c \in Callers, Settle(s, c) PROVE ArmedInv'
  BY <1>17 DEF Settle, SettleLog, StateOf
<1>18. ASSUME NEW s \in Sessions, End(s) PROVE ArmedInv'
  BY <1>18 DEF End
<1>19. ASSUME NEW s \in Sessions, Exit(s) PROVE ArmedInv'
  BY <1>19 DEF Exit, TakeWatches
<1>20. CASE UNCHANGED vars
  BY <1>20 DEF vars
<1> QED
  BY <1>1, <1>2, <1>3, <1>4, <1>5, <1>6, <1>7, <1>8, <1>9, <1>10, <1>11, <1>12,
     <1>13, <1>14, <1>15, <1>16, <1>17, <1>18, <1>19, <1>20
     DEF Next, CallerStep, SinkStep, SessionStep

(* A watch the reader took is sent to once.                                *)
LEMMA SendingStep == IInv /\ [Next]_vars => SendingInv'
<1> USE TurnsAssumption DEF IInv, TypeOK, Outcomes, Settled, regVars, logVars, procVars,
       sinkVars, callVars, Live, Unsettled, AddressInv, ArmedInv, SendingInv, CallInv, CallOf
<1> SUFFICES ASSUME IInv, [Next]_vars PROVE SendingInv'
  OBVIOUS
<1>1. ASSUME NEW c \in Callers, NEW s \in Sessions, Admit(c, s) PROVE SendingInv'
  BY <1>1 DEF Admit
<1>2. ASSUME NEW c \in Callers, Begin(c) PROVE SendingInv'
  BY <1>2 DEF Begin
<1>3. ASSUME NEW c \in Callers, Watch(c) PROVE SendingInv'
  <2>1. /\ pc[c] = "begun"
        /\ pc' = [pc EXCEPT ![c] = "failing"] \/ pc' = [pc EXCEPT ![c] = "armed"]
        /\ UNCHANGED <<to, chan, log, sending, settling>>
    BY <1>3 DEF Watch
  <2>2. \A s \in Sessions : c \notin sending[s]
    BY <2>1
  <2> QED BY <2>1, <2>2
<1>4. ASSUME NEW c \in Callers, SendOk(c) PROVE SendingInv'
  BY <1>4 DEF SendOk
<1>5. ASSUME NEW c \in Callers, SendRefused(c) PROVE SendingInv'
  BY <1>5 DEF SendRefused
<1>6. ASSUME NEW c \in Callers, Cancel(c) PROVE SendingInv'
  BY <1>6 DEF Cancel
<1>7. ASSUME NEW c \in Callers, Fail(c) PROVE SendingInv'
  BY <1>7 DEF Fail, SettleLog, StateOf
<1>8. ASSUME NEW c \in Callers, WaitEnded(c) PROVE SendingInv'
  BY <1>8 DEF WaitEnded
<1>9. ASSUME NEW c \in Callers, GiveUp(c) PROVE SendingInv'
  BY <1>9 DEF GiveUp
<1>10. ASSUME NEW s \in Sessions, UserTurn(s) PROVE SendingInv'
  BY <1>10 DEF UserTurn
<1>11. ASSUME NEW s \in Sessions, TurnStarted(s) PROVE SendingInv'
  BY <1>11 DEF TurnStarted
<1>12. ASSUME NEW s \in Sessions, TurnLine(s) PROVE SendingInv'
  BY <1>12 DEF TurnLine
<1>13. ASSUME NEW s \in Sessions, FailureLine(s) PROVE SendingInv'
  BY <1>13 DEF FailureLine
<1>14. ASSUME NEW s \in Sessions, Record(s) PROVE SendingInv'
  BY <1>14 DEF Record
<1>15. ASSUME NEW s \in Sessions, Observe(s) PROVE SendingInv'
  <2>1. /\ sending[s] = {} /\ settling[s] = {}
        /\ sending' = [sending EXCEPT ![s] = watches[s]]
        /\ UNCHANGED <<to, pc, chan, log, settling>>
    BY <1>15 DEF Observe, TakeWatches
  <2>2. ASSUME NEW d \in watches[s] PROVE log[d] \in Unsettled
    <3>1. d \in Callers /\ pc[d] \in Live /\ chan[d] = "empty" /\ CallOf(d)
      BY DEF CallInv
    <3> QED BY <3>1
  <2> QED BY <2>1, <2>2
<1>16. ASSUME NEW s \in Sessions, NEW c \in Callers, Send(s, c) PROVE SendingInv'
  BY <1>16 DEF Send
<1>17. ASSUME NEW s \in Sessions, NEW c \in Callers, Settle(s, c) PROVE SendingInv'
  <2>1. /\ sending[s] = {} /\ c \in settling[s]
        /\ settling' = [settling EXCEPT ![s] = settling[s] \ {c}]
        /\ \A d \in Callers : d # c => log'[d] = log[d]
        /\ UNCHANGED <<to, pc, chan, sending>>
    BY <1>17 DEF Settle, SettleLog
  <2>2. \A t \in Sessions : c \notin sending[t]
    BY <2>1 DEF SettlingInv
  <2> QED BY <2>1, <2>2
<1>18. ASSUME NEW s \in Sessions, End(s) PROVE SendingInv'
  BY <1>18 DEF End
<1>19. ASSUME NEW s \in Sessions, Exit(s) PROVE SendingInv'
  <2>1. /\ sending[s] = {} /\ settling[s] = {}
        /\ sending' = [sending EXCEPT ![s] = watches[s]]
        /\ UNCHANGED <<to, pc, chan, log, settling>>
    BY <1>19 DEF Exit, TakeWatches, AtRest, BusyInv
  <2>2. ASSUME NEW d \in watches[s] PROVE log[d] \in Unsettled
    <3>1. d \in Callers /\ pc[d] \in Live /\ chan[d] = "empty" /\ CallOf(d)
      BY DEF CallInv
    <3> QED BY <3>1
  <2> QED BY <2>1, <2>2
<1>20. CASE UNCHANGED vars
  BY <1>20 DEF vars
<1> QED
  BY <1>1, <1>2, <1>3, <1>4, <1>5, <1>6, <1>7, <1>8, <1>9, <1>10, <1>11, <1>12,
     <1>13, <1>14, <1>15, <1>16, <1>17, <1>18, <1>19, <1>20
     DEF Next, CallerStep, SinkStep, SessionStep

(* What the reader has still to settle is what it has sent.                *)
LEMMA SettlingStep == IInv /\ [Next]_vars => SettlingInv'
<1> USE TurnsAssumption DEF IInv, TypeOK, Outcomes, Settled, regVars, logVars, procVars,
       sinkVars, callVars, Live, Unsettled,
       AddressInv, BusyInv, SendingInv, SettlingInv, CallInv, CallOf, Told
<1> SUFFICES ASSUME IInv, [Next]_vars PROVE SettlingInv'
  OBVIOUS
<1>1. ASSUME NEW c \in Callers, NEW s \in Sessions, Admit(c, s) PROVE SettlingInv'
  BY <1>1 DEF Admit
<1>2. ASSUME NEW c \in Callers, Begin(c) PROVE SettlingInv'
  BY <1>2 DEF Begin
<1>3. ASSUME NEW c \in Callers, Watch(c) PROVE SettlingInv'
  BY <1>3 DEF Watch
<1>4. ASSUME NEW c \in Callers, SendOk(c) PROVE SettlingInv'
  BY <1>4 DEF SendOk
<1>5. ASSUME NEW c \in Callers, SendRefused(c) PROVE SettlingInv'
  BY <1>5 DEF SendRefused
<1>6. ASSUME NEW c \in Callers, Cancel(c) PROVE SettlingInv'
  BY <1>6 DEF Cancel
<1>7. ASSUME NEW c \in Callers, Fail(c) PROVE SettlingInv'
  BY <1>7 DEF Fail, SettleLog, StateOf
<1>8. ASSUME NEW c \in Callers, WaitEnded(c) PROVE SettlingInv'
  BY <1>8 DEF WaitEnded
<1>9. ASSUME NEW c \in Callers, GiveUp(c) PROVE SettlingInv'
  BY <1>9 DEF GiveUp
<1>10. ASSUME NEW s \in Sessions, UserTurn(s) PROVE SettlingInv'
  BY <1>10 DEF UserTurn
<1>11. ASSUME NEW s \in Sessions, TurnStarted(s) PROVE SettlingInv'
  BY <1>11 DEF TurnStarted
<1>12. ASSUME NEW s \in Sessions, TurnLine(s) PROVE SettlingInv'
  BY <1>12 DEF TurnLine
<1>13. ASSUME NEW s \in Sessions, FailureLine(s) PROVE SettlingInv'
  BY <1>13 DEF FailureLine
<1>14. ASSUME NEW s \in Sessions, Record(s) PROVE SettlingInv'
  BY <1>14 DEF Record
<1>15. ASSUME NEW s \in Sessions, Observe(s) PROVE SettlingInv'
  BY <1>15 DEF Observe, TakeWatches
<1>16. ASSUME NEW s \in Sessions, NEW c \in Callers, Send(s, c) PROVE SettlingInv'
  <2>1. /\ c \in sending[s] /\ to[c] = s
        /\ settling' = [settling EXCEPT ![s] = settling[s] \cup {c}]
        /\ chan' = [chan EXCEPT ![c] = now[s].how]
        /\ UNCHANGED <<now, to, pc, got, log>>
    BY <1>16 DEF Send
  <2>2. SUFFICES ASSUME NEW t \in Sessions, NEW d \in settling'[t]
                 PROVE  /\ to[d] = t
                        /\ pc[d] \in Live \cup {"failing", "rejected", "returned"}
                        /\ pc[d] # "rejected" => log[d] \in Unsettled
                        /\ pc[d] \in Live => chan'[d] = now[t].how
                        /\ pc[d] = "returned" => got[d] = now[t].how
    BY <2>1
  <2>3. CASE d = c
    <3>1. t = s
      BY <2>1, <2>3
    <3>2. pc[c] \in Live \cup {"failing", "rejected"} /\ chan[c] = "empty"
      BY <2>1
    <3>3. pc[c] # "rejected" => log[c] \in Unsettled
      BY <2>1
    <3> QED BY <2>1, <2>3, <3>1, <3>2, <3>3
  <2>4. CASE d # c
    <3>1. d \in settling[t] /\ d \in Callers
      BY <2>1, <2>4
    <3> QED BY <2>1, <2>4, <3>1
  <2> QED BY <2>3, <2>4
<1>17. ASSUME NEW s \in Sessions, NEW c \in Callers, Settle(s, c) PROVE SettlingInv'
  BY <1>17 DEF Settle, SettleLog, StateOf
<1>18. ASSUME NEW s \in Sessions, End(s) PROVE SettlingInv'
  BY <1>18 DEF End
<1>19. ASSUME NEW s \in Sessions, Exit(s) PROVE SettlingInv'
  <2>1. /\ settling[s] = {}
        /\ \A t \in Sessions : t # s => now'[t] = now[t]
        /\ UNCHANGED <<settling, to, pc, got, log, chan>>
    BY <1>19 DEF Exit, TakeWatches, AtRest
  <2>2. SUFFICES ASSUME NEW t \in Sessions, NEW d \in settling[t]
                 PROVE  /\ to[d] = t
                        /\ pc[d] \in Live \cup {"failing", "rejected", "returned"}
                        /\ pc[d] # "rejected" => log[d] \in Unsettled
                        /\ pc[d] \in Live => chan[d] = now'[t].how
                        /\ pc[d] = "returned" => got[d] = now'[t].how
    BY <2>1
  <2>3. now'[t] = now[t]
    BY <2>1
  <2> QED BY <2>3
<1>20. CASE UNCHANGED vars
  BY <1>20 DEF vars
<1> QED
  BY <1>1, <1>2, <1>3, <1>4, <1>5, <1>6, <1>7, <1>8, <1>9, <1>10, <1>11, <1>12,
     <1>13, <1>14, <1>15, <1>16, <1>17, <1>18, <1>19, <1>20
     DEF Next, CallerStep, SinkStep, SessionStep

(* What a caller can say of its call stays true.                           *)
LEMMA CallStep == IInv /\ [Next]_vars => CallInv'
<1> USE TurnsAssumption DEF IInv, TypeOK, Outcomes, Settled, regVars, logVars, procVars,
       sinkVars, callVars, Live, Unsettled,
       AddressInv, BusyInv, ArmedInv, SendingInv, SettlingInv, CallInv, CallOf, Told
<1> SUFFICES ASSUME IInv, [Next]_vars PROVE CallInv'
  OBVIOUS
<1>1. ASSUME NEW c \in Callers, NEW s \in Sessions, Admit(c, s) PROVE CallInv'
  BY <1>1 DEF Admit
<1>2. ASSUME NEW c \in Callers, Begin(c) PROVE CallInv'
  BY <1>2 DEF Begin
<1>3. ASSUME NEW c \in Callers, Watch(c) PROVE CallInv'
  <2>1. /\ pc[c] = "begun" /\ to[c] \in Sessions
        /\ \/ pc' = [pc EXCEPT ![c] = "failing"] /\ watches' = watches
           \/ /\ pc' = [pc EXCEPT ![c] = "armed"]
              /\ watches' = [watches EXCEPT ![to[c]] = watches[to[c]] \cup {c}]
        /\ UNCHANGED <<to, got, chan, log, now, sending, settling>>
    BY <1>3 DEF Watch
  <2>2. SUFFICES ASSUME NEW d \in Callers PROVE CallOf(d)'
    BY DEF CallInv
  <2>3. CallOf(d) /\ \A how : Told(d, how)' <=> Told(d, how)
    BY <2>1 DEF CallInv
  <2>4. CASE d = c
    <3>1. chan[c] = "empty" /\ log[c] \in Unsettled
      BY <2>1, <2>3, <2>4
    <3>2. CASE pc' = [pc EXCEPT ![c] = "failing"]
      BY <2>4, <3>2
    <3>3. CASE /\ pc' = [pc EXCEPT ![c] = "armed"]
               /\ watches' = [watches EXCEPT ![to[c]] = watches[to[c]] \cup {c}]
      BY <2>1, <2>4, <3>1, <3>3
    <3> QED BY <2>1, <3>2, <3>3
  <2>5. CASE d # c
    <3>1. pc'[d] = pc[d]
      BY <2>1, <2>5
    <3>2. pc[d] # "new" /\ d \in watches[to[d]] => d \in watches'[to[d]]
      <4>1. pc[d] # "new" => to[d] \in Sessions
        OBVIOUS
      <4>2. \A t \in Sessions : watches[t] \subseteq watches'[t]
        <5>1. CASE watches' = watches
          BY <5>1
        <5>2. CASE watches' = [watches EXCEPT ![to[c]] = watches[to[c]] \cup {c}]
          BY <2>1, <5>2
        <5> QED BY <2>1, <5>1, <5>2
      <4> QED BY <4>1, <4>2
    <3> QED BY <2>1, <2>3, <3>1, <3>2
  <2> QED BY <2>4, <2>5
<1>4. ASSUME NEW c \in Callers, SendOk(c) PROVE CallInv'
  BY <1>4 DEF SendOk
<1>5. ASSUME NEW c \in Callers, SendRefused(c) PROVE CallInv'
  BY <1>5 DEF SendRefused
<1>6. ASSUME NEW c \in Callers, Cancel(c) PROVE CallInv'
  BY <1>6 DEF Cancel
<1>7. ASSUME NEW c \in Callers, Fail(c) PROVE CallInv'
  BY <1>7 DEF Fail, SettleLog, StateOf
<1>8. ASSUME NEW c \in Callers, WaitEnded(c) PROVE CallInv'
  BY <1>8 DEF WaitEnded
<1>9. ASSUME NEW c \in Callers, GiveUp(c) PROVE CallInv'
  BY <1>9 DEF GiveUp
<1>10. ASSUME NEW s \in Sessions, UserTurn(s) PROVE CallInv'
  BY <1>10 DEF UserTurn
<1>11. ASSUME NEW s \in Sessions, TurnStarted(s) PROVE CallInv'
  BY <1>11 DEF TurnStarted
<1>12. ASSUME NEW s \in Sessions, TurnLine(s) PROVE CallInv'
  BY <1>12 DEF TurnLine
<1>13. ASSUME NEW s \in Sessions, FailureLine(s) PROVE CallInv'
  BY <1>13 DEF FailureLine
<1>14. ASSUME NEW s \in Sessions, Record(s) PROVE CallInv'
  BY <1>14 DEF Record
<1>15. ASSUME NEW s \in Sessions, Observe(s) PROVE CallInv'
  BY <1>15 DEF Observe, TakeWatches
<1>16. ASSUME NEW s \in Sessions, NEW c \in Callers, Send(s, c) PROVE CallInv'
  <2>1. /\ c \in sending[s] /\ to[c] = s /\ now[s].how \in Outcomes
        /\ sending' = [sending EXCEPT ![s] = sending[s] \ {c}]
        /\ settling' = [settling EXCEPT ![s] = settling[s] \cup {c}]
        /\ chan' = [chan EXCEPT ![c] = now[s].how]
        /\ UNCHANGED <<now, to, pc, got, log, watches>>
    BY <1>16 DEF Send, Ending
  <2>2. chan[c] = "empty" /\ pc[c] \in Live \cup {"failing", "rejected"}
    BY <2>1
  <2>3. pc[c] \in Live => log[c] \in Unsettled
    BY <2>2
  <2>4. SUFFICES ASSUME NEW d \in Callers PROVE CallOf(d)'
    BY DEF CallOf
  <2>5. CASE d = c
    BY <2>1, <2>2, <2>3, <2>5 DEF CallOf
  <2>6. CASE d # c
    <3>1. CallOf(d)
      BY DEF CallOf
    <3> QED BY <2>1, <2>6, <3>1 DEF CallOf
  <2> QED BY <2>5, <2>6
<1>17. ASSUME NEW s \in Sessions, NEW c \in Callers, Settle(s, c) PROVE CallInv'
  BY <1>17 DEF Settle, SettleLog, StateOf
<1>18. ASSUME NEW s \in Sessions, End(s) PROVE CallInv'
  BY <1>18 DEF End
<1>19. ASSUME NEW s \in Sessions, Exit(s) PROVE CallInv'
  <2>1. /\ settling[s] = {} /\ sending[s] = {}
        /\ \A t \in Sessions : t # s => now'[t] = now[t]
        /\ watches' = [watches EXCEPT ![s] = {}]
        /\ sending' = [sending EXCEPT ![s] = watches[s]]
        /\ UNCHANGED <<settling, to, pc, got, log, chan>>
    BY <1>19 DEF Exit, TakeWatches, AtRest
  <2>2. SUFFICES ASSUME NEW d \in Callers PROVE CallOf(d)'
    BY DEF CallInv
  <2>3. CallOf(d)
    BY DEF CallInv
  <2>4. ASSUME NEW how, Told(d, how), pc[d] # "new" PROVE Told(d, how)'
    <3>1. to[d] \in Sessions
      BY <2>4
    <3>2. d \in settling[to[d]] => now'[to[d]] = now[to[d]]
      BY <2>1, <3>1
    <3> QED BY <2>1, <2>4, <3>2
  <2>5. d \in watches[to[d]] \cup sending[to[d]] => d \in watches'[to[d]] \cup sending'[to[d]]
    BY <2>1
  <2> QED BY <2>1, <2>3, <2>4, <2>5
<1>20. CASE UNCHANGED vars
  BY <1>20 DEF vars
<1> QED
  BY <1>1, <1>2, <1>3, <1>4, <1>5, <1>6, <1>7, <1>8, <1>9, <1>10, <1>11, <1>12,
     <1>13, <1>14, <1>15, <1>16, <1>17, <1>18, <1>19, <1>20
     DEF Next, CallerStep, SinkStep, SessionStep

-----------------------------------------------------------------------------
(* The inductive invariant holds of the first state, and for ever.         *)
LEMMA InitInv == Init => IInv
<1> SUFFICES ASSUME Init PROVE IInv
  OBVIOUS
<1> USE TurnsAssumption DEF Init
<1>1. TypeOK
  BY DEF TypeOK, Outcomes, Settled, Prompts
<1>2. BusyInv /\ AddressInv /\ ArmedInv /\ SendingInv /\ SettlingInv
  BY DEF BusyInv, AddressInv, ArmedInv, SendingInv, SettlingInv
<1>3. CallInv
  BY DEF CallInv, CallOf, Live
<1> QED BY <1>1, <1>2, <1>3 DEF IInv

THEOREM Invariant == Spec => []IInv
<1>1. Init => IInv
  BY InitInv
<1>2. IInv /\ [Next]_vars => IInv'
  BY TypeStep, BusyStep, AddressStep, ArmedStep, SendingStep, SettlingStep, CallStep DEF IInv
<1> QED BY <1>1, <1>2, PTL DEF Spec

(* Every variable keeps its type.                                          *)
THEOREM TypeCorrect == Spec => []TypeOK
<1>1. IInv => TypeOK
  BY DEF IInv
<1> QED BY <1>1, Invariant, PTL

(* No exchange is left drawn as in flight with nobody to settle it.        *)
THEOREM InFlightOwed == Spec => []InFlightIsOwed
<1>1. IInv => InFlightIsOwed
  <2> SUFFICES ASSUME IInv, NEW c \in Callers, log[c] = "in_flight"
               PROVE  \/ pc[c] \in {"begun", "refused", "failing"}
                      \/ c \in watches[to[c]]
                      \/ c \in sending[to[c]] \cup settling[to[c]]
    BY DEF InFlightIsOwed
  <2>1. CallOf(c) /\ pc[c] \notin {"new", "admitted", "rejected"}
    BY DEF IInv, CallInv, CallOf
  <2>2. CASE pc[c] \in Live
    BY <2>1, <2>2 DEF CallOf, Told, StateOf
  <2>3. CASE pc[c] = "returned"
    BY <2>1, <2>3 DEF CallOf, Told, StateOf
  <2> QED BY <2>1, <2>2, <2>3 DEF IInv, TypeOK, Live
<1> QED BY <1>1, Invariant, PTL

(* A caller that waits always has its ending still to come.                *)
THEOREM NotLost == Spec => []NeverLost
<1>1. IInv => NeverLost
  BY DEF IInv, CallInv, CallOf, Live, NeverLost
<1> QED BY <1>1, Invariant, PTL

(* A reply and the record of it never disagree.                            *)
THEOREM ToldIsLogged == Spec => []ToldAsLogged
<1>1. IInv => ToldAsLogged
  BY DEF IInv, CallInv, CallOf, Told, ToldAsLogged
<1> QED BY <1>1, Invariant, PTL

(* An exchange whose prompt was taken settles once.                        *)
THEOREM SettlesOnce == Spec => SettledOnce
<1>1. IInv /\ [Next]_vars =>
        \A c \in Callers : log[c] \in Settled /\ log'[c] # log[c] =>
           log'[c] = "dropped" \/ pc[c] \in {"failing", "rejected"}
  <2> SUFFICES ASSUME IInv, [Next]_vars, NEW c \in Callers,
                      log[c] \in Settled, log'[c] # log[c]
               PROVE  log'[c] = "dropped" \/ pc[c] \in {"failing", "rejected"}
    OBVIOUS
  <2> USE DEF regVars, logVars, procVars, sinkVars, callVars
  <2>1. ASSUME NEW d \in Callers, Begin(d) PROVE log'[c] = "dropped"
    <3>1. log[d] \notin Settled
      BY <2>1 DEF Begin, IInv, CallInv, CallOf, Settled
    <3>2. c # d
      BY <3>1
    <3> QED BY <2>1, <3>2 DEF Begin, IInv, TypeOK
  <2>2. ASSUME NEW d \in Callers, Fail(d) PROVE pc[c] = "failing"
    <3>1. c = d
      BY <2>2 DEF Fail, SettleLog, IInv, TypeOK
    <3> QED BY <2>2, <3>1 DEF Fail
  <2>3. ASSUME NEW s \in Sessions, NEW d \in Callers, Settle(s, d)
        PROVE  pc[c] = "rejected"
    <3>1. c = d
      BY <2>3 DEF Settle, SettleLog, IInv, TypeOK
    <3> QED BY <2>3, <3>1 DEF Settle, IInv, SettlingInv, Settled, Unsettled
  <2>4. ASSUME UNCHANGED log PROVE FALSE
    BY <2>4
  <2>5. ASSUME NEW d \in Callers, CallerStep(d), ~Begin(d), ~Fail(d)
        PROVE UNCHANGED log
    BY <2>5 DEF CallerStep, Admit, Watch, SendOk, SendRefused, Cancel, WaitEnded, GiveUp
  <2>6. ASSUME NEW s \in Sessions, SinkStep(s), \A d \in Callers : ~Settle(s, d)
        PROVE UNCHANGED log
    BY <2>6 DEF SinkStep, Record, Observe, Send
  <2>7. ASSUME NEW s \in Sessions, SessionStep(s) PROVE UNCHANGED log
    BY <2>7 DEF SessionStep, UserTurn, TurnStarted, TurnLine, FailureLine, End, Exit
  <2>8. CASE UNCHANGED vars
    BY <2>8 DEF vars
  <2> QED BY <2>1, <2>2, <2>3, <2>4, <2>5, <2>6, <2>7, <2>8 DEF Next
<1> QED BY <1>1, Invariant, PTL DEF Spec, SettledOnce

-----------------------------------------------------------------------------
(* The limit on watches is a limit: it holds of the set itself, whoever    *)
(* armed them and whether or not they still wait.                          *)
THEOREM WatchLimit == Spec => []WatchesBounded
<1> USE TurnsAssumption
<1>1. Init => WatchesBounded
  BY FS_EmptySet DEF Init, WatchesBounded
<1>2. IInv /\ WatchesBounded /\ [Next]_vars => WatchesBounded'
  <2> SUFFICES ASSUME IInv, WatchesBounded, [Next]_vars, NEW s \in Sessions
               PROVE  Cardinality(watches'[s]) <= MaxWatches
    BY DEF WatchesBounded
  <2>1. IsFiniteSet(watches[s]) /\ Cardinality(watches[s]) \in Nat
    BY FS_Subset, FS_CardinalityType DEF IInv, TypeOK
  <2>2. ASSUME NEW c \in Callers, Watch(c) PROVE Cardinality(watches'[s]) <= MaxWatches
    <3>1. CASE watches' = watches
      BY <3>1 DEF WatchesBounded
    <3>2. CASE /\ ~(Cardinality(watches[to[c]]) >= MaxWatches)
               /\ watches' = [watches EXCEPT ![to[c]] = watches[to[c]] \cup {c}]
      <4>1. CASE s = to[c]
        <5>1. watches'[s] = watches[s] \cup {c}
          BY <3>2, <4>1 DEF IInv, TypeOK
        <5>2. \/ Cardinality(watches'[s]) = Cardinality(watches[s])
              \/ Cardinality(watches'[s]) = Cardinality(watches[s]) + 1
          <6> HIDE TurnsAssumption
          <6>1. Cardinality(watches[s] \cup {c})
                  = IF c \in watches[s] THEN Cardinality(watches[s])
                                        ELSE Cardinality(watches[s]) + 1
            BY <2>1, FS_AddElement
          <6> QED BY <5>1, <6>1
        <5> QED BY <2>1, <3>2, <4>1, <5>2
      <4>2. CASE s # to[c]
        BY <3>2, <4>2 DEF IInv, TypeOK, WatchesBounded
      <4> QED BY <4>1, <4>2
    <3> QED BY <2>2, <3>1, <3>2 DEF Watch
  <2>3. ASSUME watches'[s] \subseteq watches[s] PROVE Cardinality(watches'[s]) <= MaxWatches
    <3>1. Cardinality(watches'[s]) <= Cardinality(watches[s])
      BY <2>1, <2>3, FS_Subset
    <3>2. Cardinality(watches'[s]) \in Nat
      BY <2>1, <2>3, FS_Subset, FS_CardinalityType
    <3> QED BY <2>1, <3>1, <3>2 DEF WatchesBounded
  <2>4. ASSUME NEW c \in Callers, CallerStep(c), ~Watch(c) PROVE watches'[s] \subseteq watches[s]
    <3>1. CASE Cancel(c)
      <4>1. CASE watches' = watches
        BY <4>1
      <4>2. CASE watches' = [watches EXCEPT ![to[c]] = watches[to[c]] \ {c}]
        BY <4>2 DEF IInv, TypeOK
      <4> QED BY <3>1, <4>1, <4>2 DEF Cancel
    <3>2. CASE ~Cancel(c)
      <4>1. UNCHANGED watches
        BY <2>4, <3>2 DEF CallerStep, Admit, Begin, SendOk, SendRefused, Fail, WaitEnded, GiveUp,
                          regVars
      <4> QED BY <4>1
    <3> QED BY <3>1, <3>2
  <2>5. ASSUME NEW t \in Sessions, SinkStep(t) \/ SessionStep(t)
        PROVE  watches'[s] \subseteq watches[s]
    <3>1. watches' = watches \/ watches' = [watches EXCEPT ![t] = {}]
      BY <2>5 DEF SinkStep, Record, Observe, Send, Settle, TakeWatches, SessionStep, UserTurn,
                  TurnStarted, TurnLine, FailureLine, End, Exit, regVars
    <3> QED BY <3>1 DEF IInv, TypeOK
  <2>6. CASE UNCHANGED vars
    BY <2>6 DEF vars, WatchesBounded
  <2> QED BY <2>2, <2>3, <2>4, <2>5, <2>6 DEF Next
<1> QED BY <1>1, <1>2, Invariant, PTL DEF Spec

-----------------------------------------------------------------------------
(* Turns keeps the promise of Exchange.                                    *)

(* What a caller has been handed, and what the reader may have handed it.  *)
HandedInv ==
    /\ \A c \in Callers :
          /\ pc[c] # "returned" => got[c] = None
          /\ pc[c] = "returned" => chan[c] = "taken"
          /\ pc[c] \notin {"new", "admitted"} => log[c] # "none"
    /\ \A s \in Sessions : \A c \in settling[s] :
          pc[c] \in {"failing", "rejected"} => chan[c] = now[s].how

-----------------------------------------------------------------------------
(* What has been handed over stays so.                                     *)
LEMMA HandedStep == IInv /\ HandedInv /\ [Next]_vars => HandedInv'
<1> USE TurnsAssumption DEF IInv, TypeOK, Outcomes, Settled, regVars, logVars, procVars,
       sinkVars, callVars, HandedInv
<1> SUFFICES ASSUME IInv, HandedInv, [Next]_vars PROVE HandedInv'
  OBVIOUS
<1>1. ASSUME NEW c \in Callers, NEW s \in Sessions, Admit(c, s) PROVE HandedInv'
  BY <1>1 DEF Admit
<1>2. ASSUME NEW c \in Callers, Begin(c) PROVE HandedInv'
  <2>1. UNCHANGED <<got, chan, settling, now>> /\ pc' = [pc EXCEPT ![c] = "begun"]
    BY <1>2 DEF Begin
  <2>2. pc[c] = "admitted"
    BY <1>2 DEF Begin
  <2>3. log'[c] = "in_flight" /\ \A d \in Callers : log[d] # "none" => log'[d] # "none"
    BY <1>2 DEF Begin
  <2> QED BY <2>1, <2>2, <2>3
<1>3. ASSUME NEW c \in Callers, Watch(c) PROVE HandedInv'
  <2>1. UNCHANGED <<got, chan, settling, now, log>> /\ pc[c] = "begun"
    BY <1>3 DEF Watch
  <2>2. pc' = [pc EXCEPT ![c] = "failing"] \/ pc' = [pc EXCEPT ![c] = "armed"]
    BY <1>3 DEF Watch
  <2>3. \A t \in Sessions : c \notin settling[t]
    BY <2>1 DEF SettlingInv, Live
  <2>4. CASE pc' = [pc EXCEPT ![c] = "failing"]
    BY <2>1, <2>3, <2>4
  <2>5. CASE pc' = [pc EXCEPT ![c] = "armed"]
    BY <2>1, <2>3, <2>5
  <2> QED BY <2>2, <2>4, <2>5
<1>4. ASSUME NEW c \in Callers, SendOk(c) PROVE HandedInv'
  BY <1>4 DEF SendOk
<1>5. ASSUME NEW c \in Callers, SendRefused(c) PROVE HandedInv'
  BY <1>5 DEF SendRefused
<1>6. ASSUME NEW c \in Callers, Cancel(c) PROVE HandedInv'
  <2>1. UNCHANGED <<got, settling, now, log>> /\ pc[c] = "refused"
        /\ pc' = [pc EXCEPT ![c] = "failing"]
    BY <1>6 DEF Cancel
  <2>2. CASE c \in watches[to[c]]
    <3>1. chan' = [chan EXCEPT ![c] = "lost"]
      BY <1>6, <2>2 DEF Cancel
    <3>2. to[c] \in Sessions
      BY <2>1 DEF AddressInv
    <3>3. \A t \in Sessions : c \notin settling[t]
      BY <2>2, <3>2 DEF ArmedInv, SettlingInv
    <3> QED BY <2>1, <3>1, <3>3
  <2>3. CASE c \notin watches[to[c]]
    <3>1. chan' = chan
      BY <1>6, <2>3 DEF Cancel
    <3>2. \A t \in Sessions : c \in settling[t] => chan[c] = now[t].how
      BY <2>1 DEF SettlingInv, Live
    <3> QED BY <2>1, <3>1, <3>2
  <2> QED BY <2>2, <2>3
<1>7. ASSUME NEW c \in Callers, Fail(c) PROVE HandedInv'
  <2>1. UNCHANGED <<got, chan, settling, now>> /\ pc[c] = "failing"
        /\ pc' = [pc EXCEPT ![c] = "rejected"]
    BY <1>7 DEF Fail
  <2>2. \A d \in Callers : log[d] # "none" => log'[d] # "none"
    BY <1>7 DEF Fail, SettleLog, StateOf
  <2> QED BY <2>1, <2>2
<1>8. ASSUME NEW c \in Callers, WaitEnded(c) PROVE HandedInv'
  <2>1. /\ pc[c] = "waiting" /\ pc' = [pc EXCEPT ![c] = "returned"]
        /\ got' = [got EXCEPT ![c] = chan[c]] /\ chan' = [chan EXCEPT ![c] = "taken"]
        /\ UNCHANGED <<settling, now, log>>
    BY <1>8 DEF WaitEnded
  <2> QED BY <2>1
<1>9. ASSUME NEW c \in Callers, GiveUp(c) PROVE HandedInv'
  BY <1>9 DEF GiveUp
<1>10. ASSUME NEW s \in Sessions, UserTurn(s) PROVE HandedInv'
  BY <1>10 DEF UserTurn
<1>11. ASSUME NEW s \in Sessions, TurnStarted(s) PROVE HandedInv'
  BY <1>11 DEF TurnStarted
<1>12. ASSUME NEW s \in Sessions, TurnLine(s) PROVE HandedInv'
  BY <1>12 DEF TurnLine
<1>13. ASSUME NEW s \in Sessions, FailureLine(s) PROVE HandedInv'
  BY <1>13 DEF FailureLine
<1>14. ASSUME NEW s \in Sessions, Record(s) PROVE HandedInv'
  <2>1. UNCHANGED <<pc, got, chan, log, settling>> /\ now[s] = None
        /\ \A t \in Sessions : t # s => now'[t] = now[t]
    BY <1>14 DEF Record
  <2>2. settling[s] = {}
    BY <2>1 DEF BusyInv, Ending
  <2>3. \A t \in Sessions : \A d \in settling[t] : now'[t] = now[t]
    BY <2>1, <2>2
  <2> QED BY <2>1, <2>3
<1>15. ASSUME NEW s \in Sessions, Observe(s) PROVE HandedInv'
  <2>1. UNCHANGED <<pc, got, chan, log, settling>> /\ settling[s] = {}
    BY <1>15 DEF Observe, TakeWatches
  <2>2. \A t \in Sessions : t # s => now'[t] = now[t]
    BY <1>15 DEF Observe, TakeWatches
  <2>3. \A t \in Sessions : \A d \in settling[t] : now'[t] = now[t]
    BY <2>1, <2>2
  <2> QED BY <2>1, <2>3
<1>16. ASSUME NEW s \in Sessions, NEW c \in Callers, Send(s, c) PROVE HandedInv'
  <2>1. /\ c \in sending[s] /\ to[c] = s
        /\ settling' = [settling EXCEPT ![s] = settling[s] \cup {c}]
        /\ chan' = [chan EXCEPT ![c] = now[s].how]
        /\ UNCHANGED <<now, pc, got, log>>
    BY <1>16 DEF Send, SendingInv
  <2>2. pc[c] # "returned"
    BY <2>1 DEF SendingInv, Live
  <2>3. \A t \in Sessions : c \in settling'[t] => t = s
    BY <2>1 DEF SettlingInv
  <2>4. \A t \in Sessions, d \in Callers \ {c} : d \in settling'[t] => d \in settling[t]
    BY <2>1
  <2> QED BY <2>1, <2>2, <2>3, <2>4
<1>17. ASSUME NEW s \in Sessions, NEW c \in Callers, Settle(s, c) PROVE HandedInv'
  <2>1. UNCHANGED <<pc, got, chan>> /\ c \in settling[s]
        /\ settling' = [settling EXCEPT ![s] = settling[s] \ {c}]
    BY <1>17 DEF Settle
  <2>2. \A t \in Sessions : \A d \in settling'[t] : d \in settling[t] /\ now'[t] = now[t]
    BY <1>17 DEF Settle
  <2>3. \A d \in Callers : log[d] # "none" => log'[d] # "none"
    BY <1>17 DEF Settle, SettleLog, StateOf
  <2> QED BY <2>1, <2>2, <2>3
<1>18. ASSUME NEW s \in Sessions, End(s) PROVE HandedInv'
  BY <1>18 DEF End
<1>19. ASSUME NEW s \in Sessions, Exit(s) PROVE HandedInv'
  <2>0. now[s] = None
    BY <1>19 DEF Exit, AtRest
  <2>1. UNCHANGED <<pc, got, chan, log, settling>> /\ settling[s] = {}
    BY <1>19, <2>0 DEF Exit, TakeWatches, BusyInv, Ending
  <2>2. \A t \in Sessions : t # s => now'[t] = now[t]
    BY <1>19 DEF Exit, TakeWatches
  <2>3. \A t \in Sessions : \A d \in settling[t] : now'[t] = now[t]
    BY <2>1, <2>2
  <2> QED BY <2>1, <2>3
<1>20. CASE UNCHANGED vars
  BY <1>20 DEF vars
<1> HIDE DEF TypeOK, Outcomes, Settled, regVars, logVars, procVars,
         sinkVars, callVars, HandedInv
<1> QED
  BY <1>1, <1>2, <1>3, <1>4, <1>5, <1>6, <1>7, <1>8, <1>9, <1>10,
     <1>11, <1>12, <1>13, <1>14, <1>15, <1>16, <1>17, <1>18, <1>19, <1>20
     DEF Next, CallerStep, SinkStep, SessionStep

LEMMA HeadOf ==
  ASSUME NEW S, NEW q \in Seq(S), q # <<>> PROVE Head(q) \in S
OBVIOUS

LEMMA InitHanded == Init => HandedInv
BY TurnsAssumption DEF Init, HandedInv

(* Both invariants hold for ever.                                          *)
LEMMA Handed == Spec => [](IInv /\ HandedInv)
<1>1. HandedInv /\ []IInv /\ [][Next]_vars => []HandedInv
  BY HandedStep, PTL
<1> QED BY <1>1, InitHanded, Invariant, PTL DEF Spec

-----------------------------------------------------------------------------
(* How the mapping moves with the variables it is read off.                *)
LEMMA SameStage ==
  ASSUME NEW c, pc'[c] = pc[c] PROVE CallStage(c)' = CallStage(c)
BY DEF CallStage

Held(c) == \E s \in Sessions : c \in sending[s] \cup settling[s]

LEMMA SameEnding ==
  ASSUME NEW c, to'[c] = to[c], chan'[c] = chan[c], got'[c] = got[c],
         Held(c)' <=> Held(c), Held(c) => now'[to[c]] = now[to[c]]
  PROVE  EndingOf(c)' = EndingOf(c)
BY DEF EndingOf, Held

(* An ending that is nobody's step leaves the promise as it was.           *)
LEMMA Quiet ==
  ASSUME \A c \in Callers : CallStage(c)' = CallStage(c) /\ EndingOf(c)' = EndingOf(c),
         got' = got, log' = log
  PROVE  UNCHANGED Promise!vars
<1>1. Stages' = Stages
  BY DEF Stages
<1>2. Endings' = Endings
  BY DEF Endings
<1> QED BY <1>1, <1>2 DEF Promise!vars

LEMMA Moves ==
  ASSUME NEW c \in Callers, NEW from, NEW next, CallStage(c) = from, CallStage(c)' = next,
         \A d \in Callers \ {c} : CallStage(d)' = CallStage(d)
  PROVE  Promise!Move(c, from, next)
<1>1. Stages[c] = from
  BY DEF Stages
<1>2. Stages' = [Stages EXCEPT ![c] = next]
  BY DEF Stages
<1> QED BY <1>1, <1>2 DEF Promise!Move

LEMMA EndingsStay ==
  ASSUME \A c \in Callers : EndingOf(c)' = EndingOf(c) PROVE Endings' = Endings
BY DEF Endings

LEMMA StagesStay ==
  ASSUME \A c \in Callers : CallStage(c)' = CallStage(c) PROVE Stages' = Stages
BY DEF Stages

(* Log::settle is Exchange's Write.                                        *)
LEMMA Writes ==
  ASSUME NEW c \in Callers, NEW how, NEW state, TypeOK, SettleLog(c, how), log[c] # "none",
         state = StateOf(how)
  PROVE  Promise!Write(c, state)
BY DEF SettleLog, Promise!Write

-----------------------------------------------------------------------------
(* Who the reader holds has an ending to come, or to have.                 *)
LEMMA HeldEnding ==
  ASSUME IInv, NEW c \in Callers, Held(c)
  PROVE  to[c] \in Sessions /\ now[to[c]] \in Ending /\ EndingOf(c) = now[to[c]].how
         /\ c \in sending[to[c]] \cup settling[to[c]]
<1>1. PICK s \in Sessions : c \in sending[s] \cup settling[s]
  BY DEF Held
<1>2. to[c] = s
  BY <1>1 DEF IInv, SendingInv, SettlingInv
<1>3. now[s] \in Ending
  BY <1>1 DEF IInv, BusyInv
<1>4. EndingOf(c) = now[to[c]].how
  BY DEF EndingOf, Held
<1> QED BY <1>1, <1>2, <1>3, <1>4

(* A step that touches neither the reader nor the channels.                *)
LEMMA EndingsSame ==
  ASSUME UNCHANGED <<to, chan, got, sending, settling, now>>
  PROVE  \A c \in Callers : EndingOf(c)' = EndingOf(c)
BY DEF EndingOf

(* The watches of s are taken by an ending.                                *)
LEMMA Decides ==
  ASSUME IInv, HandedInv, NEW s \in Sessions, NEW end \in Ending, TakeWatches(s, end),
         sending[s] = {}, settling[s] = {},
         UNCHANGED <<pc, to, chan, got, log>>
  PROVE  [Promise!Next]_Promise!vars
<1> USE TurnsAssumption
<1>1. /\ sending' = [sending EXCEPT ![s] = watches[s]]
      /\ now' = [now EXCEPT ![s] = IF watches[s] = {} THEN None ELSE end]
      /\ settling' = settling
  BY DEF TakeWatches
<1>2. watches[s] \subseteq Callers /\ sending \in [Sessions -> SUBSET Callers]
      /\ settling \in [Sessions -> SUBSET Callers] /\ now \in [Sessions -> Ending \cup {None}]
  BY DEF IInv, TypeOK
<1>3. \A c \in watches[s] : /\ to[c] = s /\ pc[c] \in Live /\ chan[c] = "empty"
                            /\ ~Held(c) /\ got[c] = None
  <2>1. TAKE c \in watches[s]
  <2>2. to[c] = s /\ pc[c] \in Live /\ chan[c] = "empty" /\ c \notin sending[s] \cup settling[s]
    BY DEF IInv, ArmedInv
  <2>3. \A t \in Sessions : c \notin sending[t] \cup settling[t]
    BY <2>2 DEF IInv, SendingInv, SettlingInv
  <2>4. got[c] = None
    BY <1>2, <2>2 DEF HandedInv, Live
  <2> QED BY <2>2, <2>3, <2>4 DEF Held
<1>4. \A c \in Callers : CallStage(c)' = CallStage(c)
  BY SameStage
<1>5. \A c \in watches[s] : EndingOf(c) = None /\ EndingOf(c)' = end.how
  <2>1. TAKE c \in watches[s]
  <2>2. EndingOf(c) = None
    BY <1>3 DEF EndingOf, Held, Outcomes
  <2>3. c \in sending'[s] /\ now'[s] = end /\ to'[c] = s
    BY <1>1, <1>2, <1>3
  <2>4. EndingOf(c)' = now'[to'[c]].how
    BY <2>3 DEF EndingOf
  <2> QED BY <2>2, <2>3, <2>4
<1>6. \A c \in Callers \ watches[s] : EndingOf(c)' = EndingOf(c)
  <2>1. TAKE c \in Callers \ watches[s]
  <2>2. Held(c)' <=> Held(c)
    BY <1>1, <1>2 DEF Held
  <2>3. Held(c) => now'[to[c]] = now[to[c]]
    <3>1. SUFFICES ASSUME Held(c) PROVE now'[to[c]] = now[to[c]]
      OBVIOUS
    <3>2. to[c] \in Sessions /\ c \in sending[to[c]] \cup settling[to[c]]
      BY <3>1, HeldEnding
    <3>3. to[c] # s
      BY <3>2
    <3> QED BY <1>1, <1>2, <3>2, <3>3
  <2> QED BY <2>2, <2>3, SameEnding
<1>7. CASE watches[s] = {}
  BY <1>4, <1>6, <1>7, Quiet
<1>8. CASE watches[s] # {}
  <2>1. \A c \in watches[s] : Stages[c] \in {"open", "left"} /\ Endings[c] = None
    <3>1. TAKE c \in watches[s]
    <3>2. c \in Callers /\ pc[c] \in Live /\ EndingOf(c) = None
      BY <1>2, <1>3, <1>5
    <3>3. CallStage(c) \in {"open", "left"}
      BY <3>2 DEF CallStage, Live
    <3> QED BY <3>2, <3>3 DEF Stages, Endings
  <2>2. Endings' = [c \in Callers |-> IF c \in watches[s] THEN end.how ELSE Endings[c]]
    BY <1>5, <1>6 DEF Endings
  <2>3. Stages' = Stages
    BY <1>4, StagesStay
  <2>4. Promise!Decide(watches[s], end.how)
    BY <2>1, <2>2, <2>3 DEF Promise!Decide
  <2>5. end.how \in Outcomes /\ watches[s] \in SUBSET Callers
    BY <1>2 DEF Ending
  <2> QED BY <2>4, <2>5 DEF Promise!Next, Promise!Outcomes, Outcomes
<1> QED BY <1>7, <1>8

-----------------------------------------------------------------------------
(* Every step is a step of the promise, or none.                           *)
LEMMA PromiseStep == IInv /\ HandedInv /\ [Next]_vars => [Promise!Next]_Promise!vars
<1> USE TurnsAssumption DEF regVars, logVars, procVars, sinkVars, callVars
<1> DEFINE Goal == [Promise!Next]_Promise!vars
<1> SUFFICES ASSUME IInv, HandedInv, [Next]_vars PROVE Goal
  OBVIOUS
<1>t. TypeOK
  BY DEF IInv
<1>q. ASSUME \A c \in Callers : CallStage(c)' = CallStage(c) /\ EndingOf(c)' = EndingOf(c),
             got' = got, log' = log
      PROVE  Goal
  BY <1>q, Quiet
<1>p. pc \in [Callers -> {"new", "admitted", "begun", "armed", "refused", "failing",
                           "waiting", "rejected", "gaveup", "returned"}]
  BY <1>t DEF TypeOK
<1> HIDE DEF Goal
<1>1. ASSUME NEW c \in Callers, NEW s \in Sessions, Admit(c, s) PROVE Goal
  <2>1. pc[c] = "new" /\ pc' = [pc EXCEPT ![c] = "admitted"] /\ to' = [to EXCEPT ![c] = s]
        /\ UNCHANGED <<got, chan, sending, settling, now, log>>
    BY <1>1 DEF Admit
  <2>2. \A d \in Callers : CallStage(d)' = CallStage(d)
    BY <2>1, <1>p DEF CallStage
  <2>3. \A d \in Callers : EndingOf(d)' = EndingOf(d)
    <3>1. TAKE d \in Callers
    <3>2. Held(d)' <=> Held(d)
      BY <2>1 DEF Held
    <3>3. CASE d = c
      <4>1. ~Held(c)
        BY <2>1 DEF IInv, SendingInv, SettlingInv, Held, Live
      <4> QED BY <2>1, <3>2, <3>3, <4>1 DEF EndingOf, Held
    <3>4. CASE d # c
      <4>1. to'[d] = to[d]
        BY <2>1, <3>4, <1>t DEF TypeOK
      <4> QED BY <2>1, <3>2, <4>1, SameEnding
    <3> QED BY <3>3, <3>4
  <2> QED BY <2>1, <2>2, <2>3, <1>q
<1>2. ASSUME NEW c \in Callers, Begin(c) PROVE Goal
  <2>1. pc[c] = "admitted" /\ pc' = [pc EXCEPT ![c] = "begun"]
        /\ UNCHANGED <<to, got, chan, sending, settling, now>>
    BY <1>2 DEF Begin
  <2>2. CallStage(c) = "idle" /\ CallStage(c)' = "open"
    BY <2>1, <1>p DEF CallStage
  <2>3. \A d \in Callers \ {c} : CallStage(d)' = CallStage(d)
    BY <2>1, <1>p, SameStage
  <2>4. Endings' = Endings
    BY <2>1, EndingsSame, EndingsStay
  <2>5. \E gone \in SUBSET (Callers \ {c}) :
           log' = [d \in Callers |-> IF d = c THEN "in_flight"
                                     ELSE IF d \in gone THEN "dropped" ELSE log[d]]
    <3>1. log \in [Callers -> Settled \cup {"none", "in_flight", "dropped"}] /\ ring \in Seq(Callers)
      BY <1>t DEF TypeOK
    <3>2. CASE Len(ring) < MaxExchanges
      <4>1. log' = [log EXCEPT ![c] = "in_flight"]
        BY <1>2, <3>2 DEF Begin
      <4>2. log' = [d \in Callers |-> IF d = c THEN "in_flight"
                                      ELSE IF d \in {} THEN "dropped" ELSE log[d]]
        BY <3>1, <4>1
      <4>3. {} \in SUBSET (Callers \ {c})
        OBVIOUS
      <4> QED BY <4>2, <4>3
    <3>3. CASE ~(Len(ring) < MaxExchanges)
      <4>1. Head(ring) \in Callers
        <5>1. ring # <<>>
          BY <3>3, TurnsAssumption
        <5> QED BY <3>1, <5>1, HeadOf
      <4>2. log' = [log EXCEPT ![Head(ring)] = "dropped", ![c] = "in_flight"]
        BY <1>2, <3>3 DEF Begin
      <4>3. log' = [d \in Callers |-> IF d = c THEN "in_flight"
                                      ELSE IF d \in {Head(ring)} \ {c} THEN "dropped" ELSE log[d]]
        BY <3>1, <4>1, <4>2
      <4>4. {Head(ring)} \ {c} \in SUBSET (Callers \ {c})
        BY <4>1
      <4> QED BY <4>3, <4>4
    <3> QED BY <3>2, <3>3
  <2>6. Promise!Move(c, "idle", "open")
    BY <2>2, <2>3, Moves
  <2>7. Promise!Begin(c)
    BY <2>1, <2>4, <2>5, <2>6 DEF Promise!Begin
  <2> QED BY <2>7 DEF Promise!Next, Goal
<1>3. ASSUME NEW c \in Callers, Watch(c) PROVE Goal
  <2>1. pc[c] = "begun" /\ UNCHANGED <<to, got, chan, sending, settling, now, log>>
    BY <1>3 DEF Watch
  <2>2. pc' = [pc EXCEPT ![c] = "failing"] \/ pc' = [pc EXCEPT ![c] = "armed"]
    BY <1>3 DEF Watch
  <2>3. \A d \in Callers : CallStage(d)' = CallStage(d)
    BY <2>1, <2>2, <1>p DEF CallStage
  <2>4. \A d \in Callers : EndingOf(d)' = EndingOf(d)
    BY <2>1, EndingsSame
  <2> QED BY <2>1, <2>3, <2>4, <1>q
<1>4. ASSUME NEW c \in Callers, SendOk(c) PROVE Goal
  <2>1. pc[c] = "armed" /\ pc' = [pc EXCEPT ![c] = "waiting"]
        /\ UNCHANGED <<to, got, chan, sending, settling, now, log>>
    BY <1>4 DEF SendOk
  <2>2. \A d \in Callers : CallStage(d)' = CallStage(d)
    BY <2>1, <1>p DEF CallStage
  <2>3. \A d \in Callers : EndingOf(d)' = EndingOf(d)
    BY <2>1, EndingsSame
  <2> QED BY <2>1, <2>2, <2>3, <1>q
<1>5. ASSUME NEW c \in Callers, SendRefused(c) PROVE Goal
  <2>1. pc[c] = "armed" /\ pc' = [pc EXCEPT ![c] = "refused"]
        /\ UNCHANGED <<to, got, chan, sending, settling, now, log>>
    BY <1>5 DEF SendRefused
  <2>2. \A d \in Callers : CallStage(d)' = CallStage(d)
    BY <2>1, <1>p DEF CallStage
  <2>3. \A d \in Callers : EndingOf(d)' = EndingOf(d)
    BY <2>1, EndingsSame
  <2> QED BY <2>1, <2>2, <2>3, <1>q
<1>6. ASSUME NEW c \in Callers, Cancel(c) PROVE Goal
  <2>1. pc[c] = "refused" /\ pc' = [pc EXCEPT ![c] = "failing"]
        /\ UNCHANGED <<to, got, sending, settling, now, log>>
    BY <1>6 DEF Cancel
  <2>2. \A d \in Callers : CallStage(d)' = CallStage(d)
    BY <2>1, <1>p DEF CallStage
  <2>3. CASE c \notin watches[to[c]]
    <3>1. chan' = chan
      BY <1>6, <2>3 DEF Cancel
    <3>2. \A d \in Callers : EndingOf(d)' = EndingOf(d)
      BY <2>1, <3>1, EndingsSame
    <3> QED BY <2>1, <2>2, <3>2, <1>q
  <2>4. CASE c \in watches[to[c]]
    <3>1. chan' = [chan EXCEPT ![c] = "lost"]
      BY <1>6, <2>4 DEF Cancel
    <3>2. to[c] \in Sessions
      BY <2>1 DEF IInv, AddressInv
    <3>3. chan[c] = "empty"
      BY <2>4, <3>2 DEF IInv, ArmedInv
    <3>4. \A d \in Callers : EndingOf(d)' = EndingOf(d)
      <4>1. TAKE d \in Callers
      <4>2. (chan'[d] \notin Outcomes /\ chan[d] \notin Outcomes) \/ chan'[d] = chan[d]
        BY <3>1, <3>3, <1>t DEF TypeOK, Outcomes
      <4> QED BY <2>1, <4>2 DEF EndingOf
    <3> QED BY <2>1, <2>2, <3>4, <1>q
  <2> QED BY <2>3, <2>4
<1>7. ASSUME NEW c \in Callers, Fail(c) PROVE Goal
  <2>1. pc[c] = "failing" /\ pc' = [pc EXCEPT ![c] = "rejected"] /\ SettleLog(c, "failed")
        /\ UNCHANGED <<to, got, chan, sending, settling, now>>
    BY <1>7 DEF Fail
  <2>2. CallStage(c) = "open" /\ CallStage(c)' = "refused"
    BY <2>1, <1>p DEF CallStage
  <2>3. \A d \in Callers \ {c} : CallStage(d)' = CallStage(d)
    BY <2>1, <1>p, SameStage
  <2>4. Endings' = Endings
    BY <2>1, EndingsSame, EndingsStay
  <2>5. log[c] # "none"
    BY <2>1 DEF HandedInv
  <2>6. Promise!Write(c, "failed")
    BY <2>1, <2>5, <1>t, Writes DEF StateOf
  <2>7. Promise!Move(c, "open", "refused")
    BY <2>2, <2>3, Moves
  <2>8. Promise!Refuse(c)
    BY <2>1, <2>4, <2>6, <2>7 DEF Promise!Refuse
  <2> QED BY <2>8 DEF Promise!Next, Goal
<1>8. ASSUME NEW c \in Callers, WaitEnded(c) PROVE Goal
  <2>1. /\ pc[c] = "waiting" /\ pc' = [pc EXCEPT ![c] = "returned"]
        /\ got' = [got EXCEPT ![c] = chan[c]] /\ chan' = [chan EXCEPT ![c] = "taken"]
        /\ chan[c] \in Outcomes
        /\ UNCHANGED <<to, sending, settling, now, log>>
    BY <1>8 DEF WaitEnded
  <2>2. CallStage(c) = "open" /\ CallStage(c)' = "told"
    BY <2>1, <1>p DEF CallStage
  <2>3. \A d \in Callers \ {c} : CallStage(d)' = CallStage(d)
    BY <2>1, <1>p, SameStage
  <2>4. EndingOf(c) = chan[c]
    <3>1. CASE Held(c)
      <4>1. to[c] \in Sessions /\ c \in sending[to[c]] \cup settling[to[c]]
            /\ EndingOf(c) = now[to[c]].how
        BY <3>1, HeldEnding
      <4>2. c \notin sending[to[c]]
        BY <2>1, <4>1 DEF IInv, SendingInv, Outcomes
      <4>3. chan[c] = now[to[c]].how
        BY <2>1, <4>1, <4>2 DEF IInv, SettlingInv, Live
      <4> QED BY <4>1, <4>3
    <3>2. CASE ~Held(c)
      BY <2>1, <3>2 DEF EndingOf, Held
    <3> QED BY <3>1, <3>2
  <2>5. EndingOf(c)' = chan[c]
    <3>1. CASE Held(c)
      BY <2>1, <2>4, <3>1 DEF EndingOf, Held
    <3>2. CASE ~Held(c)
      <4>1. got'[c] = chan[c] /\ chan'[c] = "taken"
        BY <2>1, <1>t DEF TypeOK
      <4> QED BY <2>1, <3>2, <4>1 DEF EndingOf, Held, Outcomes
    <3> QED BY <3>1, <3>2
  <2>6. \A d \in Callers \ {c} : EndingOf(d)' = EndingOf(d)
    BY <2>1, <1>t DEF EndingOf, TypeOK
  <2>7. Endings' = Endings
    BY <2>4, <2>5, <2>6, EndingsStay
  <2>8. Endings[c] = chan[c] /\ chan[c] # None
    BY <2>1, <2>4 DEF Endings
  <2>9. Promise!Move(c, "open", "told")
    BY <2>2, <2>3, Moves
  <2>10. Promise!Tell(c)
    BY <2>1, <2>7, <2>8, <2>9 DEF Promise!Tell
  <2> QED BY <2>10 DEF Promise!Next, Goal
<1>9. ASSUME NEW c \in Callers, GiveUp(c) PROVE Goal
  <2>1. pc[c] = "waiting" /\ pc' = [pc EXCEPT ![c] = "gaveup"]
        /\ UNCHANGED <<to, got, chan, sending, settling, now, log>>
    BY <1>9 DEF GiveUp
  <2>2. CallStage(c) = "open" /\ CallStage(c)' = "left"
    BY <2>1, <1>p DEF CallStage
  <2>3. \A d \in Callers \ {c} : CallStage(d)' = CallStage(d)
    BY <2>1, <1>p, SameStage
  <2>4. Endings' = Endings
    BY <2>1, EndingsSame, EndingsStay
  <2>5. Promise!Move(c, "open", "left")
    BY <2>2, <2>3, Moves
  <2>6. Promise!Leave(c)
    BY <2>1, <2>4, <2>5 DEF Promise!Leave
  <2> QED BY <2>6 DEF Promise!Next, Goal
<1>10. ASSUME NEW s \in Sessions, UserTurn(s) PROVE Goal
  <2>1. UNCHANGED <<pc, to, got, chan, sending, settling, now, log>>
    BY <1>10 DEF UserTurn
  <2>2. \A d \in Callers : CallStage(d)' = CallStage(d)
    BY <2>1, SameStage
  <2>3. \A d \in Callers : EndingOf(d)' = EndingOf(d)
    BY <2>1, EndingsSame
  <2> QED BY <2>1, <2>2, <2>3, <1>q
<1>11. ASSUME NEW s \in Sessions, TurnStarted(s) PROVE Goal
  <2>1. UNCHANGED <<pc, to, got, chan, sending, settling, now, log>>
    BY <1>11 DEF TurnStarted
  <2>2. \A d \in Callers : CallStage(d)' = CallStage(d)
    BY <2>1, SameStage
  <2>3. \A d \in Callers : EndingOf(d)' = EndingOf(d)
    BY <2>1, EndingsSame
  <2> QED BY <2>1, <2>2, <2>3, <1>q
<1>12. ASSUME NEW s \in Sessions, TurnLine(s) PROVE Goal
  <2>1. UNCHANGED <<pc, to, got, chan, sending, settling, now, log>>
    BY <1>12 DEF TurnLine
  <2>2. \A d \in Callers : CallStage(d)' = CallStage(d)
    BY <2>1, SameStage
  <2>3. \A d \in Callers : EndingOf(d)' = EndingOf(d)
    BY <2>1, EndingsSame
  <2> QED BY <2>1, <2>2, <2>3, <1>q
<1>13. ASSUME NEW s \in Sessions, FailureLine(s) PROVE Goal
  <2>1. UNCHANGED <<pc, to, got, chan, sending, settling, now, log>>
    BY <1>13 DEF FailureLine
  <2>2. \A d \in Callers : CallStage(d)' = CallStage(d)
    BY <2>1, SameStage
  <2>3. \A d \in Callers : EndingOf(d)' = EndingOf(d)
    BY <2>1, EndingsSame
  <2> QED BY <2>1, <2>2, <2>3, <1>q
<1>14. ASSUME NEW s \in Sessions, Record(s) PROVE Goal
  <2>1. UNCHANGED <<pc, to, got, chan, log, sending, settling>> /\ now[s] = None
        /\ \A t \in Sessions : t # s => now'[t] = now[t]
    BY <1>14, <1>t DEF Record, TypeOK
  <2>2. sending[s] = {} /\ settling[s] = {}
    BY <2>1 DEF IInv, BusyInv, Ending
  <2>3. \A d \in Callers : CallStage(d)' = CallStage(d)
    BY <2>1, SameStage
  <2>4. \A d \in Callers : EndingOf(d)' = EndingOf(d)
    <3>1. TAKE d \in Callers
    <3>2. Held(d) => to[d] \in Sessions \ {s}
      BY <2>2, HeldEnding
    <3>3. Held(d)' <=> Held(d)
      BY <2>1 DEF Held
    <3> QED BY <2>1, <3>2, <3>3, SameEnding
  <2> QED BY <2>1, <2>3, <2>4, <1>q
<1>15. ASSUME NEW s \in Sessions, Observe(s) PROVE Goal
  <2>1. /\ sending[s] = {} /\ settling[s] = {} /\ TakeWatches(s, now[s])
        /\ UNCHANGED <<pc, to, chan, got, log>>
    BY <1>15 DEF Observe
  <2>2. now[s] \in Ending
    BY <1>15, <1>t DEF Observe, TypeOK
  <2> QED BY <2>1, <2>2, Decides DEF Goal
<1>16. ASSUME NEW s \in Sessions, NEW c \in Callers, Send(s, c) PROVE Goal
  <2>1. /\ c \in sending[s]
        /\ sending' = [sending EXCEPT ![s] = sending[s] \ {c}]
        /\ settling' = [settling EXCEPT ![s] = settling[s] \cup {c}]
        /\ chan' = [chan EXCEPT ![c] = now[s].how]
        /\ UNCHANGED <<pc, to, got, now, log>>
    BY <1>16 DEF Send
  <2>2. \A d \in Callers : CallStage(d)' = CallStage(d)
    BY <2>1, SameStage
  <2>3. \A d \in Callers : Held(d)' <=> Held(d)
    BY <2>1, <1>t DEF Held, TypeOK
  <2>4. \A d \in Callers : EndingOf(d)' = EndingOf(d)
    <3>1. TAKE d \in Callers
    <3>2. CASE d = c
      <4>1. Held(c)
        BY <2>1 DEF Held
      <4> QED BY <2>1, <2>3, <3>2, <4>1 DEF EndingOf, Held
    <3>3. CASE d # c
      <4>1. chan'[d] = chan[d]
        BY <2>1, <3>3, <1>t DEF TypeOK
      <4> QED BY <2>1, <2>3, <4>1, SameEnding
    <3> QED BY <3>2, <3>3
  <2> QED BY <2>1, <2>2, <2>4, <1>q
<1>17. ASSUME NEW s \in Sessions, NEW c \in Callers, Settle(s, c) PROVE Goal
  <2>1. /\ c \in settling[s] /\ SettleLog(c, now[s].how) /\ sending[s] = {}
        /\ settling' = [settling EXCEPT ![s] = settling[s] \ {c}]
        /\ now' = [now EXCEPT ![s] = IF settling[s] = {c} THEN None ELSE now[s]]
        /\ UNCHANGED <<pc, to, got, chan, sending>>
    BY <1>17 DEF Settle
  <2>2. /\ to[c] = s /\ now[s] \in Ending /\ Held(c)
        /\ pc[c] \in Live \cup {"failing", "rejected", "returned"}
        /\ pc[c] # "rejected" => log[c] \in Unsettled
    BY <2>1 DEF IInv, SettlingInv, BusyInv, Held
  <2>3. \A d \in Callers : CallStage(d)' = CallStage(d)
    BY <2>1, SameStage
  <2>4. EndingOf(c) = now[s].how
    BY <2>2, HeldEnding
  <2>5. EndingOf(c)' = now[s].how
    <3>1. ~Held(c)'
      <4>1. \A t \in Sessions : c \in sending[t] \cup settling[t] => t = s
        BY <2>2 DEF IInv, SendingInv, SettlingInv
      <4> QED BY <2>1, <4>1, <1>t DEF Held, TypeOK
    <3>2. now[s].how \in Outcomes
      BY <2>2 DEF Ending
    <3>3. CASE pc[c] = "returned"
      <4>1. chan[c] = "taken" /\ got[c] = now[s].how
        BY <2>1, <3>3 DEF HandedInv, IInv, SettlingInv
      <4> QED BY <2>1, <3>1, <4>1 DEF EndingOf, Held, Outcomes
    <3>4. CASE pc[c] # "returned"
      <4>1. chan[c] = now[s].how
        BY <2>1, <2>2, <3>4 DEF HandedInv, IInv, SettlingInv
      <4> QED BY <2>1, <3>1, <3>2, <4>1 DEF EndingOf, Held
    <3> QED BY <3>3, <3>4
  <2>6. \A d \in Callers \ {c} : EndingOf(d)' = EndingOf(d)
    <3>1. TAKE d \in Callers \ {c}
    <3>2. Held(d)' <=> Held(d)
      BY <2>1, <1>t DEF Held, TypeOK
    <3>3. Held(d) => now'[to[d]] = now[to[d]]
      <4>1. SUFFICES ASSUME Held(d) PROVE now'[to[d]] = now[to[d]]
        OBVIOUS
      <4>2. to[d] \in Sessions /\ d \in sending[to[d]] \cup settling[to[d]]
        BY <4>1, HeldEnding
      <4>3. to[d] = s => settling[s] # {c}
        BY <2>1, <4>2
      <4>4. now'[to[d]] = IF to[d] = s /\ settling[s] = {c} THEN None ELSE now[to[d]]
        BY <2>1, <4>2, <1>t DEF TypeOK
      <4> QED BY <4>3, <4>4
    <3> QED BY <2>1, <3>2, <3>3, SameEnding
  <2>7. Endings' = Endings
    BY <2>4, <2>5, <2>6, EndingsStay
  <2>8. Stages' = Stages
    BY <2>3, StagesStay
  <2>9. Endings[c] = now[s].how /\ now[s].how # None
    BY <2>2, <2>4 DEF Endings, Ending
  <2>10. Stages[c] # "idle" /\ (Stages[c] # "refused" => log[c] \in {"in_flight", "dropped"})
    BY <2>2 DEF Stages, CallStage, Live, Unsettled
  <2>11. log[c] # "none"
    BY <2>2 DEF HandedInv, Live
  <2>12. Promise!Write(c, Promise!Shown(Endings[c]))
    <3>1. Promise!Shown(Endings[c]) = StateOf(now[s].how)
      BY <2>9 DEF StateOf, Promise!Shown
    <3> QED BY <2>1, <2>11, <3>1, <1>t, Writes
  <2>13. Promise!Log(c)
    BY <2>1, <2>7, <2>8, <2>9, <2>10, <2>12 DEF Promise!Log
  <2> QED BY <2>13 DEF Promise!Next, Goal
<1>18. ASSUME NEW s \in Sessions, End(s) PROVE Goal
  <2>1. UNCHANGED <<pc, to, got, chan, sending, settling, now, log>>
    BY <1>18 DEF End
  <2>2. \A d \in Callers : CallStage(d)' = CallStage(d)
    BY <2>1, SameStage
  <2>3. \A d \in Callers : EndingOf(d)' = EndingOf(d)
    BY <2>1, EndingsSame
  <2> QED BY <2>1, <2>2, <2>3, <1>q
<1>19. ASSUME NEW s \in Sessions, Exit(s) PROVE Goal
  <2>1. TakeWatches(s, [how |-> "gone", owed |-> turn[s]]) /\ now[s] = None
        /\ UNCHANGED <<pc, to, chan, got, log>>
    BY <1>19 DEF Exit, AtRest
  <2>2. sending[s] = {} /\ settling[s] = {}
    BY <2>1 DEF IInv, BusyInv, Ending
  <2>3. [how |-> "gone", owed |-> turn[s]] \in Ending
    BY <1>t DEF TypeOK, Ending, Outcomes
  <2> QED BY <2>1, <2>2, <2>3, Decides DEF Goal
<1>20. CASE UNCHANGED vars
  <2>1. UNCHANGED <<pc, to, got, chan, sending, settling, now, log>>
    BY <1>20 DEF vars
  <2>2. \A d \in Callers : CallStage(d)' = CallStage(d)
    BY <2>1, SameStage
  <2>3. \A d \in Callers : EndingOf(d)' = EndingOf(d)
    BY <2>1, EndingsSame
  <2> QED BY <2>1, <2>2, <2>3, <1>q
<1> QED
  BY <1>1, <1>2, <1>3, <1>4, <1>5, <1>6, <1>7, <1>8, <1>9, <1>10,
     <1>11, <1>12, <1>13, <1>14, <1>15, <1>16, <1>17, <1>18, <1>19, <1>20
     DEF Next, CallerStep, SinkStep, SessionStep

(* At first nothing has been promised.                                     *)
LEMMA PromiseInit == Init => Promise!Init
<1> SUFFICES ASSUME Init PROVE Promise!Init
  OBVIOUS
<1>1. \A c \in Callers : CallStage(c) = "idle" /\ EndingOf(c) = None
  BY DEF Init, CallStage, EndingOf, Outcomes
<1>2. Stages = [c \in Callers |-> "idle"] /\ Endings = [c \in Callers |-> None]
  BY <1>1 DEF Stages, Endings
<1> QED BY <1>2 DEF Init, Promise!Init

(* The registry, the reader threads and the log together do what Exchange  *)
(* promises each caller: one ending, told to it and logged alike.          *)
THEOREM PromiseKept == Spec => KeepsPromise
<1>1. Init => Promise!Init
  BY PromiseInit
<1>2. IInv /\ HandedInv /\ [Next]_vars => [Promise!Next]_Promise!vars
  BY PromiseStep
<1>3. Spec => Promise!Spec
  BY <1>1, <1>2, Handed, PTL DEF Spec, Promise!Spec
<1> QED BY <1>3 DEF KeepsPromise
=============================================================================
