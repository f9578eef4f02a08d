--------------------------- MODULE HomeNewsProofs ---------------------------
(* Proofs about HomeNews, for any number of calls and sessions, and about  *)
(* Handles, for any number of conversations, sessions and resumptions.     *)
EXTENDS HomeNews, Handles, FiniteSetTheorems, WellFoundedInduction, TLAPS

-----------------------------------------------------------------------------
(* A set of notices of one kind, element by element.                       *)
LEMMA Pairs ==
  ASSUME NEW S, NEW k
  PROVE  \A n : n \in S \X {k} <=> \E y \in S : n = <<y, k>>
OBVIOUS

(* Where the notices may come from.                                        *)
LEMMA FiledSame ==
  ASSUME UNCHANGED <<notices, heard, carried>> PROVE Filed' = Filed
BY DEF Filed

LEMMA FiledWake == ASSUME Wake PROVE Filed' \subseteq Filed
<1>1. Prune(notices) \subseteq notices
  BY DEF Prune
<1>2. /\ notices' = {} /\ heard' = heard
      /\ carried' \subseteq carried \cup {Prune(notices)}
  BY DEF Wake, carryVars
<1>3. UNION carried' \subseteq (UNION carried) \cup notices
  BY <1>1, <1>2
<1> QED BY <1>2, <1>3 DEF Filed

LEMMA FiledDeliver == ASSUME NEW batch, Deliver(batch) PROVE Filed' \subseteq Filed
<1>1. /\ heard' \subseteq heard \cup batch
      /\ batch \in carried
      /\ carried' = carried \ {batch}
      /\ notices' = notices
  BY DEF Deliver, newsVars
<1> QED BY <1>1 DEF Filed

LEMMA FiledClose == ASSUME CloseHome PROVE Filed' \subseteq Filed
<1>1. notices' = {} /\ heard' = heard /\ carried' = carried
  BY DEF CloseHome, carryVars
<1> QED BY <1>1 DEF Filed

LEMMA FileAdds ==
  ASSUME NEW news, File(news)
  PROVE  notices' = notices \cup news
<1>1. CASE news = {}
  BY <1>1 DEF File, newsVars
<1>2. CASE news # {}
  BY <1>2 DEF File
<1> QED BY <1>1, <1>2

LEMMA FileTypes ==
  ASSUME NEW news, File(news), scheduled \in BOOLEAN, sleeping \in Nat
  PROVE  scheduled' \in BOOLEAN /\ sleeping' \in Nat
<1>1. CASE news = {}
  BY <1>1 DEF File, newsVars
<1>2. CASE news # {} /\ scheduled
  BY <1>2 DEF File
<1>3. CASE news # {} /\ ~scheduled
  <2>1. scheduled' = TRUE /\ sleeping' = sleeping + 1
    BY <1>3, Zenon DEF File
  <2> QED BY <2>1
<1> QED BY <1>1, <1>2, <1>3

LEMMA FiledSettle ==
  ASSUME NEW s, NEW x, Settle(s, x)
  PROVE  /\ notices' = notices \cup (({x} \cap (kept \ (awaited \cup quiet))) \X {"ended"})
         /\ Filed' = Filed \cup (({x} \cap (kept \ (awaited \cup quiet))) \X {"ended"})
<1>1. notices' = notices \cup (({x} \cap (kept \ (awaited \cup quiet))) \X {"ended"})
  BY FileAdds DEF Settle
<1>2. heard' = heard /\ carried' = carried
  BY DEF Settle, carryVars
<1> QED BY <1>1, <1>2 DEF Filed

LEMMA FiledTell ==
  ASSUME NEW s, TellAsk(s)
  PROVE  LET news == {x \in kept \ (awaited \cup quiet \cup told) : to[x] = s} IN
         /\ told' = told \cup news
         /\ notices' = notices \cup (news \X {"waiting"})
         /\ Filed' = Filed \cup (news \X {"waiting"})
<1> DEFINE news == {x \in kept \ (awaited \cup quiet \cup told) : to[x] = s}
<1>1. told' = told \cup news /\ notices' = notices \cup (news \X {"waiting"})
  BY FileAdds DEF TellAsk
<1>2. heard' = heard /\ carried' = carried
  BY DEF TellAsk, carryVars
<1> QED BY <1>1, <1>2 DEF Filed

-----------------------------------------------------------------------------
(* The declared types survive every step.                                  *)
LEMMA TypeStep == TypeOK /\ AddressInv /\ NewsIsCarried /\ [Next]_vars => TypeOK'
<1> USE HomeAssumption DEF TypeOK, Notice, Step, callVars, turnVars, askVars, keptVars, newsVars, carryVars
<1> SUFFICES ASSUME TypeOK, AddressInv, NewsIsCarried, [Next]_vars PROVE TypeOK'
  OBVIOUS
<1>1. ASSUME NEW x \in Calls, NEW s \in Sessions, NEW wait \in BOOLEAN, Arm(x, s, wait) PROVE TypeOK'
  BY <1>1 DEF Arm
<1>2. ASSUME NEW x \in Calls, Track(x) PROVE TypeOK'
  BY <1>2 DEF Track
<1>3. ASSUME NEW x \in Calls, Send(x) PROVE TypeOK'
  BY <1>3 DEF Send
<1>4. ASSUME NEW x \in Calls, Refuse(x) PROVE TypeOK'
  <2>1. to[x] \in Sessions
    BY <1>4 DEF Refuse, AddressInv
  <2>2. CASE x \in armed[to[x]]
    BY <1>4, <2>1, <2>2 DEF Refuse
  <2>3. CASE x \notin armed[to[x]]
    BY <1>4, <2>3 DEF Refuse
  <2> QED BY <2>2, <2>3
<1>5. ASSUME NEW x \in Calls, Untrack(x) PROVE TypeOK'
  BY <1>5 DEF Untrack
<1>6. ASSUME NEW x \in Calls, Reply(x) PROVE TypeOK'
  BY <1>6 DEF Reply
<1>7. ASSUME NEW x \in Calls, StopWaiting(x) PROVE TypeOK'
  BY <1>7 DEF StopWaiting
<1>8. ASSUME NEW x \in Calls, Release(x) PROVE TypeOK'
  BY <1>8 DEF Release
<1>9. ASSUME NEW x \in Calls, Take(x) PROVE TypeOK'
  BY <1>9 DEF Take
<1>10. ASSUME NEW s \in Sessions, Quiet(s) PROVE TypeOK'
  BY <1>10 DEF Quiet
<1>11. ASSUME NEW s \in Sessions, Ending(s) PROVE TypeOK'
  BY <1>11 DEF Ending, TakeWatches
<1>12. ASSUME NEW s \in Sessions, NEW x \in Calls, Answer(s, x) PROVE TypeOK'
  BY <1>12 DEF Answer
<1>13. ASSUME NEW s \in Sessions, NEW x \in Calls, Settle(s, x) PROVE TypeOK'
  <2>a. {x} \cap (kept \ (awaited \cup quiet)) \subseteq Calls
    OBVIOUS
  <2>b. (({x} \cap (kept \ (awaited \cup quiet))) \X {"ended"}) \subseteq Notice
    BY <2>a, Pairs
  <2>1. notices' \subseteq Notice
    BY <1>13, <2>b, FiledSettle
  <2>2. scheduled' \in BOOLEAN /\ sleeping' \in Nat
    BY <1>13, FileTypes DEF Settle
  <2> QED BY <1>13, <2>1, <2>2 DEF Settle
<1>14. ASSUME NEW s \in Sessions, Ask(s) PROVE TypeOK'
  BY <1>14 DEF Ask
<1>15. ASSUME NEW s \in Sessions, TellAsk(s) PROVE TypeOK'
  <2> DEFINE news == {x \in kept \ (awaited \cup quiet \cup told) : to[x] = s}
  <2>a. news \subseteq Calls
    OBVIOUS
  <2>b. told' = told \cup news /\ notices' = notices \cup (news \X {"waiting"})
    BY <1>15, FiledTell
  <2> HIDE DEF news
  <2>c. (news \X {"waiting"}) \subseteq Notice
    BY <2>a, Pairs
  <2>1. told' \subseteq Calls /\ notices' \subseteq Notice
    BY <2>a, <2>b, <2>c
  <2>2. scheduled' \in BOOLEAN /\ sleeping' \in Nat
    BY <1>15, FileTypes DEF TellAsk
  <2> QED BY <1>15, <2>1, <2>2 DEF TellAsk
<1>16. ASSUME NEW s \in Sessions, Resolve(s) PROVE TypeOK'
  BY <1>16 DEF Resolve
<1>17. ASSUME NEW s \in Sessions, End(s) PROVE TypeOK'
  BY <1>17 DEF End
<1>18. ASSUME NEW s \in Sessions, Exit(s) PROVE TypeOK'
  BY <1>18 DEF Exit, TakeWatches
<1>19. CASE Wake
  <2>1. Prune(notices) \subseteq Notice
    BY DEF Prune
  <2>2. carried' \subseteq SUBSET Notice
    BY <1>19, <2>1 DEF Wake
  <2>3. sleeping' \in Nat /\ scheduled' = FALSE /\ notices' = {}
    BY <1>19 DEF Wake
  <2>4. UNCHANGED <<pc, to, waits, armed, chan, sending, settling, asking, asks, alive,
                    kept, awaited, told, quiet, heard, home>>
    BY <1>19 DEF Wake
  <2> QED BY <2>2, <2>3, <2>4
<1>20. ASSUME NEW batch \in carried, Deliver(batch) PROVE TypeOK'
  BY <1>20 DEF Deliver
<1>21. CASE CloseHome
  BY <1>21 DEF CloseHome
<1>22. CASE UNCHANGED vars
  BY <1>22 DEF vars
<1> HIDE DEF TypeOK, Notice
<1> QED
  BY <1>1, <1>2, <1>3, <1>4, <1>5, <1>6, <1>7, <1>8, <1>9, <1>10, <1>11,
     <1>12, <1>13, <1>14, <1>15, <1>16, <1>17, <1>18, <1>19, <1>20, <1>21, <1>22
     DEF Next, CallStep, ReaderStep, CourierStep

(* A call that has begun keeps its address.                                *)
LEMMA AddressStep == TypeOK /\ AddressInv /\ [Next]_vars => AddressInv'
<1> USE HomeAssumption DEF TypeOK, AddressInv, Step, callVars
<1> SUFFICES ASSUME TypeOK, AddressInv, [Next]_vars PROVE AddressInv'
  OBVIOUS
<1>1. ASSUME NEW x \in Calls, NEW s \in Sessions, NEW wait \in BOOLEAN, Arm(x, s, wait) PROVE AddressInv'
  BY <1>1 DEF Arm
<1>2. ASSUME NEW x \in Calls, Track(x) PROVE AddressInv'
  BY <1>2 DEF Track
<1>3. ASSUME NEW x \in Calls, Send(x) PROVE AddressInv'
  BY <1>3 DEF Send
<1>4. ASSUME NEW x \in Calls, Refuse(x) PROVE AddressInv'
  BY <1>4 DEF Refuse
<1>5. ASSUME NEW x \in Calls, Untrack(x) PROVE AddressInv'
  BY <1>5 DEF Untrack
<1>6. ASSUME NEW x \in Calls, Reply(x) PROVE AddressInv'
  BY <1>6 DEF Reply
<1>7. ASSUME NEW x \in Calls, StopWaiting(x) PROVE AddressInv'
  BY <1>7 DEF StopWaiting
<1>8. ASSUME NEW x \in Calls, Release(x) PROVE AddressInv'
  BY <1>8 DEF Release
<1>9. ASSUME NEW x \in Calls, Take(x) PROVE AddressInv'
  BY <1>9 DEF Take
<1>10. ASSUME NEW s \in Sessions, Quiet(s) PROVE AddressInv'
  BY <1>10 DEF Quiet
<1>11. ASSUME NEW s \in Sessions, Ending(s) PROVE AddressInv'
  BY <1>11 DEF Ending
<1>12. ASSUME NEW s \in Sessions, NEW x \in Calls, Answer(s, x) PROVE AddressInv'
  BY <1>12 DEF Answer
<1>13. ASSUME NEW s \in Sessions, NEW x \in Calls, Settle(s, x) PROVE AddressInv'
  BY <1>13 DEF Settle
<1>14. ASSUME NEW s \in Sessions, Ask(s) PROVE AddressInv'
  BY <1>14 DEF Ask
<1>15. ASSUME NEW s \in Sessions, TellAsk(s) PROVE AddressInv'
  BY <1>15 DEF TellAsk
<1>16. ASSUME NEW s \in Sessions, Resolve(s) PROVE AddressInv'
  BY <1>16 DEF Resolve
<1>17. ASSUME NEW s \in Sessions, End(s) PROVE AddressInv'
  BY <1>17 DEF End
<1>18. ASSUME NEW s \in Sessions, Exit(s) PROVE AddressInv'
  BY <1>18 DEF Exit
<1>19. CASE Wake
  BY <1>19 DEF Wake
<1>20. ASSUME NEW batch \in carried, Deliver(batch) PROVE AddressInv'
  BY <1>20 DEF Deliver
<1>21. CASE CloseHome
  BY <1>21 DEF CloseHome
<1>22. CASE UNCHANGED vars
  BY <1>22 DEF vars
<1> HIDE DEF TypeOK, AddressInv
<1> QED
  BY <1>1, <1>2, <1>3, <1>4, <1>5, <1>6, <1>7, <1>8, <1>9, <1>10, <1>11,
     <1>12, <1>13, <1>14, <1>15, <1>16, <1>17, <1>18, <1>19, <1>20, <1>21, <1>22
     DEF Next, CallStep, ReaderStep, CourierStep

(* Watches stay with their session, and a reply is sent before its        *)
(* delegation is settled.                                                  *)
LEMMA WatchStep == TypeOK /\ AddressInv /\ WatchInv /\ [Next]_vars => WatchInv'
<1> USE HomeAssumption DEF TypeOK, WatchInv, Waiting, Step, callVars, turnVars
<1> SUFFICES ASSUME TypeOK, AddressInv, WatchInv, [Next]_vars PROVE WatchInv'
  OBVIOUS
<1>1. ASSUME NEW x \in Calls, NEW s \in Sessions, NEW wait \in BOOLEAN, Arm(x, s, wait) PROVE WatchInv'
  BY <1>1 DEF Arm
<1>2. ASSUME NEW x \in Calls, Track(x) PROVE WatchInv'
  BY <1>2 DEF Track
<1>3. ASSUME NEW x \in Calls, Send(x) PROVE WatchInv'
  BY <1>3 DEF Send
<1>4. ASSUME NEW x \in Calls, Refuse(x) PROVE WatchInv'
  <2>1. to[x] \in Sessions
    BY <1>4 DEF Refuse, AddressInv
  <2>2. CASE x \in armed[to[x]]
    BY <1>4, <2>1, <2>2 DEF Refuse
  <2>3. CASE x \notin armed[to[x]]
    BY <1>4, <2>3 DEF Refuse
  <2> QED BY <2>2, <2>3
<1>5. ASSUME NEW x \in Calls, Untrack(x) PROVE WatchInv'
  BY <1>5 DEF Untrack
<1>6. ASSUME NEW x \in Calls, Reply(x) PROVE WatchInv'
  BY <1>6 DEF Reply
<1>7. ASSUME NEW x \in Calls, StopWaiting(x) PROVE WatchInv'
  BY <1>7 DEF StopWaiting
<1>8. ASSUME NEW x \in Calls, Release(x) PROVE WatchInv'
  BY <1>8 DEF Release
<1>9. ASSUME NEW x \in Calls, Take(x) PROVE WatchInv'
  BY <1>9 DEF Take
<1>10. ASSUME NEW s \in Sessions, Quiet(s) PROVE WatchInv'
  BY <1>10 DEF Quiet
<1>11. ASSUME NEW s \in Sessions, Ending(s) PROVE WatchInv'
  BY <1>11 DEF Ending, TakeWatches, ReaderFree
<1>12. ASSUME NEW s \in Sessions, NEW x \in Calls, Answer(s, x) PROVE WatchInv'
  BY <1>12 DEF Answer
<1>13. ASSUME NEW s \in Sessions, NEW x \in Calls, Settle(s, x) PROVE WatchInv'
  BY <1>13 DEF Settle
<1>14. ASSUME NEW s \in Sessions, Ask(s) PROVE WatchInv'
  BY <1>14 DEF Ask
<1>15. ASSUME NEW s \in Sessions, TellAsk(s) PROVE WatchInv'
  BY <1>15 DEF TellAsk
<1>16. ASSUME NEW s \in Sessions, Resolve(s) PROVE WatchInv'
  BY <1>16 DEF Resolve
<1>17. ASSUME NEW s \in Sessions, End(s) PROVE WatchInv'
  BY <1>17 DEF End
<1>18. ASSUME NEW s \in Sessions, Exit(s) PROVE WatchInv'
  BY <1>18 DEF Exit, TakeWatches, ReaderFree
<1>19. CASE Wake
  BY <1>19 DEF Wake
<1>20. ASSUME NEW batch \in carried, Deliver(batch) PROVE WatchInv'
  BY <1>20 DEF Deliver
<1>21. CASE CloseHome
  BY <1>21 DEF CloseHome
<1>22. CASE UNCHANGED vars
  BY <1>22 DEF vars
<1> HIDE DEF TypeOK, WatchInv, Waiting
<1> QED
  BY <1>1, <1>2, <1>3, <1>4, <1>5, <1>6, <1>7, <1>8, <1>9, <1>10, <1>11,
     <1>12, <1>13, <1>14, <1>15, <1>16, <1>17, <1>18, <1>19, <1>20, <1>21, <1>22
     DEF Next, CallStep, ReaderStep, CourierStep

(* A waiting call's delegation is not dropped before its reply is sent.    *)
LEMMA RecordStep == TypeOK /\ WatchInv /\ RecordInv /\ [Next]_vars => RecordInv'
<1> USE HomeAssumption DEF TypeOK, RecordInv, Waiting, Step, callVars, turnVars, keptVars
<1> SUFFICES ASSUME TypeOK, WatchInv, RecordInv, [Next]_vars PROVE RecordInv'
  OBVIOUS
<1>1. ASSUME NEW x \in Calls, NEW s \in Sessions, NEW wait \in BOOLEAN, Arm(x, s, wait) PROVE RecordInv'
  BY <1>1 DEF Arm
<1>2. ASSUME NEW x \in Calls, Track(x) PROVE RecordInv'
  BY <1>2 DEF Track
<1>3. ASSUME NEW x \in Calls, Send(x) PROVE RecordInv'
  BY <1>3 DEF Send
<1>4. ASSUME NEW x \in Calls, Refuse(x) PROVE RecordInv'
  <2>1. \A y \in Calls \ {x} : pc'[y] = pc[y] /\ chan'[y] = chan[y]
    BY <1>4 DEF Refuse
  <2>2. pc[x] = "tracked" /\ pc'[x] = "refused" /\ kept' = kept /\ home' = home
    BY <1>4 DEF Refuse
  <2> QED BY <2>1, <2>2
<1>5. ASSUME NEW x \in Calls, Untrack(x) PROVE RecordInv'
  BY <1>5 DEF Untrack
<1>6. ASSUME NEW x \in Calls, Reply(x) PROVE RecordInv'
  BY <1>6 DEF Reply
<1>7. ASSUME NEW x \in Calls, StopWaiting(x) PROVE RecordInv'
  BY <1>7 DEF StopWaiting
<1>8. ASSUME NEW x \in Calls, Release(x) PROVE RecordInv'
  BY <1>8 DEF Release
<1>9. ASSUME NEW x \in Calls, Take(x) PROVE RecordInv'
  BY <1>9 DEF Take
<1>10. ASSUME NEW s \in Sessions, Quiet(s) PROVE RecordInv'
  BY <1>10 DEF Quiet
<1>11. ASSUME NEW s \in Sessions, Ending(s) PROVE RecordInv'
  BY <1>11 DEF Ending
<1>12. ASSUME NEW s \in Sessions, NEW x \in Calls, Answer(s, x) PROVE RecordInv'
  BY <1>12 DEF Answer
<1>13. ASSUME NEW s \in Sessions, NEW x \in Calls, Settle(s, x) PROVE RecordInv'
  <2>1. pc[x] \in Waiting \cup {"tracked"} => chan[x] = "reply"
    BY <1>13 DEF Settle, WatchInv
  <2>2. kept' = kept \ {x} /\ chan' = chan /\ pc' = pc /\ home' = home
    BY <1>13 DEF Settle
  <2> QED BY <2>1, <2>2
<1>14. ASSUME NEW s \in Sessions, Ask(s) PROVE RecordInv'
  BY <1>14 DEF Ask
<1>15. ASSUME NEW s \in Sessions, TellAsk(s) PROVE RecordInv'
  BY <1>15 DEF TellAsk
<1>16. ASSUME NEW s \in Sessions, Resolve(s) PROVE RecordInv'
  BY <1>16 DEF Resolve
<1>17. ASSUME NEW s \in Sessions, End(s) PROVE RecordInv'
  BY <1>17 DEF End
<1>18. ASSUME NEW s \in Sessions, Exit(s) PROVE RecordInv'
  BY <1>18 DEF Exit
<1>19. CASE Wake
  BY <1>19 DEF Wake
<1>20. ASSUME NEW batch \in carried, Deliver(batch) PROVE RecordInv'
  BY <1>20 DEF Deliver
<1>21. CASE CloseHome
  BY <1>21 DEF CloseHome
<1>22. CASE UNCHANGED vars
  BY <1>22 DEF vars
<1> HIDE DEF TypeOK, RecordInv, Waiting
<1> QED
  BY <1>1, <1>2, <1>3, <1>4, <1>5, <1>6, <1>7, <1>8, <1>9, <1>10, <1>11,
     <1>12, <1>13, <1>14, <1>15, <1>16, <1>17, <1>18, <1>19, <1>20, <1>21, <1>22
     DEF Next, CallStep, ReaderStep, CourierStep

(* Nobody else tells the news of a call that waits.                        *)
LEMMA AwaitStep == TypeOK /\ RecordInv /\ AwaitInv /\ NoticeInv /\ [Next]_vars => AwaitInv'
<1> USE HomeAssumption DEF TypeOK, AwaitInv, Waiting, Step, callVars, keptVars, newsVars, carryVars
<1> SUFFICES ASSUME TypeOK, RecordInv, AwaitInv, NoticeInv, [Next]_vars PROVE AwaitInv'
  OBVIOUS
<1>1. ASSUME NEW x \in Calls, NEW s \in Sessions, NEW wait \in BOOLEAN, Arm(x, s, wait) PROVE AwaitInv'
  BY <1>1, FiledSame DEF Arm
<1>2. ASSUME NEW x \in Calls, Track(x) PROVE AwaitInv'
  <2>1. <<x, "ended">> \notin Filed /\ <<x, "waiting">> \notin Filed
    BY <1>2 DEF Track, NoticeInv
  <2>2. pc'[x] = "tracked" /\ \A y \in Calls \ {x} : pc'[y] = pc[y]
    BY <1>2 DEF Track
  <2>3. UNCHANGED <<waits, told>> /\ awaited \subseteq awaited' /\ (x \in waits => x \in awaited')
    BY <1>2 DEF Track
  <2>4. Filed' = Filed
    BY <1>2, FiledSame DEF Track
  <2> QED BY <2>1, <2>2, <2>3, <2>4
<1>3. ASSUME NEW x \in Calls, Send(x) PROVE AwaitInv'
  BY <1>3, FiledSame DEF Send
<1>4. ASSUME NEW x \in Calls, Refuse(x) PROVE AwaitInv'
  BY <1>4, FiledSame DEF Refuse
<1>5. ASSUME NEW x \in Calls, Untrack(x) PROVE AwaitInv'
  BY <1>5, FiledSame DEF Untrack
<1>6. ASSUME NEW x \in Calls, Reply(x) PROVE AwaitInv'
  BY <1>6, FiledSame DEF Reply
<1>7. ASSUME NEW x \in Calls, StopWaiting(x) PROVE AwaitInv'
  BY <1>7, FiledSame DEF StopWaiting
<1>8. ASSUME NEW x \in Calls, Release(x) PROVE AwaitInv'
  BY <1>8, FiledSame DEF Release
<1>9. ASSUME NEW x \in Calls, Take(x) PROVE AwaitInv'
  BY <1>9, FiledSame DEF Take
<1>10. ASSUME NEW s \in Sessions, Quiet(s) PROVE AwaitInv'
  BY <1>10, FiledSame DEF Quiet
<1>11. ASSUME NEW s \in Sessions, Ending(s) PROVE AwaitInv'
  BY <1>11, FiledSame DEF Ending
<1>12. ASSUME NEW s \in Sessions, NEW x \in Calls, Answer(s, x) PROVE AwaitInv'
  BY <1>12, FiledSame DEF Answer
<1>13. ASSUME NEW s \in Sessions, NEW x \in Calls, Settle(s, x) PROVE AwaitInv'
  <2>1. UNCHANGED <<pc, waits, awaited, told>>
    BY <1>13 DEF Settle
  <2>2. \A y \in awaited : <<y, "ended">> \notin Filed => <<y, "ended">> \notin Filed'
    BY <1>13, FiledSettle
  <2>3. \A y \in Calls : <<y, "waiting">> \notin Filed => <<y, "waiting">> \notin Filed'
    BY <1>13, FiledSettle
  <2> QED BY <2>1, <2>2, <2>3
<1>14. ASSUME NEW s \in Sessions, Ask(s) PROVE AwaitInv'
  BY <1>14, FiledSame DEF Ask
<1>15. ASSUME NEW s \in Sessions, TellAsk(s) PROVE AwaitInv'
  <2>1. UNCHANGED <<pc, waits, awaited>> /\ told \subseteq told'
    BY <1>15, FiledTell DEF TellAsk
  <2>2. \A y \in awaited : <<y, "waiting">> \notin Filed => <<y, "waiting">> \notin Filed'
    BY <1>15, FiledTell
  <2>3. \A y \in Calls : <<y, "ended">> \notin Filed => <<y, "ended">> \notin Filed'
    BY <1>15, FiledTell
  <2> QED BY <2>1, <2>2, <2>3
<1>16. ASSUME NEW s \in Sessions, Resolve(s) PROVE AwaitInv'
  BY <1>16, FiledSame DEF Resolve
<1>17. ASSUME NEW s \in Sessions, End(s) PROVE AwaitInv'
  BY <1>17, FiledSame DEF End
<1>18. ASSUME NEW s \in Sessions, Exit(s) PROVE AwaitInv'
  BY <1>18, FiledSame DEF Exit
<1>19. CASE Wake
  BY <1>19, FiledWake DEF Wake
<1>20. ASSUME NEW batch \in carried, Deliver(batch) PROVE AwaitInv'
  BY <1>20, FiledDeliver DEF Deliver
<1>21. CASE CloseHome
  BY <1>21, FiledClose DEF CloseHome
<1>22. CASE UNCHANGED vars
  BY <1>22, FiledSame DEF vars
<1> HIDE DEF TypeOK, AwaitInv, Waiting
<1> QED
  BY <1>1, <1>2, <1>3, <1>4, <1>5, <1>6, <1>7, <1>8, <1>9, <1>10, <1>11,
     <1>12, <1>13, <1>14, <1>15, <1>16, <1>17, <1>18, <1>19, <1>20, <1>21, <1>22
     DEF Next, CallStep, ReaderStep, CourierStep

(* What a notice says stays true of its delegation.                        *)
LEMMA NoticeStep == TypeOK /\ RecordInv /\ AwaitInv /\ NoticeInv /\ [Next]_vars => NoticeInv'
<1> USE HomeAssumption DEF TypeOK, NoticeInv, Step, callVars, keptVars, newsVars, carryVars
<1> SUFFICES ASSUME TypeOK, RecordInv, AwaitInv, NoticeInv, [Next]_vars PROVE NoticeInv'
  OBVIOUS
<1>1. ASSUME NEW x \in Calls, NEW s \in Sessions, NEW wait \in BOOLEAN, Arm(x, s, wait) PROVE NoticeInv'
  BY <1>1, FiledSame DEF Arm
<1>2. ASSUME NEW x \in Calls, Track(x) PROVE NoticeInv'
  BY <1>2, FiledSame DEF Track
<1>3. ASSUME NEW x \in Calls, Send(x) PROVE NoticeInv'
  BY <1>3, FiledSame DEF Send
<1>4. ASSUME NEW x \in Calls, Refuse(x) PROVE NoticeInv'
  BY <1>4, FiledSame DEF Refuse
<1>5. ASSUME NEW x \in Calls, Untrack(x) PROVE NoticeInv'
  BY <1>5, FiledSame DEF Untrack
<1>6. ASSUME NEW x \in Calls, Reply(x) PROVE NoticeInv'
  BY <1>6, FiledSame DEF Reply
<1>7. ASSUME NEW x \in Calls, StopWaiting(x) PROVE NoticeInv'
  BY <1>7, FiledSame DEF StopWaiting
<1>8. ASSUME NEW x \in Calls, Release(x) PROVE NoticeInv'
  <2>1. told' \subseteq told \cup {x} /\ pc'[x] \notin {"new", "armed"}
    BY <1>8 DEF Release
  <2>2. \A y \in Calls \ {x} : pc'[y] = pc[y]
    BY <1>8 DEF Release
  <2>3. told \subseteq told' /\ kept' = kept /\ quiet' = quiet /\ Filed' = Filed
    BY <1>8, FiledSame DEF Release
  <2> QED BY <1>8, <2>1, <2>2, <2>3
<1>9. ASSUME NEW x \in Calls, Take(x) PROVE NoticeInv'
  BY <1>9, FiledSame DEF Take
<1>10. ASSUME NEW s \in Sessions, Quiet(s) PROVE NoticeInv'
  BY <1>10, FiledSame DEF Quiet
<1>11. ASSUME NEW s \in Sessions, Ending(s) PROVE NoticeInv'
  BY <1>11, FiledSame DEF Ending
<1>12. ASSUME NEW s \in Sessions, NEW x \in Calls, Answer(s, x) PROVE NoticeInv'
  BY <1>12, FiledSame DEF Answer
<1>13. ASSUME NEW s \in Sessions, NEW x \in Calls, Settle(s, x) PROVE NoticeInv'
  <2>1. UNCHANGED <<pc, quiet, told>> /\ kept' = kept \ {x}
    BY <1>13 DEF Settle
  <2>2. \A y \in Calls : <<y, "ended">> \in Filed' =>
           <<y, "ended">> \in Filed \/ (y = x /\ x \in kept \ quiet)
    BY <1>13, FiledSettle
  <2>3. \A y \in Calls : <<y, "waiting">> \in Filed' => <<y, "waiting">> \in Filed
    BY <1>13, FiledSettle
  <2> QED BY <2>1, <2>2, <2>3 DEF RecordInv
<1>14. ASSUME NEW s \in Sessions, Ask(s) PROVE NoticeInv'
  BY <1>14, FiledSame DEF Ask
<1>15. ASSUME NEW s \in Sessions, TellAsk(s) PROVE NoticeInv'
  <2>1. UNCHANGED <<pc, kept, quiet>> /\ told \subseteq told' /\ told' \subseteq told \cup kept
    BY <1>15, FiledTell DEF TellAsk
  <2>2. \A y \in Calls : <<y, "ended">> \in Filed' => <<y, "ended">> \in Filed
    BY <1>15, FiledTell
  <2>3. \A y \in Calls : <<y, "waiting">> \in Filed' => <<y, "waiting">> \in Filed \/ y \in told'
    BY <1>15, FiledTell
  <2> QED BY <2>1, <2>2, <2>3 DEF RecordInv
<1>16. ASSUME NEW s \in Sessions, Resolve(s) PROVE NoticeInv'
  BY <1>16, FiledSame DEF Resolve
<1>17. ASSUME NEW s \in Sessions, End(s) PROVE NoticeInv'
  BY <1>17, FiledSame DEF End
<1>18. ASSUME NEW s \in Sessions, Exit(s) PROVE NoticeInv'
  BY <1>18, FiledSame DEF Exit
<1>19. CASE Wake
  BY <1>19, FiledWake DEF Wake
<1>20. ASSUME NEW batch \in carried, Deliver(batch) PROVE NoticeInv'
  BY <1>20, FiledDeliver DEF Deliver
<1>21. CASE CloseHome
  BY <1>21, FiledClose DEF CloseHome
<1>22. CASE UNCHANGED vars
  BY <1>22, FiledSame DEF vars
<1> HIDE DEF TypeOK, NoticeInv
<1> QED
  BY <1>1, <1>2, <1>3, <1>4, <1>5, <1>6, <1>7, <1>8, <1>9, <1>10, <1>11,
     <1>12, <1>13, <1>14, <1>15, <1>16, <1>17, <1>18, <1>19, <1>20, <1>21, <1>22
     DEF Next, CallStep, ReaderStep, CourierStep

(* `scheduled` stands for a thread that is still to take the notices.      *)
LEMMA CarryStep == TypeOK /\ NewsIsCarried /\ [Next]_vars => NewsIsCarried'
<1> USE HomeAssumption DEF TypeOK, NewsIsCarried, newsVars
<1> SUFFICES ASSUME TypeOK, NewsIsCarried, [Next]_vars PROVE NewsIsCarried'
  OBVIOUS
<1>1. ASSUME NEW x \in Calls, NEW s \in Sessions, NEW wait \in BOOLEAN, Arm(x, s, wait) PROVE NewsIsCarried'
  BY <1>1 DEF Arm
<1>2. ASSUME NEW x \in Calls, Track(x) PROVE NewsIsCarried'
  BY <1>2 DEF Track
<1>3. ASSUME NEW x \in Calls, Send(x) PROVE NewsIsCarried'
  BY <1>3 DEF Send
<1>4. ASSUME NEW x \in Calls, Refuse(x) PROVE NewsIsCarried'
  BY <1>4 DEF Refuse
<1>5. ASSUME NEW x \in Calls, Untrack(x) PROVE NewsIsCarried'
  BY <1>5 DEF Untrack
<1>6. ASSUME NEW x \in Calls, Reply(x) PROVE NewsIsCarried'
  BY <1>6 DEF Reply
<1>7. ASSUME NEW x \in Calls, StopWaiting(x) PROVE NewsIsCarried'
  BY <1>7 DEF StopWaiting
<1>8. ASSUME NEW x \in Calls, Release(x) PROVE NewsIsCarried'
  BY <1>8 DEF Release
<1>9. ASSUME NEW x \in Calls, Take(x) PROVE NewsIsCarried'
  BY <1>9 DEF Take
<1>10. ASSUME NEW s \in Sessions, Quiet(s) PROVE NewsIsCarried'
  BY <1>10 DEF Quiet
<1>11. ASSUME NEW s \in Sessions, Ending(s) PROVE NewsIsCarried'
  BY <1>11 DEF Ending
<1>12. ASSUME NEW s \in Sessions, NEW x \in Calls, Answer(s, x) PROVE NewsIsCarried'
  BY <1>12 DEF Answer
<1>13. ASSUME NEW s \in Sessions, NEW x \in Calls, Settle(s, x) PROVE NewsIsCarried'
  BY <1>13 DEF Settle, File
<1>14. ASSUME NEW s \in Sessions, Ask(s) PROVE NewsIsCarried'
  BY <1>14 DEF Ask
<1>15. ASSUME NEW s \in Sessions, TellAsk(s) PROVE NewsIsCarried'
  BY <1>15 DEF TellAsk, File
<1>16. ASSUME NEW s \in Sessions, Resolve(s) PROVE NewsIsCarried'
  BY <1>16 DEF Resolve
<1>17. ASSUME NEW s \in Sessions, End(s) PROVE NewsIsCarried'
  BY <1>17 DEF End
<1>18. ASSUME NEW s \in Sessions, Exit(s) PROVE NewsIsCarried'
  BY <1>18 DEF Exit
<1>19. CASE Wake
  BY <1>19 DEF Wake
<1>20. ASSUME NEW batch \in carried, Deliver(batch) PROVE NewsIsCarried'
  BY <1>20 DEF Deliver
<1>21. CASE CloseHome
  BY <1>21 DEF CloseHome
<1>22. CASE UNCHANGED vars
  BY <1>22 DEF vars
<1> HIDE DEF TypeOK, NewsIsCarried
<1> QED
  BY <1>1, <1>2, <1>3, <1>4, <1>5, <1>6, <1>7, <1>8, <1>9, <1>10, <1>11,
     <1>12, <1>13, <1>14, <1>15, <1>16, <1>17, <1>18, <1>19, <1>20, <1>21, <1>22
     DEF Next, CallStep, ReaderStep, CourierStep

(* No notice is in two places.                                             *)
LEMMA HeardStep == TypeOK /\ NoticeInv /\ HeardOnce /\ [Next]_vars => HeardOnce'
<1> USE HomeAssumption DEF HeardOnce, newsVars, carryVars
<1> SUFFICES ASSUME TypeOK, NoticeInv, HeardOnce, [Next]_vars PROVE HeardOnce'
  OBVIOUS
<1>1. ASSUME NEW x \in Calls, NEW s \in Sessions, NEW wait \in BOOLEAN, Arm(x, s, wait) PROVE HeardOnce'
  BY <1>1 DEF Arm
<1>2. ASSUME NEW x \in Calls, Track(x) PROVE HeardOnce'
  BY <1>2 DEF Track
<1>3. ASSUME NEW x \in Calls, Send(x) PROVE HeardOnce'
  BY <1>3 DEF Send
<1>4. ASSUME NEW x \in Calls, Refuse(x) PROVE HeardOnce'
  BY <1>4 DEF Refuse
<1>5. ASSUME NEW x \in Calls, Untrack(x) PROVE HeardOnce'
  BY <1>5 DEF Untrack
<1>6. ASSUME NEW x \in Calls, Reply(x) PROVE HeardOnce'
  BY <1>6 DEF Reply
<1>7. ASSUME NEW x \in Calls, StopWaiting(x) PROVE HeardOnce'
  BY <1>7 DEF StopWaiting
<1>8. ASSUME NEW x \in Calls, Release(x) PROVE HeardOnce'
  BY <1>8 DEF Release
<1>9. ASSUME NEW x \in Calls, Take(x) PROVE HeardOnce'
  BY <1>9 DEF Take
<1>10. ASSUME NEW s \in Sessions, Quiet(s) PROVE HeardOnce'
  BY <1>10 DEF Quiet
<1>11. ASSUME NEW s \in Sessions, Ending(s) PROVE HeardOnce'
  BY <1>11 DEF Ending
<1>12. ASSUME NEW s \in Sessions, NEW x \in Calls, Answer(s, x) PROVE HeardOnce'
  BY <1>12 DEF Answer
<1>13. ASSUME NEW s \in Sessions, NEW x \in Calls, Settle(s, x) PROVE HeardOnce'
  <2>1. heard' = heard /\ carried' = carried
    BY <1>13 DEF Settle
  <2>2. (({x} \cap (kept \ (awaited \cup quiet))) \X {"ended"}) \cap Filed = {}
    <3>0. kept \subseteq Calls
      BY DEF TypeOK
    <3>1. \A y \in {x} \cap (kept \ (awaited \cup quiet)) : <<y, "ended">> \notin Filed
      BY <3>0 DEF NoticeInv
    <3> QED BY <3>1, Pairs
  <2> HIDE DEF HeardOnce
  <2>3. \A n \in notices' : n \in notices \/ n \notin Filed
    BY <1>13, <2>2, FiledSettle
  <2> QED BY <2>1, <2>3 DEF Filed, HeardOnce
<1>14. ASSUME NEW s \in Sessions, Ask(s) PROVE HeardOnce'
  BY <1>14 DEF Ask
<1>15. ASSUME NEW s \in Sessions, TellAsk(s) PROVE HeardOnce'
  <2> DEFINE news == {x \in kept \ (awaited \cup quiet \cup told) : to[x] = s}
  <2>1. heard' = heard /\ carried' = carried
    BY <1>15 DEF TellAsk
  <2>0. news \subseteq Calls \ told
    BY DEF TypeOK
  <2>3. notices' = notices \cup (news \X {"waiting"})
    BY <1>15, FiledTell
  <2> HIDE DEF news
  <2>2. (news \X {"waiting"}) \cap Filed = {}
    <3>1. \A y \in news : <<y, "waiting">> \notin Filed
      BY <2>0 DEF NoticeInv
    <3> QED BY <3>1, Pairs
  <2>4. \A n \in notices' : n \in notices \/ n \notin Filed
    BY <2>2, <2>3
  <2> QED BY <2>1, <2>4 DEF Filed
<1>16. ASSUME NEW s \in Sessions, Resolve(s) PROVE HeardOnce'
  BY <1>16 DEF Resolve
<1>17. ASSUME NEW s \in Sessions, End(s) PROVE HeardOnce'
  BY <1>17 DEF End
<1>18. ASSUME NEW s \in Sessions, Exit(s) PROVE HeardOnce'
  BY <1>18 DEF Exit
<1>19. CASE Wake
  <2>1. Prune(notices) \subseteq notices
    BY DEF Prune
  <2>2. /\ notices' = {} /\ heard' = heard
        /\ carried' \subseteq carried \cup {Prune(notices)}
    BY <1>19 DEF Wake
  <2> QED BY <2>1, <2>2
<1>20. ASSUME NEW batch \in carried, Deliver(batch) PROVE HeardOnce'
  <2>1. /\ heard' \subseteq heard \cup batch
        /\ carried' = carried \ {batch}
        /\ notices' = notices
    BY <1>20 DEF Deliver
  <2> QED BY <2>1
<1>21. CASE CloseHome
  BY <1>21 DEF CloseHome
<1>22. CASE UNCHANGED vars
  BY <1>22 DEF vars
<1> HIDE DEF HeardOnce
<1> QED
  BY <1>1, <1>2, <1>3, <1>4, <1>5, <1>6, <1>7, <1>8, <1>9, <1>10, <1>11,
     <1>12, <1>13, <1>14, <1>15, <1>16, <1>17, <1>18, <1>19, <1>20, <1>21, <1>22
     DEF Next, CallStep, ReaderStep, CourierStep

(* What a tool call has said of a waiting session is not said again.       *)
LEMMA SaidStep == TypeOK /\ RecordInv /\ AwaitInv /\ NoticeInv /\ SaidIsNoNews /\ [Next]_vars => SaidIsNoNews'
<1> USE HomeAssumption DEF TypeOK, SaidIsNoNews, Step, callVars, newsVars, carryVars
<1> SUFFICES ASSUME TypeOK, RecordInv, AwaitInv, NoticeInv, SaidIsNoNews, [Next]_vars PROVE SaidIsNoNews'
  OBVIOUS
<1>1. ASSUME NEW x \in Calls, NEW s \in Sessions, NEW wait \in BOOLEAN, Arm(x, s, wait) PROVE SaidIsNoNews'
  BY <1>1, FiledSame DEF Arm
<1>2. ASSUME NEW x \in Calls, Track(x) PROVE SaidIsNoNews'
  BY <1>2, FiledSame DEF Track
<1>3. ASSUME NEW x \in Calls, Send(x) PROVE SaidIsNoNews'
  BY <1>3, FiledSame DEF Send
<1>4. ASSUME NEW x \in Calls, Refuse(x) PROVE SaidIsNoNews'
  BY <1>4, FiledSame DEF Refuse
<1>5. ASSUME NEW x \in Calls, Untrack(x) PROVE SaidIsNoNews'
  BY <1>5, FiledSame DEF Untrack
<1>6. ASSUME NEW x \in Calls, Reply(x) PROVE SaidIsNoNews'
  BY <1>6, FiledSame DEF Reply
<1>7. ASSUME NEW x \in Calls, StopWaiting(x) PROVE SaidIsNoNews'
  BY <1>7, FiledSame DEF StopWaiting
<1>8. ASSUME NEW x \in Calls, Release(x) PROVE SaidIsNoNews'
  <2>1. pc[x] = "stopped" => <<x, "waiting">> \notin Filed
    BY <1>8 DEF Release, AwaitInv, Waiting
  <2> QED BY <1>8, <2>1, FiledSame DEF Release
<1>9. ASSUME NEW x \in Calls, Take(x) PROVE SaidIsNoNews'
  BY <1>9, FiledSame DEF Take
<1>10. ASSUME NEW s \in Sessions, Quiet(s) PROVE SaidIsNoNews'
  BY <1>10, FiledSame DEF Quiet
<1>11. ASSUME NEW s \in Sessions, Ending(s) PROVE SaidIsNoNews'
  BY <1>11, FiledSame DEF Ending
<1>12. ASSUME NEW s \in Sessions, NEW x \in Calls, Answer(s, x) PROVE SaidIsNoNews'
  BY <1>12, FiledSame DEF Answer
<1>13. ASSUME NEW s \in Sessions, NEW x \in Calls, Settle(s, x) PROVE SaidIsNoNews'
  <2>1. \A y \in Calls : <<y, "waiting">> \in Filed' => <<y, "waiting">> \in Filed
    BY <1>13, FiledSettle
  <2> QED BY <1>13, <2>1 DEF Settle
<1>14. ASSUME NEW s \in Sessions, Ask(s) PROVE SaidIsNoNews'
  BY <1>14, FiledSame DEF Ask
<1>15. ASSUME NEW s \in Sessions, TellAsk(s) PROVE SaidIsNoNews'
  <2>1. \A y \in told : <<y, "waiting">> \in Filed' => <<y, "waiting">> \in Filed
    BY <1>15, FiledTell
  <2>2. pc' = pc
    BY <1>15 DEF TellAsk
  <2> QED BY <2>1, <2>2 DEF AwaitInv
<1>16. ASSUME NEW s \in Sessions, Resolve(s) PROVE SaidIsNoNews'
  BY <1>16, FiledSame DEF Resolve
<1>17. ASSUME NEW s \in Sessions, End(s) PROVE SaidIsNoNews'
  BY <1>17, FiledSame DEF End
<1>18. ASSUME NEW s \in Sessions, Exit(s) PROVE SaidIsNoNews'
  BY <1>18, FiledSame DEF Exit
<1>19. CASE Wake
  BY <1>19, FiledWake DEF Wake
<1>20. ASSUME NEW batch \in carried, Deliver(batch) PROVE SaidIsNoNews'
  BY <1>20, FiledDeliver DEF Deliver
<1>21. CASE CloseHome
  BY <1>21, FiledClose DEF CloseHome
<1>22. CASE UNCHANGED vars
  BY <1>22, FiledSame DEF vars
<1> HIDE DEF TypeOK, SaidIsNoNews
<1> QED
  BY <1>1, <1>2, <1>3, <1>4, <1>5, <1>6, <1>7, <1>8, <1>9, <1>10, <1>11,
     <1>12, <1>13, <1>14, <1>15, <1>16, <1>17, <1>18, <1>19, <1>20, <1>21, <1>22
     DEF Next, CallStep, ReaderStep, CourierStep

(* A call that stops waiting finds its delegation or its reply.            *)
LEMMA LostStep == TypeOK /\ RecordInv /\ NeverLost /\ [Next]_vars => NeverLost'
<1> USE HomeAssumption DEF TypeOK, NeverLost, Step, callVars
<1> SUFFICES ASSUME TypeOK, RecordInv, NeverLost, [Next]_vars PROVE NeverLost'
  OBVIOUS
<1>1. ASSUME NEW x \in Calls, NEW s \in Sessions, NEW wait \in BOOLEAN, Arm(x, s, wait) PROVE NeverLost'
  BY <1>1 DEF Arm
<1>2. ASSUME NEW x \in Calls, Track(x) PROVE NeverLost'
  BY <1>2 DEF Track
<1>3. ASSUME NEW x \in Calls, Send(x) PROVE NeverLost'
  BY <1>3 DEF Send
<1>4. ASSUME NEW x \in Calls, Refuse(x) PROVE NeverLost'
  BY <1>4 DEF Refuse
<1>5. ASSUME NEW x \in Calls, Untrack(x) PROVE NeverLost'
  BY <1>5 DEF Untrack
<1>6. ASSUME NEW x \in Calls, Reply(x) PROVE NeverLost'
  BY <1>6 DEF Reply
<1>7. ASSUME NEW x \in Calls, StopWaiting(x) PROVE NeverLost'
  BY <1>7 DEF StopWaiting
<1>8. ASSUME NEW x \in Calls, Release(x) PROVE NeverLost'
  BY <1>8 DEF Release
<1>9. ASSUME NEW x \in Calls, Take(x) PROVE NeverLost'
  BY <1>9 DEF Take, RecordInv, Waiting
<1>10. ASSUME NEW s \in Sessions, Quiet(s) PROVE NeverLost'
  BY <1>10 DEF Quiet
<1>11. ASSUME NEW s \in Sessions, Ending(s) PROVE NeverLost'
  BY <1>11 DEF Ending
<1>12. ASSUME NEW s \in Sessions, NEW x \in Calls, Answer(s, x) PROVE NeverLost'
  BY <1>12 DEF Answer
<1>13. ASSUME NEW s \in Sessions, NEW x \in Calls, Settle(s, x) PROVE NeverLost'
  BY <1>13 DEF Settle
<1>14. ASSUME NEW s \in Sessions, Ask(s) PROVE NeverLost'
  BY <1>14 DEF Ask
<1>15. ASSUME NEW s \in Sessions, TellAsk(s) PROVE NeverLost'
  BY <1>15 DEF TellAsk
<1>16. ASSUME NEW s \in Sessions, Resolve(s) PROVE NeverLost'
  BY <1>16 DEF Resolve
<1>17. ASSUME NEW s \in Sessions, End(s) PROVE NeverLost'
  BY <1>17 DEF End
<1>18. ASSUME NEW s \in Sessions, Exit(s) PROVE NeverLost'
  BY <1>18 DEF Exit
<1>19. CASE Wake
  BY <1>19 DEF Wake
<1>20. ASSUME NEW batch \in carried, Deliver(batch) PROVE NeverLost'
  BY <1>20 DEF Deliver
<1>21. CASE CloseHome
  BY <1>21 DEF CloseHome
<1>22. CASE UNCHANGED vars
  BY <1>22 DEF vars
<1> HIDE DEF TypeOK, NeverLost
<1> QED
  BY <1>1, <1>2, <1>3, <1>4, <1>5, <1>6, <1>7, <1>8, <1>9, <1>10, <1>11,
     <1>12, <1>13, <1>14, <1>15, <1>16, <1>17, <1>18, <1>19, <1>20, <1>21, <1>22
     DEF Next, CallStep, ReaderStep, CourierStep

-----------------------------------------------------------------------------
(* The inductive invariant holds of the first state, and for ever.         *)
LEMMA InitInv == Init => IInv
<1> SUFFICES ASSUME Init PROVE IInv
  OBVIOUS
<1> USE HomeAssumption DEF Init
<1>1. TypeOK
  BY DEF TypeOK, Notice
<1>2. Filed = {}
  BY DEF Filed
<1>3. AddressInv /\ WatchInv /\ RecordInv
  BY DEF AddressInv, WatchInv, RecordInv, Waiting
<1>4. AwaitInv /\ NoticeInv
  BY <1>2 DEF AwaitInv, NoticeInv, Waiting
<1>5. NewsIsCarried /\ HeardOnce /\ SaidIsNoNews /\ NeverLost
  BY DEF NewsIsCarried, HeardOnce, SaidIsNoNews, NeverLost
<1> QED BY <1>1, <1>3, <1>4, <1>5 DEF IInv

THEOREM Invariant == Spec => []IInv
<1>1. Init => IInv
  BY InitInv
<1>2. IInv /\ [Next]_vars => IInv'
  BY TypeStep, AddressStep, WatchStep, RecordStep, AwaitStep, NoticeStep, CarryStep,
     HeardStep, SaidStep, LostStep DEF IInv
<1> QED BY <1>1, <1>2, PTL DEF Spec

(* Every variable keeps its type.                                          *)
THEOREM TypeCorrect == Spec => []TypeOK
<1>1. IInv => TypeOK
  BY DEF IInv
<1> QED BY <1>1, Invariant, PTL

(* News is never left with nobody to carry it.                             *)
THEOREM Carried == Spec => []NewsIsCarried
<1>1. IInv => NewsIsCarried
  BY DEF IInv
<1> QED BY <1>1, Invariant, PTL

(* Home is sent no notice twice.                                           *)
THEOREM SentOnce == Spec => []HeardOnce
<1>1. IInv => HeardOnce
  BY DEF IInv
<1> QED BY <1>1, Invariant, PTL

(* A reply a tool call took is never a notice too.                         *)
THEOREM InPerson == Spec => []TakenIsNoNews
<1>1. IInv => TakenIsNoNews
  BY DEF IInv, AwaitInv, TakenIsNoNews
<1> QED BY <1>1, Invariant, PTL

(* The end of a turn Home stopped is never a notice.                       *)
THEOREM Silenced == Spec => []StoppedIsSilent
<1>1. IInv => StoppedIsSilent
  BY DEF IInv, TypeOK, NoticeInv, StoppedIsSilent
<1> QED BY <1>1, Invariant, PTL

(* A call that gives up either leaves its delegation on record or takes    *)
(* the reply.                                                              *)
THEOREM ReplyFound == Spec => []NeverLost
<1>1. IInv => NeverLost
  BY DEF IInv
<1> QED BY <1>1, Invariant, PTL

-----------------------------------------------------------------------------
(* Handles.                                                                *)


\* What a handle says: a number, and the conversation it names.
Pair(e) == [n |-> e.n, conv |-> e.conv]
\* Where a pane is once its conversation has had a name.
Bound == {"named", "shut"}

\* No two handles of a book, or of a form, have one number, and none is above its own.
Numbered(b) ==
    /\ IsFiniteSet(b.named)
    /\ \A e \in b.named : e.n \in 1 .. b.next
    /\ \A e, g \in b.named : e.n = g.n => e = g

\* A form has what is bound, to conversations that had their names.
FormOK(f, p) ==
    /\ f \in Form /\ Numbered(f)
    /\ \A e \in f.named : e.session = NoSession /\ p[e.conv] \in Bound

\* A handle in memory is bound, or is that of a session there has been.
BookOK(h, p, o) ==
    /\ h \in Book /\ Numbered(h)
    /\ \A e \in h.named :
          e.session \in 0 .. o[e.conv] /\ (e.session = NoSession => p[e.conv] \in Bound)

\* All of a form is in a book, or in another form.
Within(f, b) == f.named \subseteq b.named /\ f.next <= b.next

\* What a thread may have to do once its save is done, or its load.  What it is about to
\* say is in memory, unless a crossing load has taken it away.
ThenOK(x, h, o, k) ==
    /\ x.at \in {"idle", "look", "say"}
    /\ x.at = "idle" => x = Idle
    /\ x.at = "look" => x.conv \in Conversations /\ x.session \in 1 .. o[x.conv]
    /\ x.at = "say" =>
          /\ x.n \in Nat /\ x.conv \in Conversations
          /\ k \/ \E e \in h.named : e.n = x.n /\ e.conv = x.conv

\* What a caller that loads has gathered so far.
LoadOK(x, p, o) ==
    /\ x.at \in Loading /\ x.known \in BOOLEAN
    /\ x.next.at \in {"idle", "look"} /\ ThenOK(x.next, NoHandles, o, TRUE)
    /\ x.at \in {"floor", "install"} => x.saved = NoHandles \/ FormOK(x.saved, p)
    /\ x.at = "install" => x.floor \in Nat

\* What a thread is about, and, unless a load has crossed it, what it holds of Home's
\* handles is still there.
ThreadOK(x, h, p, o, k) ==
    /\ x.at \in {"idle", "look", "mint", "say", "form", "write", "bind"} \cup Loading
    /\ x.at \in {"idle", "look", "say"} => ThenOK(x, h, o, k)
    /\ x.at = "mint" =>
          /\ x.conv \in Conversations /\ x.session \in 1 .. o[x.conv] /\ x.known \in BOOLEAN
          /\ x.known => p[x.conv] \in Bound
    /\ x.at \in {"form", "write"} => ThenOK(x.next, h, o, k)
    /\ x.at = "write" =>
          FormOK(x.form, p) /\ (k \/ Within(x.form, h))
    /\ x.at \in Loading => LoadOK(x, p, o)
    /\ x.at \notin {"idle", "bind"} \cup Loading => h # NoHandles

\* The reader of a session binds, and saves what it has bound.
HolderOK(x) == x.at = "bind" \/ (x.at \in {"form", "write"} /\ x.next = Idle)

\* A conversation without a name has been held by one session at most.
PaneShape ==
    /\ homeNamed \in BOOLEAN
    /\ pane \in [Conversations -> {"never", "unnamed", "named", "shut", "lost"}]
    /\ opens \in [Conversations -> 0 .. MaxOpens]
    /\ \A c \in Conversations :
          /\ pane[c] = "never" <=> opens[c] = 0
          /\ pane[c] \in {"unnamed", "lost"} => opens[c] = 1

\* What is in memory, in the file and on its way there is well formed; only a Home that
\* has been named saves, and a form adrift is of the past once Home has handles again.
BookShape ==
    /\ handles # NoHandles => BookOK(handles, pane, opens) /\ (handles.home => homeNamed)
    /\ file # NoHandles =>
          /\ homeNamed /\ FormOK(file, pane)
          /\ \A e \in file.named : Cardinality({f \in file.named : f.n > e.n}) < MaxKept
    /\ \A a \in adrift :
          /\ a \in [form : Form, past : BOOLEAN] /\ FormOK(a.form, pane) /\ homeNamed
          /\ ~a.past => handles = NoHandles
    /\ \A p \in said : p \in [n : Nat, conv : Conversations]

\* Each thread is where it can be; those of sessions only bind and save.
ThreadShape ==
    /\ thread = [t \in Threads |-> thread[t]]
    /\ \A t \in Threads :
          /\ ThreadOK(thread[t], handles, pane, opens, crossed)
          /\ thread[t].at = "write" => homeNamed
    /\ \A t \in Callers : thread[t].at # "bind"
    /\ \A s \in Holders : thread[s] # Idle => HolderOK(thread[s]) /\ pane[s[1]] \in Bound

\* What has been said, and what may yet be said of it or be read back as saved.
Claims(spoken, h, f, d) ==
    spoken \cup {Pair(e) : e \in (IF h = NoHandles THEN {} ELSE h.named)
                               \cup (IF f = NoHandles THEN {} ELSE f.named)
                               \cup UNION {a.form.named : a \in {b \in d : ~b.past}}}
Claimed == Claims(said, handles, file, adrift)

\* As long as the numbering started past what had been said, and no old form came late, a
\* number is claimed by one conversation.
NumberInv ==
    ~crossed /\ ~cut /\ ~late =>
        /\ \A p, q \in Claimed : p.n = q.n => p.conv = q.conv
        /\ handles # NoHandles => \A p \in Claimed : p.n <= handles.next

Listed(p, b) == \E e \in b.named : Pair(e) = p

\* As long as the file follows memory and nothing was lost, what has been said is in
\* memory, or in the file if nothing is in memory, with all that is on its way there.
FileInv ==
    ~crossed /\ ~behind /\ ~lost =>
        /\ handles # NoHandles =>
              /\ \A p \in said : Listed(p, handles)
              /\ file # NoHandles => Within(file, handles)
              /\ \A a \in adrift : Within(a.form, handles)
        /\ handles = NoHandles /\ file # NoHandles =>
              /\ \A p \in said : Listed(p, file)
              /\ \A a \in adrift : Within(a.form, file)
        /\ handles = NoHandles /\ file = NoHandles =>
              said = {} /\ \A a \in adrift : a.form.next = 0

\* A handle that is not bound is that of a session that has not been named, or that
\* is just being bound.
ToBind(e) ==
    \/ pane[e.conv] \in {"unnamed", "lost"} /\ opens[e.conv] = e.session
    \/ thread[<<e.conv, e.session>>].at = "bind"

\* No conversation has two handles.
OneEach(b) == \A e, g \in b.named : e.conv = g.conv => e = g

\* As long as nothing was missed either, no conversation has two handles, in memory or
\* in the file, and each that is not bound is to be.
NameInv ==
    ~crossed /\ ~behind /\ ~lost /\ ~missed =>
        /\ handles # NoHandles =>
              OneEach(handles) /\ \A e \in handles.named : e.session # NoSession => ToBind(e)
        /\ handles = NoHandles /\ file # NoHandles => OneEach(file)

\* What is bound is in the file, or is about to be.
SavedInv ==
    ~behind /\ ~trimmed /\ handles # NoHandles /\ handles.home =>
        \A e \in handles.named : e.session = NoSession =>
            \/ file # NoHandles /\ e \in file.named
            \/ \E t \in Threads : thread[t].at = "form"
            \/ \E t \in Threads : thread[t].at = "write" /\ e \in thread[t].form.named

\* What a caller has loaded is what the file had, and has unless a mishap is on record; it
\* goes with what has been said as long as nobody has handles.
LoadedOK(x) ==
    /\ \A a \in adrift : a.past
    /\ x.saved # NoHandles /\ ~behind /\ ~trimmed =>
          file # NoHandles /\ x.saved.named \subseteq file.named
    /\ handles = NoHandles =>
          /\ ~late => file = NoHandles \/ file = x.saved
          /\ ~crossed /\ ~cut /\ ~late /\ x.saved # NoHandles =>
                \A p \in Claimed, e \in x.saved.named : p.n = e.n => p.conv = e.conv
          /\ ~crossed /\ ~behind /\ ~lost =>
                \/ x.saved = file
                \/ /\ x.saved = NoHandles /\ file # NoHandles
                   /\ file.next = 0 /\ file.named = {}
          /\ x.at = "install" /\ ~cut => \A n \in Said : n <= x.floor

\* Home has been named if it has been resumed, and until then nothing is said or saved
\* before there are handles; a caller that loads nothing looked before Home was named.
LoadInv ==
    /\ homes \in Nat /\ (homes # 0 => homeNamed) /\ crossed \in BOOLEAN
    /\ homes = 0 => adrift = {} /\ (handles = NoHandles => file = NoHandles /\ said = {})
    /\ \A t \in Callers :
          /\ thread[t].at \in Loading =>
                (thread[t].known => homeNamed) /\ (~thread[t].known => homes = 0)
          /\ thread[t].at \in {"floor", "install"} => LoadedOK(thread[t])

\* The inductive invariant of Handles.
HandlesInv ==
    /\ PaneShape /\ BookShape /\ ThreadShape /\ NumberInv /\ FileInv /\ NameInv
    /\ SavedInv /\ LoadInv

-----------------------------------------------------------------------------
\* A set of naturals has a least member.
LEMMA Lowest ==
    ASSUME NEW T, T \subseteq Nat, T # {}
    PROVE  \E m \in T : \A k \in T : m <= k
<1>1. IsWellFoundedOn(OpToRel(<, Nat), Nat)
  BY NatLessThanWellFounded
<1>2. PICK x \in T : \A y \in T : ~(<<y, x>> \in OpToRel(<, Nat))
  BY <1>1, WFMin
<1>3. \A y \in T : ~(y < x)
  BY <1>2 DEF OpToRel
<1> QED BY <1>3

\* The first of the handles found is one of them.
LEMMA FirstFound ==
    ASSUME NEW found \in SUBSET Handle, found # {}
    PROVE  First(found) \in found
<1>1. {e.n : e \in found} \subseteq Nat /\ {e.n : e \in found} # {}
  BY DEF Handle
<1>2. PICK m \in {e.n : e \in found} : \A k \in {e.n : e \in found} : m <= k
  BY <1>1, Lowest
<1>3. \E e \in found : \A f \in found : e.n <= f.n
  BY <1>2
<1> QED BY <1>3 DEF First

\* Binding changes no number and no conversation.
LEMMA BindingFacts ==
    ASSUME NEW named \in SUBSET Handle, NEW mine \in SUBSET named
    PROVE  LET bound == Binding(named, mine)
           IN  /\ bound \in SUBSET Handle
               /\ \A e \in bound : \E o \in named :
                     Pair(e) = Pair(o) /\ (e = o \/ (o \in mine /\ e.session = NoSession))
               /\ \A o \in named : \E e \in bound : Pair(e) = Pair(o)
               /\ \A o \in named : o \notin mine \/ o.session = NoSession => o \in bound
               /\ \A e \in bound : e \in named \ mine \/ e.session = NoSession
               /\ IsFiniteSet(named) => IsFiniteSet(bound)
<1> DEFINE Freed(e) == [e EXCEPT !.session = NoSession]
           bound == Binding(named, mine)
<1>1. \A e \in named : /\ Freed(e) \in Handle /\ Freed(e).session = NoSession
                       /\ Freed(e).n = e.n /\ Freed(e).conv = e.conv
                       /\ e.session = NoSession => Freed(e) = e
  BY DEF Handle, NoSession
<1>2. bound = (named \ mine) \cup {Freed(e) : e \in mine}
  BY DEF Binding
<1>3. IsFiniteSet(named) => IsFiniteSet(bound)
  <2>1. SUFFICES ASSUME IsFiniteSet(named) PROVE IsFiniteSet(bound)
    OBVIOUS
  <2>2. IsFiniteSet(named \ mine) /\ IsFiniteSet(mine)
    BY <2>1, FS_Subset
  <2> DEFINE T == {Freed(e) : e \in mine}
             f == [e \in mine |-> Freed(e)]
  <2>3. f \in Surjection(mine, T)
    BY DEF Surjection
  <2> HIDE DEF f
  <2>4. IsFiniteSet(T)
    BY <2>2, <2>3, FS_Surjection
  <2>5. IsFiniteSet((named \ mine) \cup T)
    BY <2>2, <2>4, FS_Union
  <2> QED BY <1>2, <2>5
<1> HIDE DEF Freed
<1>4. bound \in SUBSET Handle
  BY <1>1, <1>2
<1>5. \A e \in bound : \E o \in named :
         Pair(e) = Pair(o) /\ (e = o \/ (o \in mine /\ e.session = NoSession))
  BY <1>1, <1>2 DEF Pair
<1>6. \A o \in named : \E e \in bound : Pair(e) = Pair(o)
  BY <1>1, <1>2 DEF Pair
<1>7. \A o \in named : o \notin mine \/ o.session = NoSession => o \in bound
  BY <1>1, <1>2
<1>8. \A e \in bound : e \in named \ mine \/ e.session = NoSession
  BY <1>1, <1>2
<1> QED BY <1>3, <1>4, <1>5, <1>6, <1>7, <1>8

\* What the file keeps of a form is a form, with so many handles at most.
LEMMA KeptFacts ==
    ASSUME NEW f, NEW p, FormOK(f, p)
    PROVE  /\ FormOK(Kept(f), p) /\ Kept(f).named \subseteq f.named /\ Kept(f).next = f.next
           /\ \A e \in Kept(f).named : Cardinality({g \in Kept(f).named : g.n > e.n}) < MaxKept
           /\ Kept(f) = f \/ \E e \in f.named : ~(Cardinality({g \in f.named : g.n > e.n}) < MaxKept)
<1> DEFINE Above(S, e) == {g \in S : g.n > e.n}
           K == {e \in f.named : Cardinality(Above(f.named, e)) < MaxKept}
<1>1. f \in Form /\ IsFiniteSet(f.named)
  BY DEF FormOK, Numbered
<1>2. Kept(f) = [f EXCEPT !.named = K]
  BY DEF Kept
<1>3. Kept(f) \in Form /\ Kept(f).named = K /\ Kept(f).next = f.next /\ K \subseteq f.named
  BY <1>1, <1>2 DEF Form
<1>4. IsFiniteSet(K)
  BY <1>1, <1>3, FS_Subset
<1>5. FormOK(Kept(f), p)
  BY <1>3, <1>4 DEF FormOK, Numbered
<1>6. ASSUME NEW e \in K
      PROVE  Cardinality(Above(K, e)) < MaxKept
  <2>1. Above(K, e) \subseteq Above(f.named, e) /\ Above(f.named, e) \subseteq f.named
    BY <1>3
  <2>2. IsFiniteSet(Above(f.named, e))
    BY <1>1, <2>1, FS_Subset
  <2>3. /\ Cardinality(Above(K, e)) <= Cardinality(Above(f.named, e))
        /\ Cardinality(Above(K, e)) \in Nat /\ Cardinality(Above(f.named, e)) \in Nat
    BY <2>1, <2>2, FS_Subset, FS_CardinalityType
  <2>4. Cardinality(Above(f.named, e)) < MaxKept
    BY <1>6
  <2> QED BY <2>3, <2>4, HandlesAssumption
<1>7. ASSUME \A e \in f.named : Cardinality(Above(f.named, e)) < MaxKept
      PROVE  Kept(f) = f
  <2>1. K = f.named
    BY <1>7
  <2> HIDE DEF K
  <2> QED BY <1>1, <1>2, <2>1 DEF Form
<1> QED BY <1>3, <1>5, <1>6, <1>7

\* A file of which none has more than so many above it has so many at most.
LEMMA FewKept ==
    ASSUME NEW f, NEW p, FormOK(f, p), \A e \in f.named : Cardinality({g \in f.named : g.n > e.n}) < MaxKept
    PROVE  Cardinality(f.named) <= MaxKept
<1>1. /\ f \in Form /\ IsFiniteSet(f.named) /\ f.named \subseteq Handle
      /\ \A e, g \in f.named : e.n = g.n => e = g
  BY DEF FormOK, Numbered, Form
<1>2. CASE f.named = {}
  BY <1>2, FS_EmptySet, HandlesAssumption
<1>3. CASE f.named # {}
  <2> DEFINE e == First(f.named)
             A == {g \in f.named : g.n > e.n}
  <2>1. e \in f.named
    BY <1>1, <1>3, FirstFound
  <2>2. \A g \in f.named : e.n <= g.n
    <3>1. {x.n : x \in f.named} \subseteq Nat /\ {x.n : x \in f.named} # {}
      BY <1>1, <1>3 DEF Handle
    <3>2. PICK m \in {x.n : x \in f.named} : \A k \in {x.n : x \in f.named} : m <= k
      BY <3>1, Lowest
    <3>3. \E x \in f.named : \A g \in f.named : x.n <= g.n
      BY <3>2
    <3> QED BY <3>3 DEF First
  <2> HIDE DEF e
  <2>3. \A g \in f.named : g.n \in Nat
    BY <1>1 DEF Handle
  <2>4. f.named = A \cup {e} /\ e \notin A
    BY <1>1, <2>1, <2>2, <2>3
  <2>5. Cardinality(A) < MaxKept
    BY <2>1
  <2>6. IsFiniteSet(A)
    BY <1>1, FS_Subset
  <2> HIDE DEF A
  <2>7. Cardinality(f.named) = Cardinality(A) + 1 /\ Cardinality(A) \in Nat
    BY <2>4, <2>6, FS_AddElement, FS_CardinalityType
  <2> QED BY <2>5, <2>7, HandlesAssumption
<1> QED BY <1>2, <1>3

-----------------------------------------------------------------------------
\* What every step but Home's going does to what the threads rely on.
Grown(h, p, o, hh, pp, oo) ==
    /\ \A c \in Conversations : o[c] <= oo[c] /\ (p[c] \in Bound => pp[c] \in Bound)
    /\ h # NoHandles =>
          /\ hh # NoHandles /\ h.next <= hh.next
          /\ \A e \in h.named : /\ e.session = NoSession => e \in hh.named
                                /\ \E g \in hh.named : Pair(g) = Pair(e)

\* A form stays well formed as panes get their names.
LEMMA FormGrows ==
    ASSUME NEW f, NEW p, NEW pp, FormOK(f, p), \A c \in Conversations : p[c] \in Bound => pp[c] \in Bound
    PROVE  FormOK(f, pp)
BY DEF FormOK, Form, Handle

\* A thread that does not move stays well placed.
LEMMA ThreadGrows ==
    ASSUME NEW h, NEW p, NEW o \in [Conversations -> 0 .. MaxOpens],
           NEW hh, NEW pp, NEW oo \in [Conversations -> 0 .. MaxOpens],
           h # NoHandles => h.next \in Nat /\ hh.next \in Nat,
           Grown(h, p, o, hh, pp, oo), NEW x, NEW k, NEW kk, k => kk, ThreadOK(x, h, p, o, k)
    PROVE  ThreadOK(x, hh, pp, oo, kk)
<1>1. ASSUME NEW y, ThenOK(y, h, o, k), y.at = "say" => h # NoHandles
      PROVE  ThenOK(y, hh, oo, kk)
  <2>1. ASSUME y.at = "look"
        PROVE  y.conv \in Conversations /\ y.session \in 1 .. oo[y.conv]
    BY <1>1, <2>1, HandlesAssumption DEF ThenOK, Grown
  <2>2. ASSUME y.at = "say", ~k
        PROVE  \E e \in hh.named : e.n = y.n /\ e.conv = y.conv
    <3>1. PICK e \in h.named : e.n = y.n /\ e.conv = y.conv
      BY <1>1, <2>2 DEF ThenOK
    <3>2. PICK g \in hh.named : Pair(g) = Pair(e)
      BY <1>1, <2>2 DEF Grown
    <3>3. g.n = e.n /\ g.conv = e.conv
      BY <3>2 DEF Pair
    <3> QED BY <3>1, <3>3
  <2> QED BY <1>1, <2>1, <2>2 DEF ThenOK
<1>2. x.at \in {"idle", "look", "say"} => ThenOK(x, hh, oo, kk)
  BY <1>1 DEF ThreadOK, Loading
<1>3. x.at \in {"form", "write"} => ThenOK(x.next, hh, oo, kk)
  BY <1>1 DEF ThreadOK, Loading
<1>4. ASSUME x.at = "mint"
      PROVE  /\ x.conv \in Conversations /\ x.session \in 1 .. oo[x.conv] /\ x.known \in BOOLEAN
             /\ x.known => pp[x.conv] \in Bound
  BY <1>4, HandlesAssumption DEF ThreadOK, Grown
<1>5. ASSUME x.at = "write"
      PROVE  FormOK(x.form, pp) /\ (kk \/ Within(x.form, hh))
  <2>1. /\ FormOK(x.form, p) /\ (k \/ Within(x.form, h))
        /\ h # NoHandles /\ h.next <= hh.next /\ x.form.next \in Nat
        /\ \A e \in x.form.named : e.session = NoSession
    BY <1>5 DEF ThreadOK, Grown, FormOK, Form, Loading
  <2>2. FormOK(x.form, pp)
    BY <2>1, FormGrows DEF Grown
  <2>3. Within(x.form, h) => Within(x.form, hh)
    BY <2>1 DEF Grown, Within
  <2> QED BY <2>1, <2>2, <2>3
<1>6. ASSUME x.at \in Loading
      PROVE  LoadOK(x, pp, oo)
  <2>1. /\ LoadOK(x, p, o) /\ x.next.at \in {"idle", "look"} /\ ThenOK(x.next, NoHandles, o, TRUE)
    BY <1>6 DEF ThreadOK, LoadOK
  <2>2. ThenOK(x.next, NoHandles, oo, TRUE)
    BY <2>1, HandlesAssumption DEF ThenOK, Grown
  <2>3. x.saved # NoHandles /\ FormOK(x.saved, p) => FormOK(x.saved, pp)
    BY FormGrows DEF Grown
  <2> QED BY <2>1, <2>2, <2>3 DEF LoadOK
<1> QED BY <1>2, <1>3, <1>4, <1>5, <1>6 DEF ThreadOK, Grown, Loading

\* What a claim is.
LEMMA ClaimsFacts ==
    ASSUME NEW s, NEW h, NEW f, NEW d
    PROVE  \A p : p \in Claims(s, h, f, d) <=>
               \/ p \in s
               \/ h # NoHandles /\ \E e \in h.named : p = Pair(e)
               \/ f # NoHandles /\ \E e \in f.named : p = Pair(e)
               \/ \E a \in d : ~a.past /\ \E e \in a.form.named : p = Pair(e)
BY DEF Claims

\* A book that says no more than another makes no more claims.
LEMMA ClaimsRead ==
    ASSUME NEW s, NEW h, NEW f, NEW d, NEW b, h # NoHandles, b # NoHandles,
           \A e \in b.named : \E g \in h.named : Pair(e) = Pair(g)
    PROVE  \A q : q \in Claims(s, b, f, d) => q \in Claims(s, h, f, d)
BY ClaimsFacts

\* Beyond what another book claims, a book claims what it says itself.
LEMMA ClaimsMinted ==
    ASSUME NEW s, NEW h, NEW f, NEW d, NEW b, NEW q \in Claims(s, b, f, d)
    PROVE  q \in Claims(s, h, f, d) \/ \E g \in b.named : q = Pair(g)
BY ClaimsFacts

\* The threads do what they did, but for one of them.
LEMMA ThreadMoves ==
    ASSUME PaneShape, PaneShape', BookShape, BookShape', ThreadShape,
           homeNamed => homeNamed', Grown(handles, pane, opens, handles', pane', opens'),
           crossed => crossed', NEW t \in Threads, NEW y, thread' = [thread EXCEPT ![t] = y],
           ThreadOK(y, handles', pane', opens', crossed'), y.at = "write" => homeNamed',
           t \in Callers => y.at # "bind",
           t \in Holders /\ y # Idle => HolderOK(y) /\ pane'[t[1]] \in Bound
    PROVE  ThreadShape'
<1>1. /\ thread' = [u \in Threads |-> thread'[u]] /\ thread'[t] = y
      /\ \A u \in Threads \ {t} : thread'[u] = thread[u]
  BY DEF ThreadShape
<1>2. handles # NoHandles => handles.next \in Nat /\ handles'.next \in Nat
  BY DEF BookShape, BookOK, Book, Grown
<1>3. \A u \in Threads : ThreadOK(thread'[u], handles', pane', opens', crossed')
  <2>1. ASSUME NEW u \in Threads \ {t}
        PROVE  ThreadOK(thread[u], handles', pane', opens', crossed')
    BY <1>2, ThreadGrows DEF ThreadShape, PaneShape
  <2> QED BY <1>1, <2>1
<1>4. \A u \in Threads : thread'[u].at = "write" => homeNamed'
  BY <1>1 DEF ThreadShape
<1>5. \A u \in Callers : thread'[u].at # "bind"
  BY <1>1 DEF ThreadShape, Threads
<1>6. \A s \in Holders : thread'[s] # Idle => HolderOK(thread'[s]) /\ pane'[s[1]] \in Bound
  <2>1. \A s \in Holders : s[1] \in Conversations /\ s \in Threads
    BY DEF Holders, Threads
  <2> QED BY <1>1, <2>1 DEF ThreadShape, Grown
<1> QED BY <1>1, <1>3, <1>4, <1>5, <1>6 DEF ThreadShape

\* No thread moves.
LEMMA ThreadsStay ==
    ASSUME PaneShape, PaneShape', BookShape, BookShape', ThreadShape,
           homeNamed => homeNamed', Grown(handles, pane, opens, handles', pane', opens'),
           crossed => crossed', thread' = thread
    PROVE  ThreadShape'
<1> PICK y : y = thread[Tool]
  OBVIOUS
<1>1. Tool \in Threads /\ Tool \in Callers /\ thread' = [thread EXCEPT ![Tool] = y]
  BY DEF ThreadShape, Threads, Callers
<1>2. handles # NoHandles => handles.next \in Nat /\ handles'.next \in Nat
  BY DEF BookShape, BookOK, Book, Grown
<1>3. ThreadOK(y, handles', pane', opens', crossed')
  BY <1>1, <1>2, ThreadGrows DEF ThreadShape, PaneShape
<1>4. /\ y.at = "write" => homeNamed'
      /\ y.at # "bind"
      /\ Tool \notin Holders
  BY <1>1 DEF ThreadShape, Callers, Holders, Tool
<1> QED BY <1>1, <1>3, <1>4, ThreadMoves

\* Nothing new is claimed.
LEMMA NumbersStay ==
    ASSUME BookShape, BookShape', NumberInv, crossed => crossed', cut => cut', late => late',
           ~crossed' /\ ~cut' /\ ~late' => \A p \in Claimed' : p \in Claimed,
           handles' # NoHandles => handles # NoHandles /\ handles.next <= handles'.next
    PROVE  NumberInv'
<1> SUFFICES ASSUME ~crossed', ~cut', ~late' PROVE NumberInv'
  BY DEF NumberInv
<1>1. \A p, q \in Claimed' : p.n = q.n => p.conv = q.conv
  BY DEF NumberInv
<1>2. ASSUME handles' # NoHandles, NEW p \in Claimed'
      PROVE  p.n <= handles'.next
  <2>1. p.n <= handles.next /\ handles.next <= handles'.next
    BY <1>2 DEF NumberInv
  <2>2. handles.next \in Nat /\ handles'.next \in Nat
    BY <1>2 DEF BookShape, BookOK, Book
  <2>3. p.n \in Nat
    <3>1. p \in Claims(said, handles, file, adrift)
      BY <1>2 DEF Claimed
    <3> QED BY <3>1, ClaimsFacts DEF BookShape, BookOK, Book, FormOK, Form, Handle, Pair
  <2> QED BY <2>1, <2>2, <2>3
<1> QED BY <1>1, <1>2 DEF NumberInv

-----------------------------------------------------------------------------
\* What a caller has loaded stays good while the file does.
LEMMA LoadedStays ==
    ASSUME NEW x, LoadedOK(x), handles' = NoHandles => handles = NoHandles /\ said' = said,
           \A a \in adrift' : a.past, crossed => crossed', cut => cut',
           UNCHANGED <<file, behind, lost, late, trimmed>>
    PROVE  LoadedOK(x)'
<1>1. ASSUME handles' = NoHandles, NEW p \in Claimed'
      PROVE  p \in Claimed
  <2>1. p \in Claims(said, NoHandles, file, adrift')
    BY <1>1 DEF Claimed
  <2>2. p \in Claims(said, NoHandles, file, adrift)
    BY <2>1, ClaimsFacts
  <2> QED BY <1>1, <2>2 DEF Claimed
<1>2. handles' = NoHandles => Said' = Said
  BY DEF Said
<1> QED BY <1>1, <1>2 DEF LoadedOK

\* Callers go on, but for those that load, and the file is as it was.
LEMMA LoadStays ==
    ASSUME LoadInv, homeNamed => homeNamed', homes' = homes, crossed' \in BOOLEAN,
           handles' = NoHandles => handles = NoHandles /\ said' = said,
           \A t \in Callers : thread'[t].at \in Loading =>
              \/ thread'[t] = thread[t]
              \/ /\ thread'[t].at \in {"ensure", "load"}
                 /\ (thread'[t].known => homeNamed') /\ (~thread'[t].known => homes = 0),
           crossed => crossed', UNCHANGED <<file, adrift, behind, cut, lost, late, trimmed>>
    PROVE  LoadInv'
<1>1. ASSUME NEW t \in Callers, thread'[t].at \in {"floor", "install"}
      PROVE  LoadedOK(thread[t])'
  <2> PICK x : x = thread'[t]
    OBVIOUS
  <2>1. x = thread[t]
    BY <1>1 DEF Loading
  <2>2. LoadedOK(x)
    BY <1>1, <2>1 DEF LoadInv
  <2>3. \A a \in adrift' : a.past
    BY <2>2 DEF LoadedOK
  <2>4. LoadedOK(x)'
    BY <2>2, <2>3, LoadedStays
  <2> QED BY <2>4
<1>2. homes' \in Nat /\ (homes' # 0 => homeNamed')
  BY DEF LoadInv
<1>3. homes' = 0 => adrift' = {} /\ (handles' = NoHandles => file' = NoHandles /\ said' = {})
  BY DEF LoadInv
<1>4. ASSUME NEW t \in Callers, thread'[t].at \in Loading
      PROVE  (thread'[t].known => homeNamed') /\ (~thread'[t].known => homes' = 0)
  BY <1>4 DEF LoadInv
<1> QED BY <1>1, <1>2, <1>3, <1>4 DEF LoadInv

\* A thread moves, and loads nothing.
LEMMA LoadMoves ==
    ASSUME LoadInv, ThreadShape, homeNamed => homeNamed', homes' = homes,
           handles' = NoHandles => handles = NoHandles /\ said' = said,
           NEW t \in Threads, NEW y, y.at \notin Loading, thread' = [thread EXCEPT ![t] = y],
           UNCHANGED <<file, adrift, behind, cut, lost, late, crossed, trimmed>>
    PROVE  LoadInv'
<1>1. \A u \in Callers : u \in Threads
  BY DEF Threads
<1>2. \A u \in Callers : thread'[u].at \in Loading => thread'[u] = thread[u]
  BY <1>1 DEF ThreadShape
<1>3. crossed' \in BOOLEAN
  BY DEF LoadInv
<1> QED BY <1>2, <1>3, LoadStays

\* A caller takes a step of its load.
LEMMA StageStep ==
    ASSUME HandlesInv, NEW t \in Callers, NEW y, y.at \in Loading, LoadOK(y, pane, opens),
           thread[t].at \notin {"form", "write", "bind"}, thread' = [thread EXCEPT ![t] = y],
           LoadInv', cut => cut', adrift' = adrift \/ adrift' = {[a EXCEPT !.past = TRUE] : a \in adrift},
           UNCHANGED <<homeNamed, pane, opens, handles, file, said, behind, lost, late, crossed,
                       missed, trimmed>>
    PROVE  HandlesInv'
<1>0. PaneShape /\ BookShape /\ ThreadShape /\ NumberInv /\ FileInv /\ NameInv /\ SavedInv
  BY DEF HandlesInv
<1>1. t \in Threads /\ t \notin Holders
  BY DEF Threads, Callers, Holders, Tool, Courier
<1>2. \A a \in adrift' : /\ \E b \in adrift : a.form = b.form /\ (~a.past => ~b.past)
                         /\ a \in [form : Form, past : BOOLEAN]
  <2>1. CASE adrift' = adrift
    BY <1>0, <2>1 DEF BookShape
  <2>2. CASE adrift' = {[a EXCEPT !.past = TRUE] : a \in adrift}
    <3>1. ASSUME NEW b \in adrift
          PROVE  /\ [b EXCEPT !.past = TRUE] \in [form : Form, past : BOOLEAN]
                 /\ [b EXCEPT !.past = TRUE].form = b.form /\ [b EXCEPT !.past = TRUE].past
      BY <1>0 DEF BookShape
    <3> QED BY <2>2, <3>1
  <2> QED BY <2>1, <2>2
<1>3. PaneShape'
  BY <1>0 DEF PaneShape
<1>4. BookShape'
  <2>1. \A a \in adrift' : /\ a \in [form : Form, past : BOOLEAN] /\ FormOK(a.form, pane) /\ homeNamed
                           /\ ~a.past => handles = NoHandles
    BY <1>0, <1>2 DEF BookShape
  <2> QED BY <1>0, <2>1 DEF BookShape
<1>5. Grown(handles, pane, opens, handles', pane', opens')
  <2>1. \A c \in Conversations : opens[c] <= opens[c]
    BY <1>0, HandlesAssumption DEF PaneShape
  <2>2. handles # NoHandles => handles.next <= handles.next
    BY <1>0 DEF BookShape, BookOK, Book
  <2> QED BY <2>1, <2>2 DEF Grown
<1>6. ThreadShape'
  <2>1. ThreadOK(y, handles', pane', opens', crossed') /\ y.at # "write" /\ y.at # "bind"
    BY DEF ThreadOK, Loading
  <2> QED BY <1>0, <1>1, <1>3, <1>4, <1>5, <2>1, ThreadMoves
<1>7. NumberInv'
  <2>1. \A q : q \in Claims(said, handles, file, adrift') => q \in Claims(said, handles, file, adrift)
    BY <1>2, ClaimsFacts
  <2>2. handles # NoHandles => handles.next <= handles.next
    BY <1>5 DEF Grown
  <2> QED BY <1>0, <1>4, <2>1, <2>2, NumbersStay DEF Claimed
<1>8. FileInv'
  BY <1>0, <1>2 DEF FileInv, Listed, Within
<1>9. \A u \in Threads : thread[u].at \in {"bind", "form", "write"} => thread'[u] = thread[u]
  BY <1>0, <1>1 DEF ThreadShape
<1>10. NameInv'
  <2>1. ASSUME NEW e \in handles.named, ToBind(e)
        PROVE  ToBind(e)'
    <3>1. ASSUME NEW u, thread[u].at = "bind"
          PROVE  thread'[u].at = "bind"
      BY <1>0, <1>1, <3>1 DEF ThreadShape
    <3> QED BY <2>1, <3>1 DEF ToBind
  <2> QED BY <1>0, <2>1 DEF NameInv, OneEach
<1>11. SavedInv'
  BY <1>0, <1>9 DEF SavedInv
<1> QED BY <1>3, <1>4, <1>6, <1>7, <1>8, <1>10, <1>11 DEF HandlesInv

\* What a load has gathered makes a book.
LEMMA InstalledOK ==
    ASSUME PaneShape, NEW x, LoadOK(x, pane, opens), x.at = "install",
           NEW b, b = Installed(x.known, x.saved, x.floor)
    PROVE  /\ BookOK(b, pane, opens) /\ b \in Book /\ b # NoHandles /\ b.home = x.known
           /\ b.next \in Nat /\ x.floor \in Nat /\ x.floor <= b.next
           /\ x.saved = NoHandles => b.named = {}
           /\ x.saved # NoHandles =>
                 /\ FormOK(x.saved, pane) /\ x.saved.next \in Nat /\ x.saved.named \in SUBSET Handle
                 /\ b.named = x.saved.named /\ x.saved.next <= b.next
           /\ \A e \in b.named : e.session = NoSession
<1>1. x.known \in BOOLEAN /\ x.floor \in Nat
  BY DEF LoadOK
<1>2. x.saved # NoHandles =>
         FormOK(x.saved, pane) /\ x.saved.next \in Nat /\ x.saved.named \in SUBSET Handle
  BY DEF LoadOK, FormOK, Form
<1>3. /\ b.next = IF x.saved # NoHandles /\ x.saved.next > x.floor THEN x.saved.next ELSE x.floor
      /\ b.named = IF x.saved = NoHandles THEN {} ELSE x.saved.named
      /\ b.home = x.known
  BY DEF Installed
<1>4. b \in Book
  BY <1>1, <1>2 DEF Installed, Book
<1>5. b # NoHandles
  BY <1>4, HandlesAssumption
<1>6. b.next \in Nat /\ x.floor <= b.next /\ (x.saved # NoHandles => x.saved.next <= b.next)
  BY <1>1, <1>2, <1>3
<1>7. BookOK(b, pane, opens)
  <2>1. CASE x.saved = NoHandles
    <3>1. b.named = {} /\ IsFiniteSet({})
      BY <1>3, <2>1, FS_EmptySet
    <3> QED BY <1>4, <3>1 DEF BookOK, Numbered
  <2>2. CASE x.saved # NoHandles
    <3>1. /\ IsFiniteSet(b.named)
          /\ \A e \in b.named : /\ e.n \in 1 .. x.saved.next /\ e.conv \in Conversations
                                /\ e.session = NoSession /\ pane[e.conv] \in Bound
          /\ \A e, g \in b.named : e.n = g.n => e = g
      BY <1>2, <1>3, <2>2 DEF FormOK, Numbered, Handle
    <3>2. \A e \in b.named : e.session \in 0 .. opens[e.conv]
      BY <3>1, HandlesAssumption DEF PaneShape, NoSession
    <3>3. \A e \in b.named : e.n \in 1 .. b.next
      BY <1>2, <1>6, <2>2, <3>1
    <3> QED BY <1>4, <3>1, <3>2, <3>3 DEF BookOK, Numbered
  <2> QED BY <2>1, <2>2
<1>8. \A e \in b.named : e.session = NoSession
  BY <1>2, <1>3 DEF FormOK
<1> QED BY <1>1, <1>2, <1>3, <1>4, <1>5, <1>6, <1>7, <1>8

\* What a load leaves alone, and whose thread goes on.
LEMMA InstallKeeps ==
    ASSUME HandlesInv, NEW t \in Callers, Install(t)
    PROVE  /\ PaneShape' /\ BookShape' /\ ThreadShape' /\ SavedInv' /\ LoadInv'
           /\ handles' = Installed(thread[t].known, thread[t].saved, thread[t].floor)
           /\ LoadOK(thread[t], pane, opens) /\ LoadedOK(thread[t]) /\ thread[t].at = "install"
<1>0. PaneShape /\ BookShape /\ ThreadShape /\ LoadInv
  BY DEF HandlesInv
<1> PICK x : x = thread[t]
  OBVIOUS
<1> PICK b : b = handles'
  OBVIOUS
<1>1. /\ x.at = "install" /\ b = Installed(x.known, x.saved, x.floor)
      /\ thread' = [thread EXCEPT ![t] = x.next]
      /\ UNCHANGED <<homeNamed, pane, opens, file, adrift, said, homes, behind, cut, lost, late,
                     missed, trimmed>>
  BY DEF Install
<1>2. /\ crossed' \in BOOLEAN /\ (crossed => crossed')
      /\ handles # NoHandles /\ <<handles.next, handles.named>> # <<b.next, b.named>> => crossed'
      /\ t \in Threads /\ t \notin Holders
  <2>1. t \in Threads /\ t \notin Holders
    BY DEF Threads, Callers, Holders, Tool, Courier
  <2>2. crossed' = (crossed \/ (handles # NoHandles
                       /\ <<handles.next, handles.named>> # <<b.next, b.named>>))
    BY <1>1 DEF Install
  <2>3. crossed \in BOOLEAN
    BY <1>0 DEF LoadInv
  <2>4. crossed' \in BOOLEAN
    BY <2>2, Zenon
  <2> QED BY <2>1, <2>2, <2>4, Zenon
<1>3. ThreadOK(x, handles, pane, opens, crossed) /\ LoadOK(x, pane, opens) /\ LoadedOK(x)
  BY <1>0, <1>1, <1>2 DEF ThreadShape, ThreadOK, LoadInv, Loading
<1>4. x.known => homeNamed
  BY <1>0, <1>1 DEF LoadInv, Loading
<1>5. /\ BookOK(b, pane, opens) /\ b \in Book /\ b # NoHandles /\ b.home = x.known
      /\ x.saved = NoHandles => b.named = {}
      /\ x.saved # NoHandles => b.named = x.saved.named
  BY <1>0, <1>1, <1>3, InstalledOK
<1>6. PaneShape'
  BY <1>0, <1>1 DEF PaneShape
<1>7. BookShape'
  <2>1. \A a \in adrift : a.past
    BY <1>3 DEF LoadedOK
  <2> QED BY <1>0, <1>1, <1>4, <1>5, <2>1 DEF BookShape
<1>8. /\ x.next.at \in {"idle", "look"} /\ \A h, k : ThenOK(x.next, h, opens, k)
  BY <1>3 DEF LoadOK, ThenOK
<1>9. thread'[t] = x.next /\ \A u \in Threads \ {t} : thread'[u] = thread[u]
  BY <1>0, <1>1, <1>2 DEF ThreadShape
<1>10. ThreadShape'
  <2>1. \A u \in Threads : ThreadOK(thread'[u], b, pane, opens, crossed')
    <3>1. ThreadOK(x.next, b, pane, opens, crossed')
      BY <1>5, <1>8 DEF ThreadOK, Loading
    <3>2. ASSUME NEW u \in Threads \ {t}
          PROVE  ThreadOK(thread[u], b, pane, opens, crossed')
      <4>1. CASE crossed' \/ handles = NoHandles
        <5> PICK z : z = thread[u]
          OBVIOUS
        <5> PICK k : k = crossed'
          OBVIOUS
        <5>1. ThreadOK(z, handles, pane, opens, crossed)
          BY <1>0 DEF ThreadShape
        <5>2. CASE handles = NoHandles
          BY <1>5, <5>1, <5>2 DEF ThreadOK, ThenOK, Loading
        <5>3. CASE k
          BY <1>5, <5>1, <5>3 DEF ThreadOK, ThenOK
        <5> QED BY <4>1, <5>2, <5>3
      <4>2. CASE ~crossed' /\ handles # NoHandles
        <5>1. handles.next = b.next /\ handles.named = b.named
          BY <1>2, <4>2
        <5>2. ThreadOK(thread[u], handles, pane, opens, crossed)
          BY <1>0 DEF ThreadShape
        <5>3. Grown(handles, pane, opens, b, pane, opens)
          <6>1. \A c \in Conversations : opens[c] <= opens[c]
            BY <1>0, HandlesAssumption DEF PaneShape
          <6>2. handles.next \in Nat
            BY <1>0, <4>2 DEF BookShape, BookOK, Book
          <6> QED BY <1>5, <5>1, <6>1, <6>2 DEF Grown
        <5>4. handles.next \in Nat /\ b.next \in Nat /\ opens \in [Conversations -> 0 .. MaxOpens]
          BY <1>0, <1>5, <4>2 DEF BookShape, BookOK, Book, PaneShape
        <5> QED BY <1>2, <5>2, <5>3, <5>4, ThreadGrows
      <4> QED BY <1>2, <4>1, <4>2
    <3> QED BY <1>9, <3>1, <3>2
  <2>2. thread' = [u \in Threads |-> thread'[u]]
    BY <1>0, <1>1 DEF ThreadShape
  <2>3. \A u \in Threads : thread'[u].at = "write" => homeNamed
    BY <1>0, <1>8, <1>9 DEF ThreadShape
  <2>4. \A u \in Callers : thread'[u].at # "bind"
    BY <1>0, <1>8, <1>9 DEF ThreadShape, Threads
  <2>5. \A s \in Holders : thread'[s] # Idle => HolderOK(thread'[s]) /\ pane[s[1]] \in Bound
    BY <1>0, <1>2, <1>9 DEF ThreadShape, Threads
  <2> QED BY <1>1, <2>1, <2>2, <2>3, <2>4, <2>5 DEF ThreadShape
<1>11. SavedInv'
  BY <1>1, <1>3, <1>5 DEF SavedInv, LoadedOK
<1>12. LoadInv'
  <2>1. \A u \in Callers : u \in Threads
    BY DEF Threads
  <2>2. \A u \in Callers : thread'[u].at \in Loading => thread'[u] = thread[u]
    BY <1>8, <1>9, <2>1 DEF Loading
  <2>3. handles' # NoHandles
    BY <1>5
  <2> QED BY <1>0, <1>1, <1>2, <2>2, <2>3, LoadStays
<1> QED BY <1>1, <1>3, <1>6, <1>7, <1>10, <1>11, <1>12

\* What is read back: what the file had, numbered past what the transcript mentions; over
\* what another caller has installed, it is the same, or the crossing is on record.
LEMMA InstallStep ==
    ASSUME HandlesInv, NEW t \in Callers, Install(t)
    PROVE  HandlesInv'
<1>0. PaneShape /\ BookShape /\ NumberInv /\ FileInv /\ NameInv
  BY DEF HandlesInv
<1> PICK x : x = thread[t]
  OBVIOUS
<1> PICK b : b = handles'
  OBVIOUS
<1>1. /\ PaneShape' /\ BookShape' /\ ThreadShape' /\ SavedInv' /\ LoadInv'
      /\ b = Installed(x.known, x.saved, x.floor)
      /\ LoadOK(x, pane, opens) /\ LoadedOK(x) /\ x.at = "install"
  BY InstallKeeps
<1>2. UNCHANGED <<homeNamed, pane, opens, file, adrift, said, behind, cut, lost, late, missed>>
  BY DEF Install
<1>3. /\ BookOK(b, pane, opens) /\ b # NoHandles /\ b.next \in Nat
      /\ x.floor \in Nat /\ x.floor <= b.next
      /\ x.saved = NoHandles => b.named = {}
      /\ x.saved # NoHandles =>
            /\ FormOK(x.saved, pane) /\ x.saved.next \in Nat
            /\ b.named = x.saved.named /\ x.saved.next <= b.next
      /\ \A e \in b.named : e.session = NoSession
  BY <1>0, <1>1, InstalledOK
<1>4. CASE crossed'
  BY <1>1, <1>4 DEF HandlesInv, NumberInv, FileInv, NameInv
<1>5. ASSUME ~crossed'
      PROVE  /\ ~crossed
             /\ handles # NoHandles => handles.next = b.next /\ handles.named = b.named
  BY <1>5 DEF Install
<1>6. CASE ~crossed' /\ handles # NoHandles
  <2>1. handles.next = b.next /\ handles.named = b.named /\ ~crossed
    BY <1>5, <1>6
  <2>2. NumberInv'
    <3>1. \A p : p \in Claims(said, b, file, adrift) => p \in Claims(said, handles, file, adrift)
      BY <1>3, <1>6, <2>1, ClaimsFacts
    <3>2. handles.next <= b.next
      BY <1>3, <2>1
    <3> QED BY <1>0, <1>1, <1>2, <1>6, <2>1, <3>1, <3>2, NumbersStay DEF Claimed
  <2>3. FileInv'
    BY <1>0, <1>2, <1>3, <1>6, <2>1 DEF FileInv, Within, Listed
  <2>4. NameInv'
    BY <1>0, <1>2, <1>3, <1>6, <2>1 DEF NameInv, OneEach
  <2> QED BY <1>1, <2>2, <2>3, <2>4 DEF HandlesInv
<1>7. CASE ~crossed' /\ handles = NoHandles
  <2>0. ~crossed
    BY <1>5, <1>7
  <2>1. NumberInv'
    <3> SUFFICES ASSUME ~cut, ~late PROVE NumberInv'
      BY <1>2 DEF NumberInv
    <3>1. /\ file = NoHandles \/ file = x.saved
          /\ x.saved # NoHandles => \A p \in Claimed, e \in x.saved.named : p.n = e.n => p.conv = e.conv
          /\ \A n \in Said : n <= x.floor
          /\ \A a \in adrift : a.past
      BY <1>1, <1>7, <2>0 DEF LoadedOK
    <3>2. ASSUME NEW p \in Claimed'
          PROVE  /\ p \in said \/ \E e \in b.named : p = Pair(e)
                 /\ p.n <= b.next
      <4>1. p \in Claims(said, b, file, adrift)
        BY <1>2, <3>2 DEF Claimed
      <4>2. p \in said \/ \E e \in b.named : p = Pair(e)
        BY <1>3, <3>1, <4>1, ClaimsFacts
      <4>3. CASE p \in said
        <5>1. p.n \in Said /\ p.n \in Nat
          BY <1>0, <4>3 DEF Said, BookShape
        <5> QED BY <1>3, <3>1, <4>3, <5>1
      <4>4. CASE \E e \in b.named : p = Pair(e)
        BY <1>3, <4>4 DEF BookOK, Numbered, Pair
      <4> QED BY <4>2, <4>3, <4>4
    <3>3. ASSUME NEW p \in said, NEW e \in b.named, p.n = e.n
          PROVE  p.conv = e.conv
      <4>1. p \in Claimed
        BY ClaimsFacts DEF Claimed
      <4> QED BY <1>3, <3>1, <3>3, <4>1
    <3>4. \A p, q \in said : p.n = q.n => p.conv = q.conv
      BY <1>0, <2>0, ClaimsFacts DEF NumberInv, Claimed
    <3>5. \A e, g \in b.named : e.n = g.n => e = g
      BY <1>3 DEF BookOK, Numbered
    <3>6. \A p, q \in Claimed' : p.n = q.n => p.conv = q.conv
      BY <3>2, <3>3, <3>4, <3>5 DEF Pair
    <3> QED BY <3>2, <3>6 DEF NumberInv
  <2>2. FileInv'
    <3> SUFFICES ASSUME ~behind, ~lost PROVE FileInv'
      BY <1>2 DEF FileInv
    <3>1. \/ x.saved = file
          \/ x.saved = NoHandles /\ file # NoHandles /\ file.next = 0 /\ file.named = {}
      BY <1>1, <1>7, <2>0 DEF LoadedOK
    <3>2. \A a \in adrift : FormOK(a.form, pane) /\ a.form.next \in Nat
      BY <1>0 DEF BookShape, FormOK, Form
    <3>3. CASE file = NoHandles
      <4>1. said = {} /\ \A a \in adrift : a.form.next = 0
        BY <1>0, <1>7, <2>0, <3>3 DEF FileInv
      <4>2. \A a \in adrift : Within(a.form, b)
        BY <1>3, <3>2, <4>1 DEF FormOK, Numbered, Within
      <4> QED BY <1>2, <1>3, <3>3, <4>1, <4>2 DEF FileInv
    <3>4. CASE file # NoHandles
      <4>1. /\ \A p \in said : Listed(p, file)
            /\ \A a \in adrift : Within(a.form, file)
        BY <1>0, <1>7, <2>0, <3>4 DEF FileInv
      <4>2. Within(file, b) /\ file.next \in Nat
        BY <1>3, <3>1, <3>4 DEF Within
      <4>3. \A p \in said : Listed(p, b)
        BY <4>1, <4>2 DEF Listed, Within
      <4>4. \A a \in adrift : Within(a.form, b)
        BY <1>3, <3>2, <4>1, <4>2 DEF Within
      <4> QED BY <1>2, <1>3, <3>4, <4>2, <4>3, <4>4 DEF FileInv
    <3> QED BY <3>3, <3>4
  <2>3. NameInv'
    <3> SUFFICES ASSUME ~behind, ~lost, ~missed PROVE OneEach(b)
      BY <1>2, <1>3 DEF NameInv, OneEach
    <3>1. x.saved = file \/ x.saved = NoHandles
      BY <1>1, <1>7, <2>0 DEF LoadedOK
    <3> QED BY <1>0, <1>3, <1>7, <2>0, <3>1 DEF NameInv, OneEach
  <2> QED BY <1>1, <2>1, <2>2, <2>3 DEF HandlesInv
<1> QED BY <1>4, <1>6, <1>7

\* A thread goes on, and the book is the same but for whose it is.
LEMMA QuietStep ==
    ASSUME HandlesInv, handles # NoHandles, handles' \in Book,
           handles'.named = handles.named, handles'.next = handles.next, handles'.home => homeNamed,
           NEW t \in Threads, NEW y, thread' = [thread EXCEPT ![t] = y], thread[t].at # "bind",
           ThreadOK(y, handles', pane, opens, crossed), y.at = "write" => homeNamed, y.at # "bind",
           y.at \notin Loading, t \in Holders => thread[t] # Idle /\ (y = Idle \/ HolderOK(y)), SavedInv',
           UNCHANGED <<homeNamed, pane, opens, file, adrift, said, homes, behind, cut, lost, late,
                       crossed, missed, trimmed>>
    PROVE  HandlesInv'
<1>0. PaneShape /\ BookShape /\ ThreadShape /\ NumberInv /\ FileInv /\ NameInv /\ LoadInv
  BY DEF HandlesInv
<1>1. handles' # NoHandles /\ handles.next \in Nat
  BY <1>0, HandlesAssumption DEF BookShape, BookOK, Book
<1>2. PaneShape'
  BY <1>0 DEF PaneShape
<1>3. BookOK(handles', pane, opens)
  BY <1>0 DEF BookShape, BookOK, Numbered
<1>4. BookShape'
  BY <1>0, <1>1, <1>3 DEF BookShape
<1>5. Grown(handles, pane, opens, handles', pane', opens')
  <2>1. \A c \in Conversations : opens[c] <= opens[c]
    BY <1>0, HandlesAssumption DEF PaneShape
  <2> QED BY <1>1, <2>1 DEF Grown
<1>6. ThreadShape'
  <2>1. t \in Holders /\ y # Idle => HolderOK(y) /\ pane'[t[1]] \in Bound
    BY <1>0 DEF ThreadShape
  <2> QED BY <1>0, <1>2, <1>4, <1>5, <2>1, ThreadMoves
<1>7. NumberInv'
  <2>1. \A p : p \in Claims(said, handles', file, adrift) <=> p \in Claims(said, handles, file, adrift)
    BY <1>1, ClaimsFacts
  <2> QED BY <1>0, <1>1, <1>4, <2>1, NumbersStay DEF Claimed
<1>8. FileInv'
  BY <1>0, <1>1 DEF FileInv, Within, Listed
<1>9. NameInv'
  <2>1. ASSUME NEW e \in handles.named, ToBind(e)
        PROVE  ToBind(e)'
    BY <1>0, <2>1 DEF ToBind, ThreadShape
  <2> QED BY <1>0, <1>1, <2>1 DEF NameInv, OneEach
<1>10. LoadInv'
  BY <1>0, <1>1, LoadMoves
<1> QED BY <1>2, <1>4, <1>6, <1>7, <1>8, <1>9, <1>10 DEF HandlesInv

\* A caller sets out to make sure of the handles.
LEMMA EnsuresStep ==
    ASSUME HandlesInv, NEW t \in Callers, thread[t] = Idle, NEW next, Ensures(t, next),
           next.at \in {"idle", "look"}, ThenOK(next, NoHandles, opens, TRUE),
           UNCHANGED <<homeNamed, pane, opens, handles, file, adrift, said, homes, history>>
    PROVE  HandlesInv'
<1> PICK y : y = [at |-> "ensure", known |-> homeNamed, next |-> next]
  OBVIOUS
<1>0. PaneShape /\ ThreadShape /\ LoadInv
  BY DEF HandlesInv
<1>1. /\ thread' = [thread EXCEPT ![t] = y] /\ thread[t].at \notin {"form", "write", "bind"}
      /\ y.at \in Loading /\ UNCHANGED <<behind, cut, lost, late, crossed, missed, trimmed>>
  BY DEF Ensures, Idle, Loading, history
<1>2. LoadOK(y, pane, opens)
  BY <1>0, <1>1 DEF LoadOK, PaneShape
<1>3. LoadInv'
  <2>1. \A u \in Callers : u \in Threads
    BY DEF Threads
  <2>2. \A u \in Callers : thread'[u] = thread[u] \/ thread'[u] = y
    BY <1>0, <1>1, <2>1 DEF ThreadShape
  <2>3. (y.known => homeNamed) /\ (~y.known => homes = 0) /\ crossed \in BOOLEAN
    BY <1>0 DEF LoadInv
  <2> QED BY <1>0, <1>1, <2>2, <2>3, LoadStays
<1> QED BY <1>1, <1>2, <1>3, StageStep

\* Each step of the registry and of its callers keeps the invariant.
LEMMA ConsultStep ==
    ASSUME HandlesInv, Consult
    PROVE  HandlesInv'
<1>1. Tool \in Callers /\ Idle.at = "idle" /\ ThenOK(Idle, NoHandles, opens, TRUE)
  BY DEF ThenOK, Callers, Idle
<1>2. /\ thread[Tool] = Idle /\ Ensures(Tool, Idle)
      /\ UNCHANGED <<homeNamed, pane, opens, handles, file, adrift, said, homes, history>>
  BY DEF Consult
<1> QED BY <1>1, <1>2, EnsuresStep

LEMMA HandleForStep ==
    ASSUME HandlesInv, NEW t \in Callers, NEW c \in Conversations, HandleFor(t, c)
    PROVE  HandlesInv'
<1> PICK look : look = [at |-> "look", conv |-> c, session |-> opens[c]]
  OBVIOUS
<1>1. /\ thread[t] = Idle /\ Ensures(t, look) /\ pane[c] \in {"unnamed", "named"}
      /\ UNCHANGED <<homeNamed, pane, opens, handles, file, adrift, said, homes, history>>
  BY DEF HandleFor
<1>2. opens[c] \in 1 .. opens[c]
  BY <1>1, HandlesAssumption DEF HandlesInv, PaneShape
<1>3. look.at \in {"idle", "look"} /\ ThenOK(look, NoHandles, opens, TRUE)
  BY <1>2 DEF ThenOK
<1> QED BY <1>1, <1>3, EnsuresStep

\* It finds the handles in memory, or is to load them.
LEMMA EnsureStep ==
    ASSUME HandlesInv, NEW t \in Callers, Ensure(t)
    PROVE  HandlesInv'
<1> PICK call : call = thread[t]
  OBVIOUS
<1>0. PaneShape /\ BookShape /\ ThreadShape /\ SavedInv /\ LoadInv
  BY DEF HandlesInv
<1>1. /\ call.at = "ensure" /\ t \in Threads /\ t \notin Holders
      /\ UNCHANGED <<homeNamed, pane, opens, file, adrift, said, homes,
                     behind, cut, lost, late, crossed, missed, trimmed>>
  BY DEF Ensure, history, Threads, Callers, Holders, Tool, Courier
<1>2. LoadOK(call, pane, opens) /\ (call.known => homeNamed) /\ (~call.known => homes = 0)
  BY <1>0, <1>1 DEF ThreadShape, ThreadOK, LoadInv, Loading
<1>3. CASE handles = NoHandles
  <2> PICK y : y = [at |-> "load", known |-> call.known, next |-> call.next]
    OBVIOUS
  <2>1. thread' = [thread EXCEPT ![t] = y] /\ handles' = handles /\ y.at = "load"
    BY <1>3 DEF Ensure
  <2>2. LoadOK(y, pane, opens) /\ y.at \in Loading /\ thread[t].at \notin {"form", "write", "bind"}
    BY <1>1, <1>2, <2>1 DEF LoadOK, Loading
  <2>3. LoadInv'
    <3>1. \A u \in Callers : u \in Threads
      BY DEF Threads
    <3>2. \A u \in Callers : thread'[u] = thread[u] \/ thread'[u] = y
      BY <1>0, <2>1, <3>1 DEF ThreadShape
    <3>3. (y.known => homeNamed) /\ (~y.known => homes = 0) /\ crossed \in BOOLEAN
      BY <1>0, <1>2 DEF LoadInv
    <3> QED BY <1>0, <1>1, <2>1, <3>2, <3>3, LoadStays
  <2> QED BY <1>1, <2>1, <2>2, <2>3, StageStep
<1>4. CASE handles # NoHandles
  <2> PICK y : y = IF call.known /\ ~handles.home THEN [at |-> "form", next |-> call.next]
                   ELSE call.next
    OBVIOUS
  <2>1. handles' = [handles EXCEPT !.home = @ \/ call.known] /\ thread' = [thread EXCEPT ![t] = y]
    BY <1>4 DEF Ensure
  <2>2. /\ handles' \in Book /\ handles'.named = handles.named /\ handles'.next = handles.next
        /\ (handles'.home <=> handles.home \/ call.known) /\ handles' # NoHandles
        /\ (handles'.home => homeNamed)
    <3>1. handles \in Book /\ (handles.home => homeNamed) /\ call.known \in BOOLEAN
      BY <1>0, <1>2, <1>4 DEF BookShape, BookOK, LoadOK
    <3>2. handles' \in Book
      BY <2>1, <3>1 DEF Book
    <3> QED BY <1>2, <2>1, <3>1, <3>2, HandlesAssumption DEF Book
  <2>3. y.at \in {"idle", "look", "form"} /\ (call.known /\ ~handles.home => y.at = "form")
    BY <1>2 DEF LoadOK
  <2>4. ThreadOK(y, handles', pane, opens, crossed)
    <3>1. \A h, k : ThenOK(call.next, h, opens, k)
      BY <1>2 DEF LoadOK, ThenOK
    <3>2. \/ y.at = "form" /\ y.next = call.next
          \/ y.at \in {"idle", "look"} /\ y = call.next
      BY <1>2 DEF LoadOK
    <3> QED BY <2>2, <3>1, <3>2 DEF ThreadOK, Loading
  <2>5. thread'[t] = y /\ \A u \in Threads \ {t} : thread'[u] = thread[u]
    BY <1>0, <1>1, <2>1 DEF ThreadShape
  <2>6. SavedInv'
    <3>1. CASE call.known /\ ~handles.home
      BY <1>1, <2>3, <2>5, <3>1 DEF SavedInv
    <3>2. CASE ~(call.known /\ ~handles.home)
      <4>1. handles'.home => handles.home
        BY <2>2, <3>2
      <4>2. ASSUME NEW u \in Threads, thread[u].at \in {"form", "write"}
            PROVE  thread'[u] = thread[u]
        BY <1>1, <2>5, <4>2
      <4> QED BY <1>0, <1>1, <1>4, <2>2, <4>1, <4>2 DEF SavedInv
    <3> QED BY <3>1, <3>2
  <2>7. thread[t].at # "bind" /\ y.at # "bind" /\ y.at # "write" /\ y.at \notin Loading
    BY <1>1, <2>3 DEF Loading
  <2> QED BY <1>1, <1>4, <2>1, <2>2, <2>4, <2>6, <2>7, QuietStep
<1> QED BY <1>3, <1>4

\* It reads the file: the forms that are still adrift are of the past.
LEMMA LoadStep ==
    ASSUME HandlesInv, NEW t \in Callers, Load(t)
    PROVE  HandlesInv'
<1> PICK call : call = thread[t]
  OBVIOUS
<1> PICK y : y = [at |-> "floor", known |-> call.known, next |-> call.next,
                  saved |-> IF call.known THEN file ELSE NoHandles]
  OBVIOUS
<1>0. PaneShape /\ BookShape /\ ThreadShape /\ NumberInv /\ LoadInv
  BY DEF HandlesInv
<1>1. /\ call.at = "load" /\ thread' = [thread EXCEPT ![t] = y]
      /\ adrift' = {[a EXCEPT !.past = TRUE] : a \in adrift}
      /\ UNCHANGED <<homeNamed, pane, opens, handles, file, said, homes,
                     behind, cut, lost, late, crossed, missed, trimmed>>
  BY DEF Load, history
<1>2. LoadOK(call, pane, opens) /\ (call.known => homeNamed) /\ (~call.known => homes = 0)
  <2>1. t \in Threads
    BY DEF Threads
  <2> QED BY <1>0, <1>1, <2>1 DEF ThreadShape, ThreadOK, LoadInv, Loading
<1>3. /\ y.at = "floor" /\ y.known = call.known /\ y.next = call.next
      /\ call.known => y.saved = file
      /\ ~call.known => y.saved = NoHandles
  OBVIOUS
<1>4. LoadOK(y, pane, opens)
  BY <1>0, <1>2, <1>3 DEF LoadOK, Loading, BookShape
<1>5. \A a \in adrift' : a.past
  BY <1>0, <1>1 DEF BookShape
<1>6. LoadedOK(y)'
  <2>1. y.saved # NoHandles => y.saved = file
    BY <1>2, <1>3 DEF LoadOK
  <2>2. handles = NoHandles => y.saved = file
    BY <1>0, <1>2, <1>3 DEF LoadInv, LoadOK
  <2>3. ASSUME ~crossed, ~cut, ~late, y.saved # NoHandles, NEW p \in Claimed', NEW e \in y.saved.named,
               p.n = e.n
        PROVE  p.conv = e.conv
    <3>1. p \in Claims(said, handles, file, adrift') /\ file # NoHandles /\ e \in file.named
      BY <1>1, <2>1, <2>3 DEF Claimed
    <3>2. p \in Claimed /\ Pair(e) \in Claimed
      BY <1>5, <3>1, ClaimsFacts DEF Claimed
    <3>3. Pair(e).n = e.n /\ Pair(e).conv = e.conv
      BY DEF Pair
    <3> QED BY <1>0, <2>3, <3>2, <3>3 DEF NumberInv
  <2> QED BY <1>1, <1>3, <1>5, <2>1, <2>2, <2>3 DEF LoadedOK
<1>7. LoadInv'
  <2>1. \A u \in Callers : u \in Threads
    BY DEF Threads
  <2>2. thread'[t] = y /\ \A u \in Callers \ {t} : thread'[u] = thread[u]
    BY <1>0, <1>1, <2>1 DEF ThreadShape
  <2>3. ASSUME NEW u \in Callers, thread'[u].at \in {"floor", "install"}
        PROVE  LoadedOK(thread[u])'
    <3> PICK x : x = thread'[u]
      OBVIOUS
    <3>1. CASE u = t
      <4>1. x = y
        BY <2>2, <3>1
      <4> QED BY <1>6, <4>1
    <3>2. CASE u # t
      <4>1. LoadedOK(x)
        BY <1>0, <2>2, <2>3, <3>2 DEF LoadInv
      <4>2. LoadedOK(x)'
        BY <1>1, <1>5, <4>1, LoadedStays
      <4> QED BY <4>2
    <3> QED BY <3>1, <3>2
  <2>4. homes' = 0 => adrift' = {}
    BY <1>0, <1>1 DEF LoadInv
  <2> QED BY <1>0, <1>1, <1>2, <1>3, <2>2, <2>3, <2>4 DEF LoadInv, Loading
<1>8. y.at \in Loading /\ thread[t].at \notin {"form", "write", "bind"}
  BY <1>1, <1>3 DEF Loading
<1> QED BY <1>1, <1>4, <1>7, <1>8, StageStep

\* And the transcript, which may be cut short.
LEMMA FloorStep ==
    ASSUME HandlesInv, NEW t \in Callers, Floor(t)
    PROVE  HandlesInv'
<1> PICK call : call = thread[t]
  OBVIOUS
<1>0. PaneShape /\ BookShape /\ ThreadShape /\ LoadInv
  BY DEF HandlesInv
<1>1. PICK floor \in {0} \cup Said :
         /\ thread' = [thread EXCEPT ![t] =
               [at |-> "install", known |-> call.known, next |-> call.next,
                saved |-> call.saved, floor |-> floor]]
         /\ cut' = (cut \/ \E n \in Said : floor < n)
  BY DEF Floor
<1> PICK y : y = [at |-> "install", known |-> call.known, next |-> call.next,
                  saved |-> call.saved, floor |-> floor]
  OBVIOUS
<1>2. /\ call.at = "floor" /\ thread' = [thread EXCEPT ![t] = y]
      /\ UNCHANGED <<homeNamed, pane, opens, handles, file, adrift, said, homes,
                     behind, lost, late, crossed, missed, trimmed>>
  BY <1>1 DEF Floor
<1>3. /\ LoadOK(call, pane, opens) /\ LoadedOK(call)
      /\ (call.known => homeNamed) /\ (~call.known => homes = 0)
  <2>1. t \in Threads
    BY DEF Threads
  <2> QED BY <1>0, <1>2, <2>1 DEF ThreadShape, ThreadOK, LoadInv, Loading
<1>4. /\ y.at = "install" /\ y.known = call.known /\ y.next = call.next
      /\ y.saved = call.saved /\ y.floor = floor
  OBVIOUS
<1>5. LoadOK(y, pane, opens)
  <2>1. floor \in Nat
    BY <1>0 DEF Said, BookShape
  <2> QED BY <1>2, <1>3, <1>4, <2>1 DEF LoadOK, Loading
<1>6. (cut => cut') /\ (~cut' => \A n \in Said : n <= floor)
  <2>1. cut => cut'
    BY <1>1, Zenon
  <2>2. ~cut' => \A n \in Said : ~(floor < n)
    BY <1>1, Zenon
  <2>3. floor \in Nat /\ Said \subseteq Nat
    BY <1>0 DEF Said, BookShape
  <2> QED BY <2>1, <2>2, <2>3
<1>7. \A a \in adrift' : a.past
  BY <1>2, <1>3 DEF LoadedOK
<1>8. LoadedOK(y)'
  <2>1. LoadedOK(call)'
    BY <1>2, <1>3, <1>6, <1>7, LoadedStays
  <2>2. ~cut' => \A n \in Said' : n <= floor
    BY <1>2, <1>6 DEF Said
  <2> QED BY <1>4, <2>1, <2>2 DEF LoadedOK
<1>9. LoadInv'
  <2>1. \A u \in Callers : u \in Threads
    BY DEF Threads
  <2>2. thread'[t] = y /\ \A u \in Callers \ {t} : thread'[u] = thread[u]
    BY <1>0, <1>2, <2>1 DEF ThreadShape
  <2>3. ASSUME NEW u \in Callers, thread'[u].at \in {"floor", "install"}
        PROVE  LoadedOK(thread[u])'
    <3> PICK x : x = thread'[u]
      OBVIOUS
    <3>1. CASE u = t
      <4>1. x = y
        BY <2>2, <3>1
      <4> QED BY <1>8, <4>1
    <3>2. CASE u # t
      <4>1. LoadedOK(x)
        BY <1>0, <2>2, <2>3, <3>2 DEF LoadInv
      <4>2. LoadedOK(x)'
        BY <1>2, <1>6, <1>7, <4>1, LoadedStays
      <4> QED BY <4>2
    <3> QED BY <3>1, <3>2
  <2> QED BY <1>0, <1>2, <1>3, <1>4, <2>2, <2>3 DEF LoadInv, Loading
<1>10. y.at \in Loading /\ thread[t].at \notin {"form", "write", "bind"}
  BY <1>2, <1>4 DEF Loading
<1> QED BY <1>2, <1>5, <1>6, <1>9, <1>10, StageStep

LEMMA LookStep ==
    ASSUME HandlesInv, NEW t \in Callers, Look(t)
    PROVE  HandlesInv'
<1> PICK y : y = [at |-> "mint", conv |-> thread[t].conv, session |-> thread[t].session,
                  known |-> pane[thread[t].conv] = "named" /\ opens[thread[t].conv] = thread[t].session]
  OBVIOUS
<1>1. /\ thread[t].at = "look" /\ thread' = [thread EXCEPT ![t] = y]
      /\ UNCHANGED <<homeNamed, pane, opens, handles, file, adrift, said, homes, history>>
  BY DEF Look
<1>2. t \in Threads /\ t \notin Holders
  BY DEF Threads, Callers, Holders, Tool, Courier
<1>3. /\ ThreadOK(thread[t], handles, pane, opens, crossed) /\ handles # NoHandles
      /\ handles \in Book /\ (handles.home => homeNamed) /\ SavedInv /\ ThreadShape
  BY <1>1, <1>2 DEF HandlesInv, ThreadShape, ThreadOK, BookShape, BookOK, Loading
<1>4. ThreadOK(y, handles, pane, opens, crossed)
  BY <1>1, <1>3 DEF ThreadOK, ThenOK, Bound, Loading
<1>5. SavedInv'
  <2>1. ASSUME NEW u \in Threads, thread[u].at \in {"form", "write"}
        PROVE  thread'[u] = thread[u]
    BY <1>1, <1>3, <2>1 DEF ThreadShape
  <2> QED BY <1>1, <1>3, <2>1 DEF SavedInv, history
<1>6. y.at # "write" /\ y.at # "bind" /\ y.at \notin Loading /\ thread[t].at # "bind"
  BY <1>1 DEF Loading
<1> QED BY <1>1, <1>2, <1>3, <1>4, <1>5, <1>6, QuietStep DEF history

LEMMA TakeFormStep ==
    ASSUME HandlesInv, NEW t \in Threads, TakeForm(t)
    PROVE  HandlesInv'
<1> PICK y : y = IF handles # NoHandles /\ handles.home
                 THEN [at |-> "write", form |-> SavedForm, next |-> thread[t].next]
                 ELSE thread[t].next
  OBVIOUS
<1>1. /\ thread[t].at = "form" /\ thread' = [thread EXCEPT ![t] = y]
      /\ UNCHANGED <<homeNamed, pane, opens, handles, file, adrift, said, homes, history>>
  BY DEF TakeForm
<1>2. /\ ThreadOK(thread[t], handles, pane, opens, crossed) /\ handles # NoHandles
      /\ BookOK(handles, pane, opens) /\ handles \in Book /\ IsFiniteSet(handles.named)
      /\ (handles.home => homeNamed) /\ SavedInv /\ ThreadShape
  BY <1>1 DEF HandlesInv, ThreadShape, ThreadOK, BookShape, BookOK, Numbered, Loading
<1>3. ThenOK(thread[t].next, handles, opens, crossed)
  BY <1>1, <1>2 DEF ThreadOK
<1>4. FormOK(SavedForm, pane) /\ SavedForm.named \subseteq handles.named /\ SavedForm.next <= handles.next
  <2>1. SavedForm.next = handles.next /\ SavedForm.named = {e \in handles.named : e.session = NoSession}
    BY DEF SavedForm
  <2>2. SavedForm \in Form /\ handles.next \in Nat
    BY <1>2 DEF Book, Form, SavedForm
  <2>3. IsFiniteSet(SavedForm.named)
    BY <1>2, <2>1, FS_Subset
  <2> QED BY <1>2, <2>1, <2>2, <2>3 DEF FormOK, BookOK, Numbered
<1>5. CASE handles.home
  <2>1. y = [at |-> "write", form |-> SavedForm, next |-> thread[t].next]
    BY <1>2, <1>5
  <2>2. ThreadOK(y, handles, pane, opens, crossed)
    BY <1>2, <1>3, <1>4, <2>1 DEF ThreadOK, Within, Loading
  <2>3. thread'[t] = y
    BY <1>1, <1>2 DEF ThreadShape
  <2>4. \A e \in handles.named : e.session = NoSession => e \in y.form.named
    BY <2>1 DEF SavedForm
  <2>5. SavedInv'
    BY <1>1, <2>1, <2>3, <2>4 DEF SavedInv
  <2>6. thread[t] # Idle /\ (t \in Holders => HolderOK(y))
    BY <1>1, <1>2, <2>1 DEF Idle, ThreadShape, HolderOK
  <2>7. y.at = "write" /\ y.at # "bind" /\ y.at \notin Loading /\ thread[t].at # "bind" /\ homeNamed
    BY <1>1, <1>2, <1>5, <2>1 DEF Loading
  <2> QED BY <1>1, <1>2, <1>5, <2>2, <2>5, <2>6, <2>7, QuietStep DEF history
<1>6. CASE ~handles.home
  <2>1. y = thread[t].next
    BY <1>6
  <2>2. ThreadOK(y, handles, pane, opens, crossed) /\ y.at \in {"idle", "look", "say"}
    BY <1>2, <1>3, <2>1 DEF ThreadOK, ThenOK, Loading
  <2>3. SavedInv'
    BY <1>1, <1>6 DEF SavedInv
  <2>4. thread[t] # Idle
    BY <1>1 DEF Idle
  <2>5. t \in Holders => y = Idle
    BY <1>1, <1>2, <2>1, <2>4 DEF ThreadShape, HolderOK
  <2> QED BY <1>1, <1>2, <2>1, <2>2, <2>3, <2>4, <2>5, QuietStep DEF history, Loading
<1> QED BY <1>5, <1>6

LEMMA SayStep ==
    ASSUME HandlesInv, NEW t \in Callers, Say(t)
    PROVE  HandlesInv'
<1> PICK p : p = [n |-> thread[t].n, conv |-> thread[t].conv]
  OBVIOUS
<1>0. PaneShape /\ BookShape /\ ThreadShape /\ NumberInv /\ FileInv /\ NameInv /\ SavedInv
      /\ LoadInv
  BY DEF HandlesInv
<1>1. /\ thread[t].at = "say" /\ said' = said \cup {p} /\ thread' = [thread EXCEPT ![t] = Idle]
      /\ UNCHANGED <<homeNamed, pane, opens, handles, file, adrift, homes, history>>
  BY DEF Say
<1>2. t \in Threads /\ t \notin Holders
  BY DEF Threads, Callers, Holders, Tool, Courier
<1>3. /\ handles # NoHandles /\ handles \in Book
      /\ crossed \/ \E e \in handles.named : Pair(e) = p
      /\ p \in [n : Nat, conv : Conversations]
  BY <1>0, <1>1, <1>2 DEF ThreadShape, ThreadOK, ThenOK, Pair, BookShape, BookOK, Loading
<1>5. PaneShape' /\ BookShape'
  BY <1>0, <1>1, <1>3 DEF PaneShape, BookShape
<1>6. Grown(handles, pane, opens, handles', pane', opens')
  <2>1. \A c \in Conversations : opens[c] <= opens[c]
    BY <1>0, HandlesAssumption DEF PaneShape
  <2> QED BY <1>1, <1>3, <2>1 DEF Grown, Book
<1>7. ThreadShape'
  <2>1. ThreadOK(Idle, handles', pane', opens', crossed') /\ Idle.at = "idle"
    BY DEF ThreadOK, ThenOK, Idle, Loading
  <2> QED BY <1>0, <1>1, <1>2, <1>5, <1>6, <2>1, ThreadMoves DEF history
<1>8. NumberInv'
  <2>1. ~crossed => \A q : q \in Claims(said', handles, file, adrift) => q \in Claims(said, handles, file, adrift)
    BY <1>1, <1>3, ClaimsFacts
  <2>2. handles.next <= handles.next
    BY <1>3 DEF Book
  <2> QED BY <1>0, <1>1, <1>5, <2>1, <2>2, NumbersStay DEF Claimed, history
<1>9. FileInv'
  <2>1. ~crossed => Listed(p, handles)
    BY <1>3 DEF Listed
  <2> QED BY <1>0, <1>1, <1>3, <2>1 DEF FileInv, history, Within, Listed
<1>10. \A u \in Threads : thread[u].at \in {"bind", "form", "write"} => thread'[u] = thread[u]
  BY <1>0, <1>1 DEF ThreadShape
<1>11. NameInv'
  <2>1. ASSUME NEW e \in handles.named, ToBind(e)
        PROVE  ToBind(e)'
    <3>1. ASSUME NEW u, thread[u].at = "bind", u \in Threads
          PROVE  thread'[u].at = "bind"
      BY <1>10, <3>1
    <3>2. ASSUME NEW u, thread[u].at = "bind", u \notin Threads
          PROVE  thread'[u].at = "bind"
      BY <1>0, <1>1, <1>2, <3>2 DEF ThreadShape
    <3> QED BY <1>1, <2>1, <3>1, <3>2 DEF ToBind
  <2> QED BY <1>0, <1>1, <1>3, <2>1 DEF NameInv, OneEach, history
<1>12. SavedInv'
  BY <1>0, <1>1, <1>10 DEF SavedInv, history
<1>13. LoadInv'
  <2>1. Idle.at \notin Loading
    BY DEF Idle, Loading
  <2> QED BY <1>0, <1>1, <1>2, <1>3, <2>1, LoadMoves DEF history
<1> QED BY <1>5, <1>7, <1>8, <1>9, <1>11, <1>12, <1>13 DEF HandlesInv

\* The file after a write, which took or failed.
LEMMA PutFacts ==
    ASSUME PaneShape, BookShape, homeNamed, NEW f, FormOK(f, pane), NEW past, Put(f, past),
           UNCHANGED <<pane, homeNamed>>
    PROVE  /\ file' # NoHandles =>
                 /\ homeNamed' /\ FormOK(file', pane')
                 /\ \A e \in file'.named : Cardinality({g \in file'.named : g.n > e.n}) < MaxKept
           /\ \/ file' = file /\ behind' /\ late' = late
              \/ /\ file' # NoHandles /\ file'.named \subseteq f.named /\ file'.next = f.next
                 /\ late' = (late \/ past)
                 /\ ~behind' => ~behind /\ ~Older(f)
                 /\ ~trimmed' => ~trimmed /\ file' = f
                 /\ ~behind' /\ file # NoHandles /\ Within(f, file) => file' = file
<1>1. CASE behind' = TRUE /\ UNCHANGED <<file, trimmed, late>>
  BY <1>1 DEF BookShape
<1>2. CASE /\ file' = Kept(f)
           /\ behind' = (behind \/ Older(f))
           /\ trimmed' = (trimmed \/ Kept(f) # f)
           /\ late' = (late \/ past)
  <2>1. FormOK(file', pane') /\ file' # NoHandles
    BY <1>2, KeptFacts, HandlesAssumption DEF FormOK
  <2>2. /\ file'.named \subseteq f.named /\ file'.next = f.next
        /\ \A e \in file'.named : Cardinality({g \in file'.named : g.n > e.n}) < MaxKept
    BY <1>2, KeptFacts
  <2>3. ASSUME ~behind'
        PROVE  ~behind /\ ~Older(f)
    BY <1>2, <2>3, Zenon
  <2>4. ASSUME ~trimmed'
        PROVE  ~trimmed /\ file' = f
    BY <1>2, <2>4, Zenon
  <2>5. ASSUME ~behind', file # NoHandles, Within(f, file)
        PROVE  file' = file
    <3>1. /\ ~(f.next < file.next) /\ file.named \subseteq f.named
          /\ f.next <= file.next /\ f.named \subseteq file.named
      BY <2>3, <2>5, SMTT(30) DEF Older, Within
    <3>2. f \in Form /\ file \in Form
      BY <2>5 DEF BookShape, FormOK
    <3>3. f.next \in Nat /\ file.next \in Nat
      BY <3>2 DEF Form
    <3>4. f.named = file.named /\ f.next = file.next
      <4>1. \A e : e \in f.named <=> e \in file.named
        BY <3>1
      <4>2. f.next = file.next
        BY <3>1, <3>3
      <4> QED BY <4>1, <4>2, Zenon
    <3>5. f = file
      BY <3>2, <3>4 DEF Form
    <3>6. \A e \in f.named : Cardinality({g \in f.named : g.n > e.n}) < MaxKept
      BY <2>5, <3>5 DEF BookShape
    <3> QED BY <1>2, <3>5, <3>6, KeptFacts
  <2> QED BY <1>2, <2>1, <2>2, <2>3, <2>4, <2>5
<1> QED BY <1>1, <1>2 DEF Put

\* What has been loaded is in the file, or was, whatever is written; nobody has handles
\* while a form from a closed Home is written and goes with what was loaded.
LEMMA LoadWrites ==
    ASSUME PaneShape, BookShape, FileInv, LoadInv, NEW f, FormOK(f, pane), NEW past,
           handles = NoHandles => \E a \in adrift : a.form = f /\ a.past = past,
           \A a \in adrift' : a \in adrift,
           \/ file' = file /\ behind' /\ late' = late
           \/ /\ file' # NoHandles /\ file'.named \subseteq f.named /\ file'.next = f.next
              /\ late' = (late \/ past)
              /\ ~behind' => ~behind /\ ~Older(f)
              /\ ~trimmed' => ~trimmed /\ file' = f
              /\ ~behind' /\ file # NoHandles /\ Within(f, file) => file' = file,
           \A u \in Callers : thread'[u].at \in Loading => thread'[u] = thread[u],
           UNCHANGED <<homeNamed, handles, said, homes, cut, lost, crossed>>
    PROVE  LoadInv'
<1>1. ASSUME NEW x, LoadedOK(x)
      PROVE  LoadedOK(x)'
  <2>1. \A a \in adrift' : a.past
    BY <1>1 DEF LoadedOK
  <2>2. ASSUME x.saved # NoHandles, ~behind', ~trimmed'
        PROVE  file' # NoHandles /\ x.saved.named \subseteq file'.named
    <3>1. ~behind /\ ~trimmed /\ file' = f /\ file' # NoHandles /\ ~Older(f)
      BY <2>2
    <3>2. file # NoHandles /\ x.saved.named \subseteq file.named
      BY <1>1, <2>2, <3>1 DEF LoadedOK
    <3>3. file.named \subseteq f.named
      BY <3>1, <3>2 DEF Older
    <3> QED BY <3>1, <3>2, <3>3
  <2>3. ASSUME handles = NoHandles, ~late'
        PROVE  file' = file /\ ~late
    <3>1. past
      BY <1>1, <2>3 DEF LoadedOK
    <3>2. CASE late' = (late \/ past)
      BY <2>3, <3>1, <3>2, Zenon
    <3>3. CASE file' = file /\ late' = late
      BY <2>3, <3>3
    <3> QED BY <3>2, <3>3
  <2>4. ASSUME handles = NoHandles, ~late', NEW p \in Claimed'
        PROVE  p \in Claimed
    <3>1. p \in Claims(said, handles, file, adrift')
      BY <2>3, <2>4 DEF Claimed
    <3> QED BY <3>1, ClaimsFacts DEF Claimed
  <2>5. ASSUME handles = NoHandles, ~crossed, ~behind', ~lost
        PROVE  \/ x.saved = file'
               \/ /\ x.saved = NoHandles /\ file' # NoHandles
                  /\ file'.next = 0 /\ file'.named = {}
    <3>1. /\ ~behind /\ file' # NoHandles /\ file'.named \subseteq f.named /\ file'.next = f.next
          /\ file # NoHandles /\ Within(f, file) => file' = file
      BY <2>5
    <3>2. \/ x.saved = file
          \/ x.saved = NoHandles /\ file # NoHandles /\ file.next = 0 /\ file.named = {}
      BY <1>1, <2>5, <3>1 DEF LoadedOK
    <3>3. CASE file # NoHandles
      <4>1. Within(f, file)
        BY <2>5, <3>1, <3>3 DEF FileInv
      <4> QED BY <3>1, <3>2, <3>3, <4>1
    <3>4. CASE file = NoHandles
      <4>1. f.next = 0
        BY <2>5, <3>1, <3>4 DEF FileInv
      <4>2. f.named = {}
        BY <4>1 DEF FormOK, Numbered
      <4> QED BY <3>1, <3>2, <3>4, <4>1, <4>2
    <3> QED BY <3>3, <3>4
  <2>6. Said' = Said
    BY DEF Said
  <2> QED BY <1>1, <2>1, <2>2, <2>3, <2>4, <2>5, <2>6 DEF LoadedOK
<1>2. ASSUME NEW u \in Callers, thread'[u].at \in {"floor", "install"}
      PROVE  LoadedOK(thread[u])'
  <2> PICK x : x = thread'[u]
    OBVIOUS
  <2>1. x = thread[u] /\ LoadedOK(x)
    BY <1>2 DEF LoadInv, Loading
  <2>2. LoadedOK(x)'
    BY <1>1, <2>1
  <2> QED BY <2>2
<1>3. homes' = 0 => adrift' = {} /\ (handles' = NoHandles => file' = NoHandles /\ said' = {})
  BY DEF LoadInv
<1> QED BY <1>2, <1>3 DEF LoadInv

\* A write puts into the file what memory has, or had.
LEMMA WriteStep ==
    ASSUME HandlesInv, NEW t \in Threads, Write(t)
    PROVE  HandlesInv'
<1> PICK y : y = thread[t].next
  OBVIOUS
<1> PICK f : f = thread[t].form
  OBVIOUS
<1>0. PaneShape /\ BookShape /\ ThreadShape /\ NumberInv /\ FileInv /\ NameInv /\ SavedInv
      /\ LoadInv
  BY DEF HandlesInv
<1>1. /\ thread[t].at = "write" /\ Put(f, FALSE) /\ thread' = [thread EXCEPT ![t] = y]
      /\ UNCHANGED <<homeNamed, pane, opens, handles, adrift, said, homes, cut, lost, crossed,
                     missed>>
  BY DEF Write
<1>2. /\ ThreadOK(thread[t], handles, pane, opens, crossed) /\ handles # NoHandles /\ homeNamed
      /\ handles \in Book /\ ThenOK(y, handles, opens, crossed) /\ FormOK(f, pane)
      /\ crossed \/ Within(f, handles)
      /\ t \in Holders => y = Idle
  <2>1. ThreadOK(thread[t], handles, pane, opens, crossed) /\ homeNamed
    BY <1>0, <1>1 DEF ThreadShape
  <2>2. /\ handles # NoHandles /\ ThenOK(y, handles, opens, crossed) /\ FormOK(f, pane)
        /\ crossed \/ Within(f, handles)
    BY <1>1, <2>1 DEF ThreadOK, Loading
  <2>3. handles \in Book
    BY <1>0, <2>2 DEF BookShape, BookOK
  <2>4. t \in Holders => y = Idle
    BY <1>0, <1>1 DEF ThreadShape, HolderOK, Idle
  <2> QED BY <2>1, <2>2, <2>3, <2>4
<1>3. /\ file' # NoHandles =>
            /\ homeNamed' /\ FormOK(file', pane')
            /\ \A e \in file'.named : Cardinality({g \in file'.named : g.n > e.n}) < MaxKept
      /\ \/ file' = file /\ behind' /\ late' = late
         \/ /\ file' # NoHandles /\ file'.named \subseteq f.named /\ file'.next = f.next
            /\ late' = (late \/ FALSE)
            /\ ~behind' => ~behind /\ ~Older(f)
            /\ ~trimmed' => ~trimmed /\ file' = f
            /\ ~behind' /\ file # NoHandles /\ Within(f, file) => file' = file
  BY <1>0, <1>1, <1>2, PutFacts
<1>4. PaneShape' /\ BookShape'
  BY <1>0, <1>1, <1>3 DEF PaneShape, BookShape
<1>5. Grown(handles, pane, opens, handles', pane', opens')
  <2>1. \A c \in Conversations : opens[c] <= opens[c]
    BY <1>0, HandlesAssumption DEF PaneShape
  <2> QED BY <1>1, <1>2, <2>1 DEF Grown, Book
<1>6. ThreadShape'
  <2>1. ThreadOK(y, handles', pane', opens', crossed') /\ y.at # "write" /\ y.at # "bind"
    BY <1>1, <1>2 DEF ThreadOK, ThenOK, Loading
  <2> QED BY <1>0, <1>1, <1>2, <1>4, <1>5, <2>1, ThreadMoves
<1>7. NumberInv'
  <2>1. ~late' => ~late
    BY <1>3, Zenon
  <2>2. ~crossed => \A q : q \in Claims(said, handles, file', adrift) => q \in Claims(said, handles, file, adrift)
    BY <1>2, <1>3, ClaimsFacts DEF Within
  <2>3. handles.next <= handles.next
    BY <1>2 DEF Book
  <2> QED BY <1>0, <1>1, <1>4, <2>1, <2>2, <2>3, NumbersStay DEF Claimed
<1>8. FileInv'
  <2> SUFFICES ASSUME ~crossed, ~behind', ~lost PROVE FileInv'
    BY <1>1 DEF FileInv
  <2>1. ~behind /\ Within(file', handles)
    BY <1>2, <1>3 DEF Within
  <2> QED BY <1>0, <1>1, <1>2, <2>1 DEF FileInv, Listed, Within
<1>9. \A u \in Threads \ {t} : thread'[u] = thread[u]
  BY <1>0, <1>1 DEF ThreadShape
<1>10. NameInv'
  <2>1. ~behind' => ~behind
    BY <1>3
  <2>2. ASSUME NEW e \in handles.named, ToBind(e)
        PROVE  ToBind(e)'
    BY <1>0, <1>1, <2>2 DEF ToBind, ThreadShape
  <2> QED BY <1>0, <1>1, <1>2, <2>1, <2>2 DEF NameInv, OneEach
<1>11. SavedInv'
  <2> SUFFICES ASSUME ~behind', ~trimmed', handles.home, NEW e \in handles.named, e.session = NoSession
               PROVE  \/ file' # NoHandles /\ e \in file'.named
                      \/ \E u \in Threads : thread'[u].at = "form"
                      \/ \E u \in Threads : thread'[u].at = "write" /\ e \in thread'[u].form.named
    BY <1>1 DEF SavedInv
  <2>1. ~behind /\ ~trimmed /\ file' = f /\ ~Older(f) /\ file' # NoHandles
    BY <1>3
  <2>2. CASE file # NoHandles /\ e \in file.named
    BY <2>1, <2>2 DEF Older
  <2>3. CASE \E u \in Threads : thread[u].at = "form"
    BY <1>1, <1>9, <2>3
  <2>4. CASE \E u \in Threads : thread[u].at = "write" /\ e \in thread[u].form.named
    BY <1>9, <2>1, <2>4
  <2> QED BY <1>0, <1>2, <2>1, <2>2, <2>3, <2>4 DEF SavedInv
<1>12. LoadInv'
  <2>1. y.at \notin Loading
    BY <1>2 DEF ThenOK, Loading
  <2>2. \A u \in Callers : thread'[u].at \in Loading => thread'[u] = thread[u]
    BY <1>1, <1>9, <2>1 DEF Threads, ThreadShape
  <2> QED BY <1>0, <1>1, <1>2, <1>3, <2>2, LoadWrites
<1> QED BY <1>4, <1>6, <1>7, <1>8, <1>10, <1>11, <1>12 DEF HandlesInv

\* So does a late one, from a Home since closed, or the file is behind.
LEMMA WriteAdriftStep ==
    ASSUME HandlesInv, NEW a \in adrift, WriteAdrift(a)
    PROVE  HandlesInv'
<1> PICK f : f = a.form
  OBVIOUS
<1>0. PaneShape /\ BookShape /\ ThreadShape /\ NumberInv /\ FileInv /\ NameInv /\ SavedInv
      /\ LoadInv
  BY DEF HandlesInv
<1>1. /\ Put(f, a.past) /\ adrift' = adrift \ {a}
      /\ UNCHANGED <<homeNamed, pane, opens, handles, thread, said, homes, cut, lost, crossed,
                     missed>>
  BY DEF WriteAdrift
<1>2. FormOK(f, pane) /\ homeNamed /\ a.past \in BOOLEAN
  BY <1>0 DEF BookShape
<1>3. /\ file' # NoHandles =>
            /\ homeNamed' /\ FormOK(file', pane')
            /\ \A e \in file'.named : Cardinality({g \in file'.named : g.n > e.n}) < MaxKept
      /\ \/ file' = file /\ behind' /\ late' = late
         \/ /\ file' # NoHandles /\ file'.named \subseteq f.named /\ file'.next = f.next
            /\ late' = (late \/ a.past)
            /\ ~behind' => ~behind /\ ~Older(f)
            /\ ~trimmed' => ~trimmed /\ file' = f
            /\ ~behind' /\ file # NoHandles /\ Within(f, file) => file' = file
  <2> HIDE DEF Within
  <2> QED BY <1>0, <1>1, <1>2, PutFacts
<1>4. PaneShape' /\ BookShape'
  BY <1>0, <1>1, <1>3 DEF PaneShape, BookShape
<1>5. Grown(handles, pane, opens, handles', pane', opens') /\ (handles # NoHandles => handles.next <= handles.next)
  <2>1. \A c \in Conversations : opens[c] <= opens[c]
    BY <1>0, HandlesAssumption DEF PaneShape
  <2>2. handles # NoHandles => handles.next \in Nat
    BY <1>0 DEF BookShape, BookOK, Book
  <2> QED BY <1>1, <2>1, <2>2 DEF Grown
<1>6. ThreadShape'
  BY <1>0, <1>1, <1>4, <1>5, ThreadsStay
<1>7. NumberInv'
  <2>1. ~late' => ~late
    BY <1>3, Zenon
  <2>2. ASSUME ~late', NEW q \in Claims(said, handles, file', adrift')
        PROVE  q \in Claims(said, handles, file, adrift)
    <3>1. CASE file' = file
      BY <1>1, <2>2, <3>1, ClaimsFacts
    <3>2. CASE ~a.past /\ file' # NoHandles /\ file'.named \subseteq f.named
      BY <1>1, <2>2, <3>2, ClaimsFacts
    <3> QED BY <1>3, <2>2, <3>1, <3>2, Zenon
  <2> QED BY <1>0, <1>1, <1>4, <1>5, <2>1, <2>2, NumbersStay DEF Claimed
<1>8. ASSUME ~behind', ~lost, ~crossed
      PROVE  ~behind /\ file' # NoHandles /\ file'.named \subseteq f.named /\ file'.next = f.next /\ ~Older(f)
  BY <1>3, <1>8
<1>9. FileInv'
  <2> SUFFICES ASSUME ~crossed, ~behind', ~lost PROVE FileInv'
    BY <1>1 DEF FileInv
  <2>1. CASE handles # NoHandles
    <3>1. Within(f, handles)
      BY <1>0, <1>8, <2>1 DEF FileInv
    <3>2. Within(file', handles)
      BY <1>8, <3>1 DEF Within
    <3> QED BY <1>0, <1>1, <1>8, <2>1, <3>2 DEF FileInv, Listed, Within
  <2>2. CASE handles = NoHandles /\ file # NoHandles
    <3>1. Within(f, file)
      BY <1>0, <1>8, <2>2 DEF FileInv
    <3>2. file' = file
      BY <1>3, <2>2, <3>1
    <3> QED BY <1>0, <1>1, <1>8, <2>2, <3>2 DEF FileInv, Listed, Within
  <2>3. CASE handles = NoHandles /\ file = NoHandles
    <3>1. said = {} /\ \A b \in adrift : b.form.next = 0
      BY <1>0, <1>8, <2>3 DEF FileInv
    <3>2. ASSUME NEW b \in adrift'
          PROVE  Within(b.form, file')
      <4>1. FormOK(b.form, pane) /\ b.form.next = 0 /\ f.next = 0
        BY <1>0, <1>1, <3>1 DEF BookShape
      <4>2. b.form.named = {}
        BY <4>1 DEF FormOK, Numbered
      <4> QED BY <1>8, <4>1, <4>2 DEF Within
    <3> QED BY <1>1, <1>8, <2>3, <3>1, <3>2 DEF FileInv
  <2> QED BY <2>1, <2>2, <2>3
<1>10. NameInv'
  <2> SUFFICES ASSUME ~crossed, ~behind', ~lost, ~missed PROVE NameInv'
    BY <1>1 DEF NameInv
  <2>1. CASE handles # NoHandles
    <3>1. \A e \in handles.named : ToBind(e) => ToBind(e)'
      BY <1>1 DEF ToBind
    <3> QED BY <1>0, <1>1, <1>8, <2>1, <3>1 DEF NameInv, OneEach
  <2>2. CASE handles = NoHandles /\ file # NoHandles
    <3>1. Within(f, file)
      BY <1>0, <1>8, <2>2 DEF FileInv
    <3>2. file' = file
      BY <1>3, <2>2, <3>1
    <3> QED BY <1>0, <1>1, <1>8, <2>2, <3>2 DEF NameInv, OneEach
  <2>3. CASE handles = NoHandles /\ file = NoHandles
    <3>1. f.next = 0
      BY <1>0, <1>8, <2>3 DEF FileInv
    <3>2. f.named = {}
      BY <1>2, <3>1 DEF FormOK, Numbered
    <3> QED BY <1>1, <1>8, <2>3, <3>2 DEF NameInv, OneEach
  <2> QED BY <2>1, <2>2, <2>3
<1>11. SavedInv'
  <2> SUFFICES ASSUME ~behind', ~trimmed', handles # NoHandles, handles.home,
                      NEW e \in handles.named, e.session = NoSession
               PROVE  \/ file' # NoHandles /\ e \in file'.named
                      \/ \E u \in Threads : thread[u].at = "form"
                      \/ \E u \in Threads : thread[u].at = "write" /\ e \in thread[u].form.named
    BY <1>1 DEF SavedInv
  <2>1. ~behind /\ ~trimmed /\ file' = f /\ ~Older(f) /\ file' # NoHandles
    BY <1>3
  <2>2. file # NoHandles /\ e \in file.named => e \in file'.named
    BY <2>1 DEF Older
  <2> QED BY <1>0, <2>1, <2>2 DEF SavedInv
<1>12. LoadInv'
  <2>1. \A b \in adrift' : b \in adrift
    BY <1>1
  <2> QED BY <1>0, <1>1, <1>2, <1>3, <2>1, LoadWrites
<1> QED BY <1>4, <1>6, <1>7, <1>9, <1>10, <1>11, <1>12 DEF HandlesInv

\* A file that forgets is behind.
LEMMA ForgetsStep ==
    ASSUME HandlesInv, Forgets
    PROVE  HandlesInv'
<1>0. PaneShape /\ BookShape /\ ThreadShape /\ NumberInv /\ LoadInv
  BY DEF HandlesInv
<1>1. /\ file' = NoHandles /\ behind' = TRUE
      /\ UNCHANGED <<homeNamed, pane, opens, handles, thread, adrift, said, homes, cut, lost, late,
                     crossed, missed, trimmed>>
  BY DEF Forgets
<1>2. PaneShape' /\ BookShape'
  BY <1>0, <1>1 DEF PaneShape, BookShape
<1>3. Grown(handles, pane, opens, handles', pane', opens') /\ (handles # NoHandles => handles.next <= handles.next)
  <2>1. \A c \in Conversations : opens[c] <= opens[c]
    BY <1>0, HandlesAssumption DEF PaneShape
  <2>2. handles # NoHandles => handles.next \in Nat
    BY <1>0 DEF BookShape, BookOK, Book
  <2> QED BY <1>1, <2>1, <2>2 DEF Grown
<1>4. ThreadShape'
  BY <1>0, <1>1, <1>2, <1>3, ThreadsStay
<1>5. NumberInv'
  <2>1. \A q : q \in Claims(said, handles, file', adrift) => q \in Claims(said, handles, file, adrift)
    BY <1>1, ClaimsFacts
  <2> QED BY <1>0, <1>1, <1>2, <1>3, <2>1, NumbersStay DEF Claimed
<1>6. FileInv' /\ NameInv' /\ SavedInv'
  BY <1>1 DEF FileInv, NameInv, SavedInv
<1>7. LoadInv'
  <2>1. ASSUME NEW x, LoadedOK(x)
        PROVE  LoadedOK(x)'
    <3>1. \A p : p \in Claimed' => p \in Claimed
      BY <1>1, ClaimsFacts DEF Claimed
    <3>2. Said' = Said
      BY <1>1 DEF Said
    <3> QED BY <1>1, <2>1, <3>1, <3>2 DEF LoadedOK
  <2>2. ASSUME NEW u \in Callers, thread[u].at \in {"floor", "install"}
        PROVE  LoadedOK(thread[u])'
    <3> PICK x : x = thread[u]
      OBVIOUS
    <3>1. LoadedOK(x)'
      BY <1>0, <2>1, <2>2 DEF LoadInv
    <3> QED BY <1>1, <3>1
  <2> QED BY <1>0, <1>1, <2>2 DEF LoadInv
<1> QED BY <1>2, <1>4, <1>5, <1>6, <1>7 DEF HandlesInv

\* What the books say holds of panes that have been opened, named or closed since.
LEMMA BooksStay ==
    ASSUME PaneShape, PaneShape', BookShape, homeNamed => homeNamed',
           Grown(handles, pane, opens, handles, pane', opens'),
           UNCHANGED <<handles, file, adrift, said>>
    PROVE  BookShape'
<1>1. \A c \in Conversations : /\ opens[c] <= opens'[c] /\ opens[c] \in Nat /\ opens'[c] \in Nat
                               /\ pane[c] \in Bound => pane'[c] \in Bound
  BY HandlesAssumption DEF PaneShape, Grown
<1>2. \A f : FormOK(f, pane) => FormOK(f, pane')
  BY <1>1, FormGrows
<1>3. handles # NoHandles => BookOK(handles, pane', opens')
  <2>1. ASSUME handles # NoHandles, NEW e \in handles.named
        PROVE  e.session \in 0 .. opens'[e.conv] /\ (e.session = NoSession => pane'[e.conv] \in Bound)
    <3>1. /\ e.conv \in Conversations /\ e.session \in 0 .. opens[e.conv]
          /\ e.session = NoSession => pane[e.conv] \in Bound
      BY <2>1 DEF BookShape, BookOK, Book, Handle
    <3> QED BY <1>1, <3>1
  <2> QED BY <2>1 DEF BookShape, BookOK
<1> QED BY <1>2, <1>3 DEF BookShape

\* Panes come, are named, and go, and the handles stay as they are.
LEMMA PaneStep ==
    ASSUME HandlesInv, PaneShape', ThreadShape', homeNamed => homeNamed',
           Grown(handles, pane, opens, handles, pane', opens'),
           \A u \in Threads : thread[u].at \in {"form", "write"} => thread'[u] = thread[u],
           handles # NoHandles =>
               \A e \in handles.named : e.session # NoSession /\ ToBind(e) => ToBind(e)',
           \A u \in Callers : thread'[u].at \in Loading => thread'[u] = thread[u],
           UNCHANGED <<handles, file, adrift, said, homes, behind, cut, lost, late, crossed,
                       missed, trimmed>>
    PROVE  HandlesInv'
<1>0. PaneShape /\ BookShape /\ ThreadShape /\ NumberInv /\ FileInv /\ NameInv /\ SavedInv
      /\ LoadInv
  BY DEF HandlesInv
<1>1. BookShape'
  BY <1>0, BooksStay
<1>2. NumberInv' /\ FileInv'
  BY <1>0 DEF NumberInv, FileInv, Claimed
<1>3. NameInv'
  BY <1>0 DEF NameInv
<1>4. SavedInv'
  BY <1>0 DEF SavedInv
<1>5. LoadInv'
  <2>1. crossed' \in BOOLEAN
    BY <1>0 DEF LoadInv
  <2> QED BY <1>0, <2>1, LoadStays
<1> QED BY <1>1, <1>2, <1>3, <1>4, <1>5 DEF HandlesInv

\* Home, and each conversation, gets its name; panes open and close.
LEMMA HomeIsNamedStep ==
    ASSUME HandlesInv, HomeIsNamed
    PROVE  HandlesInv'
<1>0. PaneShape /\ BookShape /\ ThreadShape
  BY DEF HandlesInv
<1>1. homeNamed' = TRUE /\ UNCHANGED <<pane, opens, handles, file, thread, adrift, said, homes, history>>
  BY DEF HomeIsNamed
<1>2. PaneShape'
  BY <1>0, <1>1 DEF PaneShape
<1>3. Grown(handles, pane, opens, handles, pane', opens')
  <2>1. \A c \in Conversations : opens[c] <= opens[c]
    BY <1>0, HandlesAssumption DEF PaneShape
  <2>2. handles # NoHandles => handles.next <= handles.next
    BY <1>0 DEF BookShape, BookOK, Book
  <2> QED BY <1>1, <2>1, <2>2 DEF Grown
<1>4. BookShape' /\ ThreadShape'
  BY <1>0, <1>1, <1>2, <1>3, BooksStay, ThreadsStay DEF history
<1>5. \A e : ToBind(e) => ToBind(e)'
  BY <1>1 DEF ToBind
<1> QED BY <1>1, <1>2, <1>3, <1>4, <1>5, PaneStep DEF history

LEMMA OpenPaneStep ==
    ASSUME HandlesInv, NEW c \in Conversations, OpenPane(c)
    PROVE  HandlesInv'
<1>0. PaneShape /\ BookShape /\ ThreadShape
  BY DEF HandlesInv
<1> PICK k : k = opens[c] + 1
  OBVIOUS
<1> PICK x : x = IF pane[c] = "never" THEN "unnamed" ELSE "named"
  OBVIOUS
<1>1. /\ opens[c] < MaxOpens /\ opens' = [opens EXCEPT ![c] = k]
      /\ pane[c] \in {"never", "shut"} /\ pane' = [pane EXCEPT ![c] = x]
      /\ UNCHANGED <<homeNamed, handles, file, thread, adrift, said, homes, history>>
  BY DEF OpenPane
<1>2. /\ opens'[c] = opens[c] + 1 /\ pane'[c] = x /\ opens[c] \in 0 .. MaxOpens
      /\ \A d \in Conversations \ {c} : opens'[d] = opens[d] /\ pane'[d] = pane[d]
  BY <1>0, <1>1 DEF PaneShape
<1>3. PaneShape'
  <2>1. opens' \in [Conversations -> 0 .. MaxOpens]
    <3>1. k \in 0 .. MaxOpens
      BY <1>1, <1>2, HandlesAssumption
    <3> QED BY <1>0, <1>1, <3>1 DEF PaneShape
  <2>2. pane' \in [Conversations -> {"never", "unnamed", "named", "shut", "lost"}]
    BY <1>0, <1>1 DEF PaneShape
  <2>3. /\ pane'[c] \in {"unnamed", "named"} /\ opens'[c] # 0
        /\ pane'[c] = "unnamed" => opens'[c] = 1
    BY <1>0, <1>1, <1>2, HandlesAssumption DEF PaneShape
  <2> QED BY <1>0, <1>1, <1>2, <2>1, <2>2, <2>3 DEF PaneShape
<1>4. Grown(handles, pane, opens, handles, pane', opens')
  <2>1. \A d \in Conversations : opens[d] \in Nat
    BY <1>0, HandlesAssumption DEF PaneShape
  <2>2. \A d \in Conversations : opens[d] <= opens'[d] /\ (pane[d] \in Bound => pane'[d] \in Bound)
    BY <1>1, <1>2, <2>1 DEF Bound
  <2>3. handles # NoHandles => handles.next <= handles.next
    BY <1>0 DEF BookShape, BookOK, Book
  <2> QED BY <2>2, <2>3 DEF Grown
<1>5. BookShape'
  BY <1>0, <1>1, <1>3, <1>4, BooksStay
<1>6. ThreadShape'
  BY <1>0, <1>1, <1>3, <1>4, <1>5, ThreadsStay DEF history
<1>7. ASSUME handles # NoHandles, NEW e \in handles.named, ToBind(e)
      PROVE  ToBind(e)'
  <2>1. e.conv \in Conversations
    BY <1>0, <1>7 DEF BookShape, BookOK, Book, Handle
  <2> QED BY <1>1, <1>2, <1>7, <2>1 DEF ToBind
<1> QED BY <1>1, <1>3, <1>4, <1>6, <1>7, PaneStep DEF history

LEMMA ClosePaneStep ==
    ASSUME HandlesInv, NEW c \in Conversations, ClosePane(c)
    PROVE  HandlesInv'
<1>0. PaneShape /\ BookShape /\ ThreadShape
  BY DEF HandlesInv
<1>1. /\ pane[c] \in {"unnamed", "named"} /\ pane' = [pane EXCEPT ![c] = Shut(pane[c])]
      /\ UNCHANGED <<homeNamed, opens, handles, file, thread, adrift, said, homes, history>>
  BY DEF ClosePane
<1>2. /\ pane[c] = "named" => pane'[c] = "shut"
      /\ pane[c] = "unnamed" => pane'[c] = "lost"
      /\ \A d \in Conversations \ {c} : pane'[d] = pane[d]
  BY <1>0, <1>1 DEF PaneShape, Shut
<1>3. PaneShape'
  <2>1. pane' \in [Conversations -> {"never", "unnamed", "named", "shut", "lost"}]
    BY <1>0, <1>1, <1>2 DEF PaneShape
  <2> QED BY <1>0, <1>1, <1>2, <2>1 DEF PaneShape
<1>4. Grown(handles, pane, opens, handles, pane', opens')
  <2>1. \A d \in Conversations : opens[d] <= opens[d]
    BY <1>0, HandlesAssumption DEF PaneShape
  <2>2. \A d \in Conversations : pane[d] \in Bound => pane'[d] \in Bound
    BY <1>1, <1>2 DEF Bound
  <2>3. handles # NoHandles => handles.next <= handles.next
    BY <1>0 DEF BookShape, BookOK, Book
  <2> QED BY <1>1, <2>1, <2>2, <2>3 DEF Grown
<1>5. BookShape'
  BY <1>0, <1>1, <1>3, <1>4, BooksStay
<1>6. ThreadShape'
  BY <1>0, <1>1, <1>3, <1>4, <1>5, ThreadsStay DEF history
<1>7. ASSUME handles # NoHandles, NEW e \in handles.named, ToBind(e)
      PROVE  ToBind(e)'
  <2>1. e.conv \in Conversations
    BY <1>0, <1>7 DEF BookShape, BookOK, Book, Handle
  <2> QED BY <1>1, <1>2, <1>7, <2>1 DEF ToBind
<1> QED BY <1>1, <1>3, <1>4, <1>6, <1>7, PaneStep DEF history

\* A handle that is to be bound is one of a session that there has been.
LEMMA HolderOf ==
    ASSUME PaneShape, BookShape, handles # NoHandles, NEW e \in handles.named, e.session # NoSession
    PROVE  <<e.conv, e.session>> \in Holders /\ <<e.conv, e.session>> \in Threads \ Callers
<1>1. /\ e.conv \in Conversations /\ e.session \in 0 .. opens[e.conv]
      /\ opens[e.conv] \in 0 .. MaxOpens
  BY DEF BookShape, BookOK, Book, Handle, PaneShape
<1> QED BY <1>1, HandlesAssumption DEF Threads, Holders, NoSession, Callers, Tool, Courier

\* A session that has been named has its handles to bind.
LEMMA NamedStep ==
    ASSUME HandlesInv, NEW c \in Conversations, Named(c)
    PROVE  HandlesInv'
<1>0. PaneShape /\ BookShape /\ ThreadShape
  BY DEF HandlesInv
<1> PICK s : s = <<c, opens[c]>>
  OBVIOUS
<1> PICK y : y = [at |-> "bind"]
  OBVIOUS
<1>1. /\ pane[c] = "unnamed" /\ pane' = [pane EXCEPT ![c] = "named"]
      /\ thread' = [thread EXCEPT ![s] = y]
      /\ UNCHANGED <<homeNamed, opens, handles, file, adrift, said, homes, history>>
  BY DEF Named
<1>2. /\ pane'[c] = "named" /\ \A d \in Conversations \ {c} : pane'[d] = pane[d]
      /\ opens[c] = 1 /\ opens[c] \in 0 .. MaxOpens
  BY <1>0, <1>1 DEF PaneShape
<1>3. s \in Holders /\ s \in Threads /\ s \notin Callers /\ s[1] = c
  BY <1>2, HandlesAssumption DEF Holders, Threads, Callers, Tool, Courier
<1>4. thread[s] = Idle
  BY <1>0, <1>1, <1>3 DEF ThreadShape, Bound
<1>5. /\ thread'[s] = y /\ y.at = "bind"
      /\ \A u \in Threads \ {s} : thread'[u] = thread[u]
  BY <1>0, <1>1, <1>3 DEF ThreadShape
<1>6. PaneShape'
  <2>1. pane' \in [Conversations -> {"never", "unnamed", "named", "shut", "lost"}]
    BY <1>0, <1>1, <1>2 DEF PaneShape
  <2> QED BY <1>0, <1>1, <1>2, <2>1 DEF PaneShape
<1>7. Grown(handles, pane, opens, handles, pane', opens')
  <2>1. \A d \in Conversations : opens[d] <= opens[d]
    BY <1>0, HandlesAssumption DEF PaneShape
  <2>2. \A d \in Conversations : pane[d] \in Bound => pane'[d] \in Bound
    BY <1>1, <1>2 DEF Bound
  <2>3. handles # NoHandles => handles.next <= handles.next
    BY <1>0 DEF BookShape, BookOK, Book
  <2> QED BY <1>1, <2>1, <2>2, <2>3 DEF Grown
<1>8. BookShape'
  BY <1>0, <1>1, <1>6, <1>7, BooksStay
<1>9. ThreadShape'
  <2>1. ThreadOK(y, handles', pane', opens', crossed')
    BY <1>5 DEF ThreadOK, Loading
  <2>2. HolderOK(y) /\ pane'[s[1]] \in Bound
    BY <1>2, <1>3, <1>5 DEF HolderOK, Bound
  <2> QED BY <1>0, <1>1, <1>3, <1>5, <1>6, <1>7, <1>8, <2>1, <2>2, ThreadMoves DEF history
<1>10. ASSUME handles # NoHandles, NEW e \in handles.named, e.session # NoSession, ToBind(e)
       PROVE  ToBind(e)'
  <2>1. e.conv \in Conversations
    BY <1>0, <1>10 DEF BookShape, BookOK, Book, Handle
  <2>2. <<e.conv, e.session>> \in Threads
    BY <1>0, <1>10, HolderOf
  <2>3. thread[<<e.conv, e.session>>].at = "bind" => thread'[<<e.conv, e.session>>].at = "bind"
    BY <1>5, <2>2
  <2>4. ASSUME e.conv = c, opens[c] = e.session
        PROVE  thread'[<<e.conv, e.session>>].at = "bind"
    BY <1>5, <2>4
  <2> QED BY <1>1, <1>2, <1>10, <2>1, <2>3, <2>4 DEF ToBind
<1>11. /\ \A u \in Threads : thread[u].at \in {"form", "write"} => thread'[u] = thread[u]
       /\ \A u \in Callers : thread'[u] = thread[u]
  BY <1>3, <1>4, <1>5 DEF Idle, Threads
<1> QED BY <1>1, <1>6, <1>7, <1>9, <1>10, <1>11, PaneStep DEF history

-----------------------------------------------------------------------------
\* Handles of a book that are to be bound, and may be.
Bindable(mine, h, p) ==
    mine \subseteq h.named /\ \A e \in mine : e.session # NoSession /\ p[e.conv] \in Bound

\* The book with those bound.
Rebinding(h, mine) == [h EXCEPT !.named = Binding(h.named, mine)]

\* A book of which some have been bound is the same book to whoever asks for a
\* number or for a conversation.
LEMMA Rebound ==
    ASSUME NEW h, NEW p, NEW o \in [Conversations -> 0 .. MaxOpens], BookOK(h, p, o),
           NEW mine, Bindable(mine, h, p), NEW b, b = Rebinding(h, mine)
    PROVE  /\ BookOK(b, p, o) /\ b # NoHandles /\ b.next = h.next /\ b.home = h.home
           /\ \A e \in b.named : \E g \in h.named : Pair(e) = Pair(g)
           /\ \A e \in h.named : \E g \in b.named : Pair(e) = Pair(g)
           /\ \A e \in h.named : e.session = NoSession => e \in b.named
           /\ \A e \in b.named : e.session # NoSession => e \in h.named \ mine
           /\ OneEach(h) => OneEach(b)
<1> PICK B : B = Binding(h.named, mine)
  OBVIOUS
<1>1. /\ h \in Book /\ h.named \in SUBSET Handle /\ IsFiniteSet(h.named)
      /\ mine \in SUBSET h.named
      /\ \A e \in mine : e.session # NoSession /\ p[e.conv] \in Bound
  BY DEF BookOK, Book, Numbered, Bindable
<1>2. /\ B \in SUBSET Handle
      /\ \A e \in B : \E g \in h.named : Pair(e) = Pair(g) /\ (e = g \/ (g \in mine /\ e.session = NoSession))
      /\ \A g \in h.named : \E e \in B : Pair(e) = Pair(g)
      /\ \A g \in h.named : g \notin mine \/ g.session = NoSession => g \in B
      /\ \A e \in B : e \in h.named \ mine \/ e.session = NoSession
      /\ IsFiniteSet(B)
  BY <1>1, BindingFacts
<1>3. b \in Book /\ b.named = B /\ b.next = h.next /\ b.home = h.home
  BY <1>1, <1>2 DEF Book, Rebinding
<1>4. b # NoHandles
  BY <1>3, HandlesAssumption
<1>5. \A e, g \in B : Pair(e) = Pair(g) => e = g
  <2>1. SUFFICES ASSUME NEW e \in B, NEW g \in B, Pair(e) = Pair(g) PROVE e = g
    OBVIOUS
  <2>2. e.n = g.n /\ e.conv = g.conv /\ e \in Handle /\ g \in Handle
    BY <1>2, <2>1 DEF Pair
  <2>3. PICK oe \in h.named : Pair(e) = Pair(oe) /\ (e = oe \/ (oe \in mine /\ e.session = NoSession))
    BY <1>2
  <2>4. PICK og \in h.named : Pair(g) = Pair(og) /\ (g = og \/ (og \in mine /\ g.session = NoSession))
    BY <1>2
  <2>5. oe = og
    <3>1. oe.n = og.n
      BY <2>2, <2>3, <2>4 DEF Pair
    <3> QED BY <3>1 DEF BookOK, Numbered
  <2>6. CASE oe \notin mine
    BY <2>3, <2>4, <2>5, <2>6
  <2>7. CASE oe \in mine
    <3>1. e.session = NoSession /\ g.session = NoSession
      BY <1>2, <2>3, <2>4, <2>5, <2>7
    <3> QED BY <2>2, <3>1 DEF Handle
  <2> QED BY <2>6, <2>7
<1>6. BookOK(b, p, o)
  <2>1. ASSUME NEW e \in B
        PROVE  /\ e.n \in 1 .. b.next /\ e.session \in 0 .. o[e.conv]
               /\ e.session = NoSession => p[e.conv] \in Bound
    <3>1. PICK g \in h.named : Pair(e) = Pair(g) /\ (e = g \/ (g \in mine /\ e.session = NoSession))
      BY <1>2
    <3>2. /\ e.n = g.n /\ e.conv = g.conv /\ g.n \in 1 .. b.next /\ g.conv \in Conversations
          /\ g.session \in 0 .. o[g.conv] /\ (g.session = NoSession => p[g.conv] \in Bound)
      BY <1>1, <1>3, <3>1 DEF BookOK, Numbered, Pair, Handle
    <3>3. e.session = NoSession => e.session \in 0 .. o[e.conv]
      BY <3>2, HandlesAssumption DEF NoSession
    <3>4. p[e.conv] \in Bound \/ e = g
      BY <1>1, <3>1, <3>2
    <3>5. CASE e = g
      BY <3>2, <3>5
    <3>6. CASE e.session = NoSession /\ p[e.conv] \in Bound
      BY <3>2, <3>3, <3>6
    <3> QED BY <3>1, <3>4, <3>5, <3>6
  <2>2. \A e, g \in B : e.n = g.n => e = g
    <3>1. SUFFICES ASSUME NEW e \in B, NEW g \in B, e.n = g.n PROVE Pair(e) = Pair(g)
      BY <1>5
    <3>2. PICK oe \in h.named : Pair(e) = Pair(oe)
      BY <1>2
    <3>3. PICK og \in h.named : Pair(g) = Pair(og)
      BY <1>2
    <3>4. oe = og
      BY <3>1, <3>2, <3>3 DEF Pair, BookOK, Numbered
    <3> QED BY <3>2, <3>3, <3>4
  <2> QED BY <1>2, <1>3, <2>1, <2>2 DEF BookOK, Numbered
<1>7. ASSUME OneEach(h)
      PROVE  OneEach(b)
  <2>1. SUFFICES ASSUME NEW e \in B, NEW g \in B, e.conv = g.conv PROVE Pair(e) = Pair(g)
    BY <1>3, <1>5 DEF OneEach
  <2>2. PICK oe \in h.named : Pair(e) = Pair(oe)
    BY <1>2
  <2>3. PICK og \in h.named : Pair(g) = Pair(og)
    BY <1>2
  <2>4. oe = og
    BY <1>7, <2>1, <2>2, <2>3 DEF Pair, OneEach
  <2> QED BY <2>2, <2>3, <2>4
<1> QED BY <1>2, <1>3, <1>4, <1>6, <1>7

\* The same of the book in memory.
LEMMA BookRebound ==
    ASSUME BookOK(handles, pane, opens), opens \in [Conversations -> 0 .. MaxOpens],
           NEW mine, Bindable(mine, handles, pane), handles' = Rebinding(handles, mine)
    PROVE  /\ BookOK(handles', pane, opens) /\ handles' # NoHandles
           /\ handles'.next = handles.next /\ handles'.home = handles.home
           /\ \A e \in handles'.named : \E g \in handles.named : Pair(e) = Pair(g)
           /\ \A e \in handles.named : \E g \in handles'.named : Pair(e) = Pair(g)
           /\ \A e \in handles.named : e.session = NoSession => e \in handles'.named
           /\ \A e \in handles'.named : e.session # NoSession => e \in handles.named \ mine
           /\ OneEach(handles) => OneEach(handles')
<1> PICK b : b = handles'
  OBVIOUS
<1> QED BY Rebound

\* A thread has bound some handles, and is to save them.
LEMMA RebindStep ==
    ASSUME HandlesInv, handles # NoHandles, NEW mine \in SUBSET handles.named,
           \A e \in mine : e.session # NoSession /\ pane[e.conv] \in Bound,
           handles' = [handles EXCEPT !.named = Binding(handles.named, mine)],
           NEW t \in Threads, NEW y, y.at = "form", thread' = [thread EXCEPT ![t] = y],
           ThenOK(y.next, handles, opens, crossed),
           t \in Holders => y.next = Idle /\ pane[t[1]] \in Bound,
           \A e \in handles.named \ mine : e.session # NoSession /\ ToBind(e) => ToBind(e)',
           UNCHANGED <<homeNamed, pane, opens, file, adrift, said, homes, behind, cut, lost, late,
                       crossed, missed, trimmed>>
    PROVE  HandlesInv'
<1>0. PaneShape /\ BookShape /\ ThreadShape /\ NumberInv /\ FileInv /\ NameInv /\ LoadInv
  BY DEF HandlesInv
<1>1. /\ BookOK(handles, pane, opens) /\ handles \in Book /\ handles.next \in Nat
      /\ opens \in [Conversations -> 0 .. MaxOpens]
  BY <1>0 DEF BookShape, BookOK, Book, PaneShape
<1>2. /\ BookOK(handles', pane, opens) /\ handles' # NoHandles
      /\ handles'.next = handles.next /\ handles'.home = handles.home
      /\ \A e \in handles'.named : \E g \in handles.named : Pair(e) = Pair(g)
      /\ \A e \in handles.named : \E g \in handles'.named : Pair(e) = Pair(g)
      /\ \A e \in handles.named : e.session = NoSession => e \in handles'.named
      /\ \A e \in handles'.named : e.session # NoSession => e \in handles.named \ mine
      /\ OneEach(handles) => OneEach(handles')
  <2>1. Bindable(mine, handles, pane) /\ handles' = Rebinding(handles, mine)
    BY DEF Bindable, Rebinding
  <2> QED BY <1>1, <2>1, BookRebound
<1>3. PaneShape' /\ BookShape'
  BY <1>0, <1>2 DEF PaneShape, BookShape
<1>4. Grown(handles, pane, opens, handles', pane', opens')
  <2>1. \A c \in Conversations : opens[c] <= opens[c]
    BY <1>0, HandlesAssumption DEF PaneShape
  <2>2. handles.next <= handles'.next
    BY <1>1, <1>2
  <2>3. \A e \in handles.named : \E g \in handles'.named : Pair(g) = Pair(e)
    BY <1>2
  <2> QED BY <1>2, <2>1, <2>2, <2>3 DEF Grown
<1>5. ThreadShape'
  <2>1. ThenOK(y.next, handles', opens, crossed)
    <3>1. ASSUME y.next.at = "say", ~crossed
          PROVE  \E e \in handles'.named : e.n = y.next.n /\ e.conv = y.next.conv
      <4>1. PICK g \in handles.named : g.n = y.next.n /\ g.conv = y.next.conv
        BY <3>1 DEF ThenOK
      <4>2. PICK e \in handles'.named : Pair(g) = Pair(e)
        BY <1>2
      <4>3. e.n = g.n /\ e.conv = g.conv
        BY <4>2 DEF Pair
      <4> QED BY <4>1, <4>3
    <3> QED BY <3>1 DEF ThenOK
  <2>2. ThreadOK(y, handles', pane', opens', crossed')
    BY <1>2, <2>1 DEF ThreadOK, Loading
  <2>3. t \in Holders => HolderOK(y) /\ pane'[t[1]] \in Bound
    BY DEF HolderOK
  <2> QED BY <1>0, <1>3, <1>4, <2>2, <2>3, ThreadMoves
<1>6. NumberInv'
  <2>1. \A q : q \in Claims(said, handles', file, adrift) => q \in Claims(said, handles, file, adrift)
    BY <1>2, ClaimsRead
  <2>2. handles.next <= handles'.next
    BY <1>1, <1>2
  <2> QED BY <1>0, <1>3, <2>1, <2>2, NumbersStay DEF Claimed
<1>7. FileInv'
  <2> SUFFICES ASSUME ~crossed, ~behind, ~lost PROVE FileInv'
    BY DEF FileInv
  <2>1. \A p \in said : Listed(p, handles')
    BY <1>0, <1>2 DEF FileInv, Listed
  <2>2. ASSUME NEW f, FormOK(f, pane), Within(f, handles)
        PROVE  Within(f, handles')
    BY <1>2, <2>2 DEF FormOK, Within
  <2>3. file # NoHandles => Within(file, handles')
    BY <1>0, <2>2 DEF FileInv, BookShape
  <2>4. \A a \in adrift : Within(a.form, handles')
    BY <1>0, <2>2 DEF FileInv, BookShape
  <2> QED BY <1>2, <2>1, <2>3, <2>4 DEF FileInv
<1>8. NameInv'
  BY <1>0, <1>2 DEF NameInv
<1>9. SavedInv'
  <2>1. thread'[t].at = "form"
    BY <1>0 DEF ThreadShape
  <2> QED BY <2>1 DEF SavedInv
<1>10. LoadInv'
  <2>1. y.at \notin Loading
    BY DEF Loading
  <2> QED BY <1>0, <1>2, <2>1, LoadMoves
<1> QED BY <1>3, <1>5, <1>6, <1>7, <1>8, <1>9, <1>10 DEF HandlesInv

\* The reader of a session binds what is to be bound, and leaves nothing behind.
LEMMA BindStep ==
    ASSUME HandlesInv, NEW s \in Holders, Bind(s[1], s[2])
    PROVE  HandlesInv'
<1> PICK c : c = s[1]
  OBVIOUS
<1> PICK k : k = s[2]
  OBVIOUS
<1> PICK mine : mine = IF handles = NoHandles THEN {}
                       ELSE {e \in handles.named : e.conv = c /\ e.session = k}
  OBVIOUS
<1>0. PaneShape /\ BookShape /\ ThreadShape /\ NumberInv /\ FileInv /\ NameInv /\ SavedInv
  BY DEF HandlesInv
<1>1. s = <<c, k>> /\ c \in Conversations /\ k \in 1 .. MaxOpens /\ s \in Threads /\ s \notin Callers
  BY HandlesAssumption DEF Holders, Threads, Callers, Tool, Courier
<1>2. /\ thread[s].at = "bind"
      /\ IF mine # {}
         THEN /\ handles' = [handles EXCEPT !.named = Binding(@, mine)]
              /\ thread' = [thread EXCEPT ![s] = [at |-> "form", next |-> Idle]]
         ELSE thread' = [thread EXCEPT ![s] = Idle] /\ UNCHANGED handles
      /\ UNCHANGED <<homeNamed, pane, opens, file, adrift, said, homes, history>>
  BY <1>1 DEF Bind
<1>3. pane[c] \in Bound
  <2>1. thread[s] # Idle
    BY <1>2 DEF Idle
  <2> QED BY <1>0, <1>1, <2>1 DEF ThreadShape
<1>4. \A u \in Threads \ {s} : thread'[u] = thread[u]
  BY <1>0, <1>2 DEF ThreadShape
<1>5. ASSUME handles # NoHandles, NEW e \in handles.named \ mine, e.session # NoSession, ToBind(e)
      PROVE  ToBind(e)'
  <2>1. <<e.conv, e.session>> \in Threads
    BY <1>0, <1>5, HolderOf
  <2>2. <<e.conv, e.session>> # s
    BY <1>1, <1>5
  <2>3. thread'[<<e.conv, e.session>>] = thread[<<e.conv, e.session>>]
    BY <1>4, <2>1, <2>2
  <2> QED BY <1>2, <1>5, <2>3 DEF ToBind
<1>6. CASE mine # {}
  <2> PICK y : y = [at |-> "form", next |-> Idle]
    OBVIOUS
  <2>1. handles # NoHandles /\ mine \in SUBSET handles.named
    BY <1>6
  <2>2. \A e \in mine : e.session # NoSession /\ pane[e.conv] \in Bound
    BY <1>1, <1>3, <2>1 DEF NoSession
  <2>3. /\ y.at = "form" /\ thread' = [thread EXCEPT ![s] = y] /\ y.next = Idle
        /\ ThenOK(y.next, handles, opens, crossed)
    BY <1>2, <1>6 DEF ThenOK, Idle
  <2>4. handles' = [handles EXCEPT !.named = Binding(handles.named, mine)]
    BY <1>2, <1>6
  <2>5. \A e \in handles.named \ mine : e.session # NoSession /\ ToBind(e) => ToBind(e)'
    BY <1>5, <2>1
  <2> QED BY <1>1, <1>2, <1>3, <2>1, <2>2, <2>3, <2>4, <2>5, RebindStep DEF history
<1>7. CASE mine = {}
  <2>1. thread' = [thread EXCEPT ![s] = Idle] /\ handles' = handles
    BY <1>2, <1>7
  <2>2. Grown(handles, pane, opens, handles', pane', opens')
    <3>1. \A d \in Conversations : opens[d] <= opens[d]
      BY <1>0, HandlesAssumption DEF PaneShape
    <3>2. handles # NoHandles => handles.next <= handles.next
      BY <1>0 DEF BookShape, BookOK, Book
    <3> QED BY <1>2, <2>1, <3>1, <3>2 DEF Grown
  <2>3. PaneShape' /\ BookShape'
    BY <1>0, <1>2, <2>1 DEF PaneShape, BookShape
  <2>4. ThreadShape'
    <3>1. ThreadOK(Idle, handles', pane', opens', crossed') /\ Idle.at = "idle"
      BY DEF ThreadOK, ThenOK, Idle, Loading
    <3> QED BY <1>0, <1>1, <1>2, <2>1, <2>2, <2>3, <3>1, ThreadMoves DEF history
  <2>5. \A u \in Threads : thread[u].at \in {"form", "write"} => thread'[u] = thread[u]
    BY <1>2, <1>4
  <2>0. \A u \in Callers : thread'[u] = thread[u]
    BY <1>1, <1>4 DEF Threads
  <2>6. handles # NoHandles => \A e \in handles.named : e.session # NoSession /\ ToBind(e) => ToBind(e)'
    BY <1>5, <1>7
  <2>7. Grown(handles, pane, opens, handles, pane', opens')
    BY <2>1, <2>2
  <2> QED BY <1>2, <2>1, <2>3, <2>4, <2>5, <2>0, <2>6, <2>7, PaneStep DEF history
<1> QED BY <1>6, <1>7

-----------------------------------------------------------------------------
\* What a caller does binds nothing of its own accord.
LEMMA StillToBind ==
    ASSUME PaneShape, BookShape, ThreadShape, handles # NoHandles,
           NEW t \in Callers, NEW y, thread' = [thread EXCEPT ![t] = y], UNCHANGED <<pane, opens>>
    PROVE  \A e \in handles.named : e.session # NoSession /\ ToBind(e) => ToBind(e)'
<1>1. SUFFICES ASSUME NEW e \in handles.named, e.session # NoSession, ToBind(e) PROVE ToBind(e)'
  OBVIOUS
<1>2. <<e.conv, e.session>> \in Threads \ Callers
  BY <1>1, HolderOf
<1>3. thread'[<<e.conv, e.session>>] = thread[<<e.conv, e.session>>]
  BY <1>2 DEF ThreadShape
<1> QED BY <1>1, <1>3 DEF ToBind

\* A handle that is new to a book, numbered past all that it has.
Mintable(e, h, p, o) ==
    /\ e \in Handle /\ e.n = h.next + 1 /\ e.session \in 0 .. o[e.conv]
    /\ e.session = NoSession => p[e.conv] \in Bound

\* The book with that handle.
Minting(h, e) == [h EXCEPT !.next = @ + 1, !.named = @ \cup {e}]

\* It is a book, and has no number twice.
LEMMA Minted ==
    ASSUME NEW h, NEW p, NEW o \in [Conversations -> 0 .. MaxOpens], BookOK(h, p, o),
           NEW e, Mintable(e, h, p, o), NEW b, b = Minting(h, e)
    PROVE  /\ BookOK(b, p, o) /\ b # NoHandles /\ b.home = h.home
           /\ b.next = h.next + 1 /\ h.next \in Nat /\ b.named = h.named \cup {e}
<1>1. /\ h \in Book /\ h.next \in Nat /\ h.named \in SUBSET Handle /\ IsFiniteSet(h.named)
      /\ e \in Handle /\ e.n = h.next + 1 /\ e.session \in 0 .. o[e.conv]
      /\ e.session = NoSession => p[e.conv] \in Bound
  BY DEF BookOK, Book, Numbered, Mintable
<1>2. b \in Book /\ b.home = h.home /\ b.next = h.next + 1 /\ b.named = h.named \cup {e}
  <2>1. h.home \in BOOLEAN /\ h.next + 1 \in Nat /\ h.named \cup {e} \in SUBSET Handle
    BY <1>1 DEF Book
  <2>2. b = [home |-> h.home, next |-> h.next + 1, named |-> h.named \cup {e}]
    BY <1>1 DEF Book, Minting
  <2> QED BY <2>1, <2>2 DEF Book
<1>3. b # NoHandles
  BY <1>2, HandlesAssumption
<1>4. IsFiniteSet(b.named)
  BY <1>1, <1>2, FS_AddElement
<1>5. \A g \in h.named : g.n \in 1 .. h.next
  BY DEF BookOK, Numbered
<1>6. \A g \in b.named : g.n \in 1 .. b.next
  BY <1>1, <1>2, <1>5
<1>7. \A f, g \in b.named : f.n = g.n => f = g
  <2>1. \A g \in h.named : g.n # e.n
    BY <1>1, <1>5
  <2> QED BY <1>2, <2>1 DEF BookOK, Numbered
<1>8. \A g \in b.named : /\ g.session \in 0 .. o[g.conv]
                         /\ g.session = NoSession => p[g.conv] \in Bound
  BY <1>1, <1>2 DEF BookOK
<1> QED BY <1>1, <1>2, <1>3, <1>4, <1>6, <1>7, <1>8 DEF BookOK, Numbered

\* It claims what it did, and the new number.
LEMMA ClaimedMinted ==
    ASSUME handles # NoHandles, UNCHANGED <<said, file, adrift>>,
           NEW e, handles'.named = handles.named \cup {e}, NEW q \in Claimed'
    PROVE  q \in Claimed \/ q = Pair(e)
<1> PICK h : h = handles
  OBVIOUS
<1> PICK b : b = handles'
  OBVIOUS
<1>1. q \in Claims(said, b, file, adrift)
  BY DEF Claimed
<1>2. q \in Claims(said, h, file, adrift) \/ \E g \in b.named : q = Pair(g)
  BY <1>1, ClaimsMinted
<1>3. \A g \in h.named : Pair(g) \in Claims(said, h, file, adrift)
  BY ClaimsFacts
<1> QED BY <1>2, <1>3 DEF Claimed

\* The same of the book in memory.
LEMMA BookMinted ==
    ASSUME BookOK(handles, pane, opens), opens \in [Conversations -> 0 .. MaxOpens],
           NEW e, Mintable(e, handles, pane, opens), handles' = Minting(handles, e)
    PROVE  /\ BookOK(handles', pane, opens) /\ handles' # NoHandles /\ handles'.home = handles.home
           /\ handles'.next = handles.next + 1 /\ handles'.named = handles.named \cup {e}
<1> PICK b : b = handles'
  OBVIOUS
<1> QED BY Minted

\* A handle is minted only where the session has none.
LEMMA MintNewStep ==
    ASSUME HandlesInv, NEW t \in Callers, thread[t].at = "mint", NEW call, call = thread[t],
           Found(call.conv, call.session, call.known) = {},
           NEW e, e = [n |-> handles.next + 1, conv |-> call.conv,
                       session |-> IF call.known THEN NoSession ELSE call.session],
           handles' = [handles EXCEPT !.next = @ + 1, !.named = @ \cup {e}],
           NEW y, y = [at |-> "form", next |-> [at |-> "say", n |-> e.n, conv |-> e.conv]],
           thread' = [thread EXCEPT ![t] = y],
           ~missed' => /\ ~missed /\ (call.known \/ pane[call.conv] \notin Bound)
                       /\ \A s \in Holders : s[1] = call.conv => thread[s].at # "bind",
           UNCHANGED <<homeNamed, pane, opens, file, adrift, said, homes, behind, cut, lost, late, crossed,
                       trimmed>>
    PROVE  HandlesInv'
<1>0. PaneShape /\ BookShape /\ ThreadShape /\ NumberInv /\ FileInv /\ NameInv /\ LoadInv
  BY DEF HandlesInv
<1> PICK c : c = call.conv
  OBVIOUS
<1> PICK k : k = call.session
  OBVIOUS
<1>1. t \in Threads /\ t \notin Holders
  BY DEF Threads, Callers, Holders, Tool, Courier
<1>2. /\ handles # NoHandles /\ BookOK(handles, pane, opens) /\ handles \in Book /\ handles.next \in Nat
      /\ c \in Conversations /\ k \in 1 .. opens[c] /\ call.known \in BOOLEAN
      /\ call.known => pane[c] \in Bound
      /\ opens \in [Conversations -> 0 .. MaxOpens] /\ opens[c] \in 0 .. MaxOpens
  BY <1>0, <1>1 DEF ThreadShape, ThreadOK, BookShape, BookOK, Book, PaneShape, Loading
<1>3. /\ e.n = handles.next + 1 /\ e.conv = c
      /\ call.known => e.session = NoSession
      /\ ~call.known => e.session = k
  BY DEF NoSession
<1>4. /\ e \in Handle /\ e.session \in 0 .. opens[e.conv]
      /\ e.session = NoSession => call.known
  <2>1. k \in Nat /\ k # 0
    BY <1>2, HandlesAssumption
  <2>2. CASE call.known
    BY <1>2, <2>2, HandlesAssumption DEF Handle, NoSession
  <2>3. CASE ~call.known
    BY <1>2, <2>1, <2>3, HandlesAssumption DEF Handle, NoSession
  <2> QED BY <2>2, <2>3
<1>5. /\ BookOK(handles', pane, opens) /\ handles' # NoHandles /\ handles'.home = handles.home
      /\ handles'.next = handles.next + 1 /\ handles'.named = handles.named \cup {e}
  <2>1. Mintable(e, handles, pane, opens) /\ handles' = Minting(handles, e)
    BY <1>2, <1>3, <1>4 DEF Mintable, Minting
  <2> QED BY <1>2, <2>1, BookMinted
<1>6. PaneShape' /\ BookShape'
  BY <1>0, <1>2, <1>5 DEF PaneShape, BookShape
<1>7. Grown(handles, pane, opens, handles', pane', opens')
  <2>1. \A d \in Conversations : opens[d] <= opens[d]
    BY <1>0, HandlesAssumption DEF PaneShape
  <2>2. handles.next <= handles'.next
    BY <1>2, <1>5
  <2> QED BY <1>5, <2>1, <2>2 DEF Grown
<1>8. ThreadShape'
  <2>1. ThenOK(y.next, handles', opens, crossed) /\ y.at = "form"
    BY <1>2, <1>3, <1>5 DEF ThenOK
  <2>2. ThreadOK(y, handles', pane', opens', crossed')
    BY <1>5, <2>1 DEF ThreadOK, Loading
  <2> QED BY <1>0, <1>1, <1>6, <1>7, <2>1, <2>2, ThreadMoves
<1>9. NumberInv'
  <2> SUFFICES ASSUME ~crossed, ~cut, ~late PROVE NumberInv'
    BY DEF NumberInv
  <2>1. ASSUME NEW q \in Claimed'
        PROVE  q \in Claimed \/ q = Pair(e)
    BY <1>2, <1>5, <2>1, ClaimedMinted
  <2>2. \A p, q \in Claimed : p.n = q.n => p.conv = q.conv
    BY <1>0 DEF NumberInv
  <2>3. ASSUME NEW q \in Claimed
        PROVE  q.n <= handles.next /\ q.n \in Nat
    <3>1. q \in Claims(said, handles, file, adrift)
      BY <2>3 DEF Claimed
    <3>2. q.n \in Nat
      BY <1>0, <3>1, ClaimsFacts DEF BookShape, BookOK, Book, FormOK, Form, Handle, Pair
    <3> QED BY <1>0, <1>2, <2>3, <3>2 DEF NumberInv
  <2>4. Pair(e).n = handles.next + 1
    BY <1>3 DEF Pair
  <2>5. \A q \in Claimed : q.n # Pair(e).n
    BY <1>2, <2>3, <2>4
  <2>6. \A p, q \in Claimed' : p.n = q.n => p.conv = q.conv
    BY <2>1, <2>2, <2>5
  <2>7. \A q \in Claimed' : q.n <= handles'.next
    BY <1>2, <1>5, <2>1, <2>3, <2>4
  <2> QED BY <2>6, <2>7 DEF NumberInv
<1>10. FileInv'
  <2>1. \A p : Listed(p, handles) => Listed(p, handles')
    BY <1>5 DEF Listed
  <2>2. ASSUME NEW f, FormOK(f, pane), Within(f, handles)
        PROVE  Within(f, handles')
    BY <1>2, <1>5, <2>2 DEF FormOK, Form, Within
  <2>3. ~crossed /\ ~behind /\ ~lost /\ file # NoHandles => Within(file, handles')
    BY <1>0, <1>2, <2>2 DEF FileInv, BookShape
  <2>4. ~crossed /\ ~behind /\ ~lost => \A a \in adrift : Within(a.form, handles')
    BY <1>0, <1>2, <2>2 DEF FileInv, BookShape
  <2>5. ~crossed /\ ~behind /\ ~lost => \A p \in said : Listed(p, handles')
    BY <1>0, <1>2, <2>1 DEF FileInv
  <2> QED BY <1>5, <2>3, <2>4, <2>5 DEF FileInv
<1>11. NameInv'
  <2> SUFFICES ASSUME ~crossed, ~behind, ~lost, ~missed' PROVE NameInv'
    BY DEF NameInv
  <2>1. /\ ~missed /\ (call.known \/ pane[c] \notin Bound)
        /\ \A s \in Holders : s[1] = c => thread[s].at # "bind"
    OBVIOUS
  <2>2. OneEach(handles) /\ \A g \in handles.named : g.session # NoSession => ToBind(g)
    BY <1>0, <1>2, <2>1 DEF NameInv
  <2>3. ASSUME NEW g \in handles.named, g.conv = c
        PROVE  FALSE
    <3>1. g.session # k /\ ~(g.session = NoSession /\ call.known)
      BY <2>3 DEF Found
    <3>2. g.session # NoSession
      <4>1. g.session = NoSession => pane[c] \in Bound
        BY <1>2, <2>3 DEF BookOK
      <4> QED BY <2>1, <3>1, <4>1
    <3>3. <<g.conv, g.session>> \in Holders
      BY <1>0, <1>2, <3>2, HolderOf
    <3>4. thread[<<g.conv, g.session>>].at # "bind"
      BY <2>1, <2>3, <3>3
    <3>5. pane[c] \in {"unnamed", "lost"} /\ opens[c] = g.session
      BY <2>2, <2>3, <3>2, <3>4 DEF ToBind
    <3>6. opens[c] = 1 /\ k = 1
      BY <1>0, <1>2, <3>5 DEF PaneShape
    <3> QED BY <3>1, <3>5, <3>6
  <2>4. OneEach(handles')
    BY <1>3, <1>5, <2>2, <2>3 DEF OneEach
  <2>5. \A g \in handles.named : g.session # NoSession => ToBind(g)'
    BY <1>0, <1>2, <2>2, StillToBind
  <2>6. ASSUME e.session # NoSession
        PROVE  ToBind(e)'
    <3>1. e.session = k /\ pane[c] \notin Bound
      BY <1>3, <2>1, <2>6
    <3>2. pane[c] # "never"
      BY <1>0, <1>2 DEF PaneShape
    <3>3. pane[c] \in {"unnamed", "lost"}
      BY <1>0, <1>2, <3>1, <3>2 DEF PaneShape, Bound
    <3>4. opens[c] = 1 /\ k = 1
      BY <1>0, <1>2, <3>3 DEF PaneShape
    <3> QED BY <1>3, <3>1, <3>3, <3>4 DEF ToBind
  <2> QED BY <1>5, <2>4, <2>5, <2>6 DEF NameInv
<1>12. SavedInv'
  <2>1. thread'[t].at = "form"
    BY <1>0, <1>1 DEF ThreadShape
  <2> QED BY <1>1, <2>1 DEF SavedInv
<1>13. LoadInv'
  <2>1. y.at \notin Loading
    BY DEF Loading
  <2> QED BY <1>0, <1>1, <1>5, <2>1, LoadMoves
<1> QED BY <1>6, <1>8, <1>9, <1>10, <1>11, <1>12, <1>13 DEF HandlesInv

\* A handle is found, found and bound, or minted.
LEMMA MintStep ==
    ASSUME HandlesInv, NEW t \in Callers, Mint(t)
    PROVE  HandlesInv'
<1> PICK call : call = thread[t]
  OBVIOUS
<1> DEFINE found == Found(call.conv, call.session, call.known)
           say(n) == [at |-> "say", n |-> n, conv |-> call.conv]
<1>0. PaneShape /\ BookShape /\ ThreadShape /\ SavedInv
  BY DEF HandlesInv
<1>1. /\ call.at = "mint" /\ t \in Threads /\ t \notin Holders
      /\ UNCHANGED <<homeNamed, pane, opens, file, adrift, said, homes, behind, cut, lost, late,
                     crossed, trimmed>>
  BY DEF Mint, Threads, Callers, Holders, Tool, Courier
<1>2. /\ handles # NoHandles /\ handles \in Book /\ (handles.home => homeNamed)
      /\ call.known => pane[call.conv] \in Bound
  BY <1>0, <1>1 DEF ThreadShape, ThreadOK, BookShape, BookOK, Loading
<1>3. CASE found = {}
  <2> PICK e : e = [n |-> handles.next + 1, conv |-> call.conv,
                    session |-> IF call.known THEN NoSession ELSE call.session]
    OBVIOUS
  <2> PICK y : y = [at |-> "form", next |-> [at |-> "say", n |-> e.n, conv |-> e.conv]]
    OBVIOUS
  <2>1. e.n = handles.next + 1 /\ e.conv = call.conv
    OBVIOUS
  <2>2. /\ handles' = [handles EXCEPT !.next = @ + 1, !.named = @ \cup {e}]
        /\ thread' = [thread EXCEPT ![t] = y]
        /\ missed' = (missed \/ (~call.known /\ pane[call.conv] \in {"named", "shut"})
                      \/ \E s \in Holders : s[1] = call.conv /\ thread[s].at = "bind")
    BY <1>3, <2>1 DEF Mint
  <2>3. ~missed' => /\ ~missed /\ (call.known \/ pane[call.conv] \notin Bound)
                    /\ \A s \in Holders : s[1] = call.conv => thread[s].at # "bind"
    BY <2>2, Zenon DEF Bound
  <2> QED BY <1>1, <1>3, <2>2, <2>3, MintNewStep
<1>4. CASE found # {}
  <2> PICK e : e = First(found)
    OBVIOUS
  <2>1. e \in found
    <3>1. found \in SUBSET Handle
      BY <1>2 DEF Found, Book
    <3> QED BY <1>4, <3>1, FirstFound
  <2>2. e \in handles.named /\ e.conv = call.conv
    BY <2>1 DEF Found
  <2>3. ThenOK(say(e.n), handles, opens, crossed)
    BY <1>2, <2>2 DEF ThenOK, Book, Handle
  <2>4. /\ IF e.session # NoSession /\ call.known
           THEN /\ handles' = [handles EXCEPT !.named = Binding(@, {e})]
                /\ thread' = [thread EXCEPT ![t] = [at |-> "form", next |-> say(e.n)]]
           ELSE thread' = [thread EXCEPT ![t] = say(e.n)] /\ UNCHANGED handles
        /\ UNCHANGED missed
    BY <1>4 DEF Mint
  <2>5. CASE e.session # NoSession /\ call.known
    <3> PICK y : y = [at |-> "form", next |-> say(e.n)]
      OBVIOUS
    <3> PICK mine : mine = {e}
      OBVIOUS
    <3>1. /\ mine \in SUBSET handles.named
          /\ \A g \in mine : g.session # NoSession /\ pane[g.conv] \in Bound
          /\ handles' = [handles EXCEPT !.named = Binding(handles.named, mine)]
      BY <1>2, <2>2, <2>4, <2>5
    <3>2. y.at = "form" /\ thread' = [thread EXCEPT ![t] = y] /\ ThenOK(y.next, handles, opens, crossed)
      BY <2>3, <2>4, <2>5
    <3>3. \A g \in handles.named \ mine : g.session # NoSession /\ ToBind(g) => ToBind(g)'
      BY <1>0, <1>1, <1>2, <3>2, StillToBind
    <3> HIDE DEF say
    <3> QED BY <1>1, <1>2, <2>4, <3>1, <3>2, <3>3, RebindStep
  <2>6. CASE ~(e.session # NoSession /\ call.known)
    <3> PICK y : y = say(e.n)
      OBVIOUS
    <3>1. thread' = [thread EXCEPT ![t] = y] /\ handles' = handles /\ missed' = missed /\ y.at = "say"
      BY <2>4, <2>6
    <3>2. ThreadOK(y, handles', pane, opens, crossed)
      BY <1>2, <2>3, <3>1 DEF ThreadOK, Loading
    <3>3. \A u \in Threads : thread[u].at \in {"form", "write"} => thread'[u] = thread[u]
      BY <1>0, <1>1, <3>1 DEF ThreadShape
    <3>4. SavedInv'
      BY <1>0, <1>1, <3>1, <3>3 DEF SavedInv
    <3> HIDE DEF say
    <3> QED BY <1>1, <1>2, <3>1, <3>2, <3>4, QuietStep DEF Loading
  <2> QED BY <2>5, <2>6
<1> QED BY <1>3, <1>4

-----------------------------------------------------------------------------
\* Home goes, and what it had is in the file or counts as lost.
LEMMA ResumeStep ==
    ASSUME HandlesInv, Resumes, PaneShape',
           \A c \in Conversations : pane[c] \in Bound => pane'[c] \in Bound,
           \A a \in adrift' : \/ a \in adrift
                              \/ \E t \in Threads : /\ thread[t].at = "write"
                                                    /\ a = [form |-> thread[t].form, past |-> FALSE],
           thread' = [t \in Threads |-> thread'[t]],
           \A t \in Threads : thread'[t] = Idle \/ (thread'[t] = thread[t] /\ thread[t].at = "bind")
    PROVE  HandlesInv'
<1>0. PaneShape /\ BookShape /\ ThreadShape /\ NumberInv /\ FileInv /\ NameInv /\ LoadInv
  BY DEF HandlesInv
<1>1. /\ homeNamed /\ handles' = NoHandles /\ homes' = homes + 1
      /\ lost' = (lost \/ (handles # NoHandles /\ Unsaved))
      /\ UNCHANGED <<homeNamed, opens, file, said, behind, cut, late, crossed, missed, trimmed>>
  BY DEF Resumes
<1>2. ASSUME NEW a \in adrift'
      PROVE  /\ a \in [form : Form, past : BOOLEAN] /\ FormOK(a.form, pane)
             /\ \/ a \in adrift
                \/ handles # NoHandles /\ ~a.past /\ (crossed \/ Within(a.form, handles))
  <2>1. CASE a \in adrift
    BY <1>0, <2>1 DEF BookShape
  <2>2. CASE \E t \in Threads : thread[t].at = "write" /\ a = [form |-> thread[t].form, past |-> FALSE]
    <3>1. PICK t \in Threads : thread[t].at = "write" /\ a = [form |-> thread[t].form, past |-> FALSE]
      BY <2>2
    <3>2. /\ ThreadOK(thread[t], handles, pane, opens, crossed) /\ a.form = thread[t].form /\ a.past = FALSE
      BY <1>0, <3>1 DEF ThreadShape
    <3>3. FormOK(a.form, pane) /\ (crossed \/ Within(a.form, handles)) /\ handles # NoHandles
      BY <3>1, <3>2 DEF ThreadOK, Loading
    <3>4. a \in [form : Form, past : BOOLEAN]
      BY <3>1, <3>2, <3>3 DEF FormOK
    <3> QED BY <3>2, <3>3, <3>4
  <2> QED BY <1>2, <2>1, <2>2
<1>3. \A f : FormOK(f, pane) => FormOK(f, pane')
  BY FormGrows
<1>4. BookShape'
  BY <1>0, <1>1, <1>2, <1>3 DEF BookShape
<1>5. ThreadShape'
  <2>1. \A t \in Threads : thread'[t].at \in {"idle", "bind"} /\ (thread'[t].at = "idle" => thread'[t] = Idle)
    BY DEF Idle
  <2>2. \A t \in Threads : ThreadOK(thread'[t], handles', pane', opens', crossed')
    BY <2>1 DEF ThreadOK, ThenOK, Loading
  <2>3. \A s \in Holders : s \in Threads /\ s[1] \in Conversations
    BY DEF Holders, Threads
  <2>4. \A t \in Callers : t \in Threads
    BY DEF Threads
  <2>5. \A t \in Callers : thread'[t].at # "bind"
    BY <1>0, <2>4 DEF ThreadShape, Idle
  <2>6. \A s \in Holders : thread'[s] # Idle => HolderOK(thread'[s]) /\ pane'[s[1]] \in Bound
    BY <1>0, <2>3 DEF ThreadShape, HolderOK
  <2>7. \A t \in Threads : thread'[t].at # "write"
    BY <2>1
  <2> QED BY <2>2, <2>5, <2>6, <2>7 DEF ThreadShape
<1>6. NumberInv'
  <2>1. ASSUME ~crossed, NEW q \in Claims(said, NoHandles, file, adrift')
        PROVE  q \in Claims(said, handles, file, adrift)
    <3>1. CASE \E a \in adrift' : ~a.past /\ \E e \in a.form.named : q = Pair(e)
      <4>1. PICK a \in adrift' : ~a.past /\ \E e \in a.form.named : q = Pair(e)
        BY <3>1
      <4>2. CASE a \in adrift
        BY <4>1, <4>2, ClaimsFacts
      <4>3. CASE handles # NoHandles /\ Within(a.form, handles)
        <5>1. \E e \in handles.named : q = Pair(e)
          BY <4>1, <4>3 DEF Within
        <5> QED BY <4>3, <5>1, ClaimsFacts
      <4> QED BY <1>2, <2>1, <4>2, <4>3
    <3>2. CASE ~\E a \in adrift' : ~a.past /\ \E e \in a.form.named : q = Pair(e)
      <4>1. q \in said \/ (file # NoHandles /\ \E e \in file.named : q = Pair(e))
        BY <2>1, <3>2, ClaimsFacts
      <4> QED BY <4>1, ClaimsFacts
    <3> QED BY <3>1, <3>2
  <2>2. ~crossed => \A q \in Claimed' : q \in Claimed
    BY <1>1, <2>1 DEF Claimed
  <2> QED BY <1>0, <1>1, <1>4, <2>2, NumbersStay
<1>7. ASSUME ~lost'
      PROVE  ~lost /\ (handles = NoHandles \/ ~Unsaved)
  BY <1>1, <1>7, Zenon
<1>8. ASSUME file # NoHandles, handles # NoHandles, ~Unsaved
      PROVE  /\ handles.named \subseteq file.named /\ handles.next <= file.next
             /\ handles.next \in Nat /\ file.next \in Nat
  <2>1. handles.next \in Nat /\ file.next \in Nat
    BY <1>0, <1>8 DEF BookShape, BookOK, Book, FormOK, Form
  <2> QED BY <1>8, <2>1 DEF Unsaved
<1>9. ASSUME file = NoHandles, handles # NoHandles, ~Unsaved
      PROVE  handles.next = 0 /\ handles.named = {}
  <2>1. BookOK(handles, pane, opens) /\ handles.next \in Nat
    BY <1>0, <1>9 DEF BookShape, BookOK, Book
  <2>2. handles.next = 0
    BY <1>9, <2>1 DEF Unsaved
  <2> QED BY <2>1, <2>2 DEF BookOK, Numbered
<1>10. FileInv'
  <2> SUFFICES ASSUME ~crossed, ~behind, ~lost' PROVE FileInv'
    BY <1>1 DEF FileInv
  <2>1. ~lost /\ (handles = NoHandles \/ ~Unsaved)
    BY <1>7
  <2>2. \A a \in adrift' : a.form.next \in Nat
    BY <1>2 DEF FormOK, Form
  <2>3. CASE handles = NoHandles
    BY <1>0, <1>1, <1>2, <2>1, <2>3 DEF FileInv, Listed, Within
  <2>4. CASE handles # NoHandles
    <3>1. /\ \A p \in said : Listed(p, handles)
          /\ \A a \in adrift' : Within(a.form, handles)
      BY <1>0, <1>2, <2>1, <2>4 DEF FileInv
    <3>2. CASE file # NoHandles
      <4>1. \A p \in said : Listed(p, file)
        BY <1>8, <2>1, <2>4, <3>1, <3>2 DEF Listed
      <4>2. \A a \in adrift' : Within(a.form, file)
        BY <1>8, <2>1, <2>2, <2>4, <3>1, <3>2 DEF Within
      <4> QED BY <1>1, <3>2, <4>1, <4>2 DEF FileInv, Listed, Within
    <3>3. CASE file = NoHandles
      <4>1. said = {}
        BY <1>9, <2>1, <2>4, <3>1, <3>3 DEF Listed
      <4>2. \A a \in adrift' : a.form.next = 0
        BY <1>9, <2>1, <2>2, <2>4, <3>1, <3>3 DEF Within
      <4> QED BY <1>1, <3>3, <4>1, <4>2 DEF FileInv
    <3> QED BY <3>2, <3>3
  <2> QED BY <2>3, <2>4
<1>11. NameInv'
  <2> SUFFICES ASSUME ~crossed, ~behind, ~lost', ~missed, file # NoHandles PROVE OneEach(file)
    BY <1>1 DEF NameInv, OneEach
  <2>1. ~lost
    BY <1>7
  <2>2. CASE handles = NoHandles
    BY <1>0, <2>1, <2>2 DEF NameInv
  <2>3. CASE handles # NoHandles
    <3>1. Within(file, handles) /\ OneEach(handles)
      BY <1>0, <2>1, <2>3 DEF FileInv, NameInv
    <3> QED BY <3>1 DEF Within, OneEach
  <2> QED BY <2>2, <2>3
<1>12. SavedInv'
  BY <1>1 DEF SavedInv
<1>13. LoadInv'
  <2>1. homes \in Nat /\ crossed' \in BOOLEAN
    BY <1>0, <1>1 DEF LoadInv
  <2>2. homes' \in Nat /\ homes' # 0
    BY <1>1, <2>1
  <2>3. \A t \in Callers : t \in Threads
    BY DEF Threads
  <2>4. \A t \in Callers : thread'[t].at \notin Loading
    BY <2>3 DEF Idle, Loading
  <2> QED BY <1>1, <2>1, <2>2, <2>4 DEF LoadInv, Loading
<1> QED BY <1>4, <1>5, <1>6, <1>10, <1>11, <1>12, <1>13 DEF HandlesInv

\* Home is closed and resumed.
LEMMA ReopenHomeStep ==
    ASSUME HandlesInv, ReopenHome
    PROVE  HandlesInv'
<1>1. /\ Resumes /\ pane' = pane /\ opens' = opens /\ homeNamed' = homeNamed
      /\ adrift' = adrift \cup {[form |-> thread[t].form, past |-> FALSE] :
                                   t \in {u \in Threads : thread[u].at = "write"}}
      /\ thread' = [t \in Threads |-> IF thread[t].at = "bind" THEN thread[t] ELSE Idle]
  BY DEF ReopenHome, Resumes
<1>2. PaneShape'
  BY <1>1 DEF HandlesInv, PaneShape
<1>3. \A a \in adrift' : \/ a \in adrift
                         \/ \E t \in Threads : /\ thread[t].at = "write"
                                               /\ a = [form |-> thread[t].form, past |-> FALSE]
  BY <1>1
<1>4. /\ thread' = [t \in Threads |-> thread'[t]]
      /\ \A t \in Threads : thread'[t] = Idle \/ (thread'[t] = thread[t] /\ thread[t].at = "bind")
  BY <1>1
<1> QED BY <1>1, <1>2, <1>3, <1>4, ResumeStep

\* The program is started again.
LEMMA RelaunchStep ==
    ASSUME HandlesInv, Relaunch
    PROVE  HandlesInv'
<1>0. PaneShape
  BY DEF HandlesInv
<1>1. /\ Resumes /\ opens' = opens /\ homeNamed' = homeNamed /\ adrift' = {}
      /\ thread' = [t \in Threads |-> Idle]
      /\ pane' = [c \in Conversations |-> Shut(pane[c])]
  BY DEF Relaunch, Resumes
<1>2. \A c \in Conversations :
         /\ pane'[c] = Shut(pane[c])
         /\ pane[c] = "named" => pane'[c] = "shut"
         /\ pane[c] = "unnamed" => pane'[c] = "lost"
         /\ pane[c] \in {"never", "shut", "lost"} => pane'[c] = pane[c]
  BY <1>1 DEF Shut
<1>3. PaneShape'
  <2>1. pane' \in [Conversations -> {"never", "unnamed", "named", "shut", "lost"}]
    BY <1>0, <1>1, <1>2 DEF PaneShape
  <2> QED BY <1>0, <1>1, <1>2, <2>1 DEF PaneShape
<1>4. \A c \in Conversations : pane[c] \in Bound => pane'[c] \in Bound
  BY <1>2 DEF Bound
<1>5. /\ thread' = [t \in Threads |-> thread'[t]]
      /\ \A t \in Threads : thread'[t] = Idle \/ (thread'[t] = thread[t] /\ thread[t].at = "bind")
  BY <1>1
<1> QED BY <1>1, <1>3, <1>4, <1>5, ResumeStep

-----------------------------------------------------------------------------
\* The invariant holds at the start.
LEMMA HandlesInitInv ==
    ASSUME HandlesInit
    PROVE  HandlesInv
<1>1. PaneShape
  <2>1. homeNamed = FALSE /\ pane = [c \in Conversations |-> "never"] /\ opens = [c \in Conversations |-> 0]
    BY DEF HandlesInit
  <2>2. 0 \in 0 .. MaxOpens
    BY HandlesAssumption
  <2>3. opens \in [Conversations -> 0 .. MaxOpens]
    BY <2>1, <2>2
  <2> QED BY <2>1, <2>3 DEF PaneShape
<1>2. BookShape
  BY DEF HandlesInit, BookShape
<1>3. ThreadShape
  BY DEF HandlesInit, ThreadShape, ThreadOK, ThenOK, Idle, Threads, Loading
<1>4. NumberInv
  <2>1. \A q : q \notin Claims({}, NoHandles, NoHandles, {})
    BY ClaimsFacts
  <2> QED BY <2>1 DEF HandlesInit, NumberInv, Claimed
<1>5. FileInv /\ NameInv /\ SavedInv
  BY DEF HandlesInit, FileInv, NameInv, SavedInv
<1>6. LoadInv
  <2>1. \A t \in Callers : thread[t].at = "idle"
    BY DEF HandlesInit, Threads, Idle
  <2> QED BY <2>1 DEF HandlesInit, LoadInv, Loading
<1> QED BY <1>1, <1>2, <1>3, <1>4, <1>5, <1>6 DEF HandlesInv

\* Every step keeps the invariant.
LEMMA HandlesNextInv ==
    ASSUME HandlesInv, [HandlesNext]_handlesVars
    PROVE  HandlesInv'
<1>1. CASE UNCHANGED handlesVars
  BY <1>1 DEF handlesVars, HandlesInv, PaneShape, BookShape, ThreadShape, NumberInv, Claimed, FileInv,
              NameInv, ToBind, SavedInv, LoadInv, LoadedOK, Said
<1>2. ASSUME NEW t \in Callers, Look(t) \/ Mint(t) \/ Say(t) \/ \E c \in Conversations : HandleFor(t, c)
      PROVE  HandlesInv'
  BY <1>2, LookStep, MintStep, SayStep, HandleForStep
<1>3. ASSUME NEW t \in Threads, TakeForm(t) \/ Write(t)
      PROVE  HandlesInv'
  BY <1>3, TakeFormStep, WriteStep
<1>4. ASSUME NEW c \in Conversations, OpenPane(c) \/ Named(c) \/ ClosePane(c)
      PROVE  HandlesInv'
  BY <1>4, OpenPaneStep, NamedStep, ClosePaneStep
<1>5. ASSUME Consult \/ Forgets \/ HomeIsNamed \/ ReopenHome \/ Relaunch
      PROVE  HandlesInv'
  BY <1>5, ConsultStep, ForgetsStep, HomeIsNamedStep, ReopenHomeStep, RelaunchStep
<1>6. ASSUME NEW a \in adrift, WriteAdrift(a)
      PROVE  HandlesInv'
  BY <1>6, WriteAdriftStep
<1>7. ASSUME NEW s \in Holders, Bind(s[1], s[2])
      PROVE  HandlesInv'
  BY <1>7, BindStep
<1>8. ASSUME NEW t \in Callers, Ensure(t) \/ Load(t) \/ Floor(t) \/ Install(t)
      PROVE  HandlesInv'
  BY <1>8, EnsureStep, LoadStep, FloorStep, InstallStep
<1> QED BY <1>1, <1>2, <1>3, <1>4, <1>5, <1>6, <1>7, <1>8 DEF HandlesNext

\* Home is to be told only of what there is.
UntoldOK == untold \subseteq Conversations

LEMMA UntoldStep ==
    ASSUME HandlesInv, UntoldOK, [HandlesNext]_handlesVars
    PROVE  UntoldOK'
<1>1. CASE untold' \subseteq untold
  BY <1>1 DEF UntoldOK
<1>2. CASE Relaunch
  BY <1>2 DEF Relaunch, UntoldOK, HandlesInv, BookShape, BookOK, Book, Handle
<1>3. CASE ReopenHome
  BY <1>3 DEF ReopenHome, UntoldOK
<1>4. ASSUME NEW t \in Callers, NEW c \in Conversations, HandleFor(t, c)
      PROVE  untold' \subseteq untold
  BY <1>4 DEF HandleFor
<1>5. ASSUME NEW t \in Callers,
             Ensure(t) \/ Load(t) \/ Floor(t) \/ Install(t) \/ Look(t) \/ Mint(t) \/ Say(t)
      PROVE  untold' \subseteq untold
  BY <1>5 DEF Ensure, Load, Floor, Install, Look, Mint, Say
<1>6. ASSUME NEW t \in Threads, TakeForm(t) \/ Write(t)
      PROVE  untold' \subseteq untold
  BY <1>6 DEF TakeForm, Write
<1>7. ASSUME NEW c \in Conversations, OpenPane(c) \/ Named(c) \/ ClosePane(c)
      PROVE  untold' \subseteq untold
  BY <1>7 DEF OpenPane, Named, ClosePane
<1>8. ASSUME NEW s \in Holders, Bind(s[1], s[2])
      PROVE  untold' \subseteq untold
  BY <1>8 DEF Bind
<1>9. CASE Consult \/ Forgets \/ HomeIsNamed \/ (\E a \in adrift : WriteAdrift(a)) \/ UNCHANGED handlesVars
  BY <1>9 DEF Consult, Forgets, HomeIsNamed, WriteAdrift, handlesVars, UntoldOK
<1> QED BY <1>1, <1>2, <1>3, <1>4, <1>5, <1>6, <1>7, <1>8, <1>9 DEF HandlesNext

\* The handles never leave their inductive invariant.
THEOREM HandlesInvariant == HandlesSpec => [](HandlesInv /\ UntoldOK)
<1>1. HandlesInit => HandlesInv /\ UntoldOK
  BY HandlesInitInv DEF HandlesInit, UntoldOK
<1>2. HandlesInv /\ UntoldOK /\ [HandlesNext]_handlesVars => (HandlesInv /\ UntoldOK)'
  BY HandlesNextInv, UntoldStep
<1> QED BY <1>1, <1>2, PTL DEF HandlesSpec

\* The invariant gives what is promised of handles.
LEMMA HandlesInvOK ==
    ASSUME HandlesInv, UntoldOK
    PROVE  HandlesOK
<1>0. PaneShape /\ BookShape /\ ThreadShape /\ NumberInv /\ FileInv /\ NameInv /\ SavedInv
  BY DEF HandlesInv
<1>1. HandlesTypeOK
  <2>1. \A c \in Conversations :
           pane[c] \in {"never", "unnamed", "named", "shut", "lost"} /\ opens[c] \in 0 .. MaxOpens
    BY <1>0 DEF PaneShape
  <2>2. \A t \in Threads : thread[t].at \in {"idle", "look", "mint", "say", "form", "write", "bind"} \cup Loading
    BY <1>0 DEF ThreadShape, ThreadOK
  <2>3. handles # NoHandles =>
           \A e \in handles.named : e.n \in 1 .. handles.next /\ e.conv \in Conversations
    BY <1>0 DEF BookShape, BookOK, Numbered, Book, Handle
  <2>4. file # NoHandles => Cardinality(file.named) <= MaxKept
    BY <1>0, FewKept DEF BookShape
  <2> QED BY <2>1, <2>2, <2>3, <2>4 DEF HandlesTypeOK, UntoldOK
<1>2. \A p \in said : p \in Claimed
  BY ClaimsFacts DEF Claimed
<1>3. ASSUME handles # NoHandles, NEW e \in handles.named
      PROVE  Pair(e) \in Claimed
  BY <1>3, ClaimsFacts DEF Claimed
<1>4. ~crossed /\ ~((behind \/ lost) /\ (cut \/ late)) => NumbersOnce
  <2>1. CASE ~crossed /\ ~cut /\ ~late
    <3>1. \A p, q \in Claimed : p.n = q.n => p.conv = q.conv
      BY <1>0, <2>1 DEF NumberInv
    <3> QED BY <1>2, <1>3, <3>1 DEF NumbersOnce, Pair
  <2>2. CASE ~crossed /\ ~behind /\ ~lost
    <3>1. CASE handles # NoHandles
      <4>1. \A p \in said : \E e \in handles.named : e.n = p.n /\ e.conv = p.conv
        BY <1>0, <2>2, <3>1 DEF FileInv, Listed, Pair
      <4>2. \A e, g \in handles.named : e.n = g.n => e = g
        BY <1>0, <3>1 DEF BookShape, BookOK, Numbered
      <4> QED BY <4>1, <4>2 DEF NumbersOnce
    <3>2. CASE handles = NoHandles /\ file # NoHandles
      <4>1. \A p \in said : \E e \in file.named : e.n = p.n /\ e.conv = p.conv
        BY <1>0, <2>2, <3>2 DEF FileInv, Listed, Pair
      <4>2. \A e, g \in file.named : e.n = g.n => e = g
        BY <1>0, <3>2 DEF BookShape, FormOK, Numbered
      <4> QED BY <3>2, <4>1, <4>2 DEF NumbersOnce
    <3>3. CASE handles = NoHandles /\ file = NoHandles
      BY <1>0, <2>2, <3>3 DEF FileInv, NumbersOnce
    <3> QED BY <3>1, <3>2, <3>3
  <2> QED BY <2>1, <2>2
<1>5. KeepsItsName
  <2> SUFFICES ASSUME ~crossed, ~behind, ~lost, ~missed, NEW p \in said, NEW q \in said, p.conv = q.conv
               PROVE  p.n = q.n
    BY DEF KeepsItsName
  <2>1. CASE handles # NoHandles
    BY <1>0, <2>1 DEF FileInv, NameInv, Listed, Pair, OneEach
  <2>2. CASE handles = NoHandles /\ file # NoHandles
    BY <1>0, <2>2 DEF FileInv, NameInv, Listed, Pair, OneEach
  <2>3. CASE handles = NoHandles /\ file = NoHandles
    BY <1>0, <2>3 DEF FileInv
  <2> QED BY <2>1, <2>2, <2>3
<1>6. FileFollows
  <2> SUFFICES ASSUME \A t \in Threads : thread[t] = Idle, ~behind, handles # NoHandles, handles.home,
                      ~trimmed
               PROVE  IF file = NoHandles THEN SavedForm.named = {}
                      ELSE SavedForm.named \subseteq file.named
    BY DEF FileFollows
  <2>1. \A e \in handles.named : e.session = NoSession => file # NoHandles /\ e \in file.named
    BY <1>0 DEF SavedInv, Idle
  <2> QED BY <2>1 DEF SavedForm
<1> QED BY <1>1, <1>4, <1>5, <1>6 DEF HandlesOK, NeverAnother

\* A number never comes to name another session, and a session keeps its handle across
\* quits and resumptions, but for the mishaps that are named; the file has every handle
\* that is bound once every thread is done.
THEOREM HandlesSafe == HandlesSpec => []HandlesOK
BY HandlesInvariant, HandlesInvOK, PTL
=============================================================================
