--------------------------- MODULE HandoffProofs ---------------------------
(***************************************************************************)
(* What one paired attempt guarantees for every quantity, every number of  *)
(* reconciliation rounds and every number of relaunches.                   *)
(***************************************************************************)
EXTENDS MCHandoff, Sequences, TLAPS, WellFoundedInduction

USE QAssumption, BoundsAssumption
USE DEF venueVars, journal, legVars, sight, engineVars, vars, venueOnly,
        outside, quiet, deciding, reading

-----------------------------------------------------------------------------
(* Type correctness, one group of variables at a time.                     *)

\* An order that can rest, fill, or be read stays an order.
LEMMA ViewType == ASSUME VenueOK, NEW l \in Legs, NEW o \in View(l)
                  PROVE  o = NoOrder \/ o \in Orders
BY DEF VenueOK, View, Orders, Statuses, Terminal

LEMMA GlimpseType == \A o : Glimpse(o) \in Glimpses
BY DEF Glimpse, Glimpses

LEMMA StatusType ==
    ASSUME order \in [Legs -> Orders], NEW l \in Legs, NEW s \in Statuses
    PROVE  [order EXCEPT ![l].status = s] \in [Legs -> Orders]
BY DEF Orders

LEMMA SendsType ==
    ASSUME JournalOK, NEW r \in Legs \cup {"cancel"}
    PROVE  [sends EXCEPT ![r] = @ + 1] \in [Legs \cup {"cancel"} -> Nat]
BY DEF JournalOK

LEMMA QuietType == Quiet \in [book : Books, source : Glimpses]
BY DEF Quiet, Books, Glimpses

LEMMA ConcludeType == ASSUME LegOK, NEW e \in Evidence, Conclude(e) PROVE LegOK'
<1>1. evidence' \in [Legs -> Evidence] BY DEF LegOK, Conclude
<1>2. leg' \in Legs BY DEF Conclude, Legs
<1>3. rounds' = 0 /\ trades' = 0 /\ settled' = FALSE BY DEF Conclude
<1>4. 0 \in 0..(MaxRounds - 1) /\ 0 \in 0..Q OBVIOUS
<1> QED BY <1>1, <1>2, <1>3, <1>4 DEF LegOK

LEMMA ForgetType == ASSUME LegOK, Forget PROVE LegOK'
<1>1. evidence' \in [Legs -> Evidence] BY DEF Forget, Unknown, Evidence
<1>2. leg' \in Legs BY DEF Forget, Legs
<1>3. rounds' = 0 /\ trades' = 0 /\ settled' = FALSE BY DEF Forget
<1>4. 0 \in 0..(MaxRounds - 1) /\ 0 \in 0..Q OBVIOUS
<1> QED BY <1>1, <1>2, <1>3, <1>4 DEF LegOK

LEMMA VenueStep == ASSUME TypeOK, [Next]_vars PROVE VenueOK'
<1> USE DEF TypeOK, VenueOK
<1>0. "source" \in Legs /\ "receiver" \in Legs BY DEF Legs
<1>00. \A n \in 0..Q : Status(n) \in Statuses BY DEF Status, Statuses, Terminal
<1>000. {"flight", "refused", "live", "postonly", "canceled", "filled"} \subseteq Statuses BY DEF Statuses, Terminal
<1>1. CASE SourceArrives BY <1>0, <1>000, <1>1, StatusType DEF SourceArrives
<1>2. CASE ReceiverArrives
  <2>1. CASE UNCHANGED matched /\ order' = [order EXCEPT !["receiver"].status = "refused"]
    BY <1>0, <1>000, <1>2, <2>1, StatusType DEF ReceiverArrives
  <2>2. CASE \E own, other \in 0..Q :
            LET total == order["source"].fill + own IN
            /\ own + other <= Q
            /\ own > 0 => order["source"].status = "live" /\ total <= Q
            /\ order' = [l \in Legs |->
                  IF l = "receiver"
                  THEN [status |-> IF own + other = Q THEN "filled" ELSE "canceled",
                        fill |-> own + other]
                  ELSE IF own = 0 THEN order[l]
                  ELSE [status |-> Status(total), fill |-> total]]
            /\ matched' = matched + own
    <3>1. PICK own \in 0..Q, other \in 0..Q :
            /\ own + other <= Q
            /\ own > 0 => order["source"].fill + own <= Q
            /\ order' = [l \in Legs |->
                  IF l = "receiver"
                  THEN [status |-> IF own + other = Q THEN "filled" ELSE "canceled",
                        fill |-> own + other]
                  ELSE IF own = 0 THEN order[l]
                  ELSE [status |-> Status(order["source"].fill + own),
                        fill |-> order["source"].fill + own]]
            /\ matched' = matched + own
      BY <2>2
    <3> DEFINE s == IF own + other = Q THEN "filled" ELSE "canceled"
               total == order["source"].fill + own
    <3>2. [status |-> s, fill |-> own + other] \in Orders BY <1>000, <3>1 DEF Orders
    <3>3. own > 0 => [status |-> Status(total), fill |-> total] \in Orders BY <1>0, <1>00, <3>1 DEF Orders
    <3>4. order' \in [Legs -> Orders] BY <3>1, <3>2, <3>3
    <3>5. QED BY <3>1, <3>4, <1>2 DEF ReceiverArrives
  <2>3. QED BY <1>2, <2>1, <2>2 DEF ReceiverArrives
<1>3. CASE Taken BY <1>0, <1>00, <1>3 DEF Taken, Orders
<1>4. CASE SourceCanceled BY <1>0, <1>000, <1>4, StatusType DEF SourceCanceled
<1>5. CASE StreamUpdate BY <1>5, GlimpseType DEF StreamUpdate
<1>6. CASE SendSource
  <2>1. order' = order \/ order' = [order EXCEPT !["source"].status = "flight"] BY <1>6 DEF SendSource
  <2>2. UNCHANGED <<matched, mode>> /\ stream' = stream BY <1>6 DEF SendSource
  <2>3. QED BY <1>0, <1>000, <2>1, <2>2, StatusType, QuietType
<1>7. CASE SendReceiver
  <2>1. order' = order \/ order' = [order EXCEPT !["receiver"].status = "flight"] BY <1>7 DEF SendReceiver
  <2>2. UNCHANGED <<matched, mode>> /\ stream' \in {stream, Quiet} BY <1>7 DEF SendReceiver
  <2>3. QED BY <1>0, <1>000, <2>1, <2>2, StatusType, QuietType
<1>8. CASE SourceAnswered
  <2>1. order' = order \/ order' = [order EXCEPT !["source"].status = "refused"] BY <1>8 DEF SourceAnswered
  <2>2. UNCHANGED <<matched, mode>> /\ stream' = stream BY <1>8 DEF SourceAnswered
  <2>3. QED BY <1>0, <1>000, <2>1, <2>2, StatusType, QuietType
<1>9. CASE AdmitStream BY <1>9, QuietType DEF AdmitStream
<1>10. CASE FinalBarrier BY <1>10, QuietType DEF FinalBarrier
<1>11. CASE Crash BY <1>11, QuietType DEF Crash
<1>12. CASE UNCHANGED <<order, matched, stream, mode>> BY <1>12
<1> QED BY <1>1, <1>2, <1>3, <1>4, <1>5, <1>6, <1>7, <1>8, <1>9, <1>10, <1>11, <1>12
        DEF Next, Venue, Engine, Send, Decide, Reconcile, SendCancel, Prepare,
            ObserveSource, AdmitStrict, IntentFlushed, ReceiverAnswered, PollReceiver,
            Resolve, Cleanup, CancelIfSafe, BeginLeg, ReadHistory, ReadAccount,
            ReadOrder, Finish, Resume

LEMMA JournalStep == ASSUME TypeOK, [Next]_vars PROVE JournalOK'
<1> USE DEF TypeOK, JournalOK, Legs
<1>1. CASE Prepare BY <1>1 DEF Prepare
<1>2. CASE SendSource
  <2>1. sends' = sends \/ sends' = [sends EXCEPT !["source"] = @ + 1] BY <1>2 DEF SendSource
  <2>2. UNCHANGED <<intents, canceled>> BY <1>2 DEF SendSource
  <2>3. QED BY <2>1, <2>2, SendsType
<1>3. CASE SendReceiver
  <2>1. sends' = sends \/ sends' = [sends EXCEPT !["receiver"] = @ + 1] BY <1>3 DEF SendReceiver
  <2>2. UNCHANGED <<intents, canceled>> BY <1>3 DEF SendReceiver
  <2>3. QED BY <2>1, <2>2, SendsType
<1>4. CASE SendCancel BY <1>4, SendsType DEF SendCancel
<1>5. CASE AdmitStrict BY <1>5 DEF AdmitStrict, IntendReceiver
<1>6. CASE AdmitStream BY <1>6 DEF AdmitStream, IntendReceiver
<1>7. CASE IntentFlushed BY <1>7 DEF IntentFlushed
<1>8. CASE CancelIfSafe BY <1>8 DEF CancelIfSafe, EngineOK
<1>9. CASE UNCHANGED <<intents, canceled, sends>> BY <1>9
<1> QED BY <1>1, <1>2, <1>3, <1>4, <1>5, <1>6, <1>7, <1>8, <1>9
        DEF Next, Venue, Engine, Send, Decide, Reconcile, SourceArrives, ReceiverArrives,
            Taken, SourceCanceled, StreamUpdate, SourceAnswered, ObserveSource,
            FinalBarrier, ReceiverAnswered, PollReceiver, Resolve, Cleanup, BeginLeg,
            ReadHistory, ReadAccount, ReadOrder, Finish, Crash, Resume

LEMMA LegStep == ASSUME TypeOK, [Next]_vars PROVE LegOK'
<1> USE DEF TypeOK
<1>0. Unknown \in Evidence /\ Untouched \in Evidence BY DEF Unknown, Untouched, Evidence
<1>1. CASE BeginLeg BY <1>0, <1>1, ConcludeType DEF BeginLeg, LegOK
<1>2. CASE ReadHistory BY <1>2 DEF ReadHistory, LegOK, VenueOK, Orders
<1>3. CASE ReadAccount
  <2>1. CASE leg \in dispatched BY <1>3, <2>1 DEF ReadAccount, LegOK
  <2>2. CASE leg \notin dispatched BY <1>3, <2>2, <1>0, ConcludeType DEF ReadAccount
  <2>3. QED BY <2>1, <2>2
<1>4. CASE ReadOrder
  <2>1. PICK o \in View(leg) : IF Agrees(o)
            THEN Conclude([clean |-> TRUE, status |-> o.status, fill |-> trades])
            ELSE Again \/ Conclude(Unknown)
    BY <1>4 DEF ReadOrder
  <2>2. CASE Agrees(o) BY <2>2, <2>1, ConcludeType DEF Agrees, Ended, Evidence, LegOK
  <2>3. CASE Conclude(Unknown) BY <1>0, <2>3, ConcludeType
  <2>4. CASE Again BY <2>4 DEF Again, LegOK
  <2>5. QED BY <2>1, <2>2, <2>3, <2>4
<1>5. CASE Finish BY <1>5, ForgetType DEF Finish
<1>6. CASE Crash BY <1>6, ForgetType DEF Crash
<1>7. CASE UNCHANGED legVars BY <1>7 DEF LegOK
<1> QED BY <1>1, <1>2, <1>3, <1>4, <1>5, <1>6, <1>7
        DEF Next, Venue, Engine, Send, Decide, Reconcile, SourceArrives, ReceiverArrives,
            Taken, SourceCanceled, StreamUpdate, SendSource, SendReceiver, SendCancel,
            Prepare, SourceAnswered, ObserveSource, AdmitStrict, AdmitStream,
            IntentFlushed, FinalBarrier, ReceiverAnswered, PollReceiver, Resolve,
            Cleanup, CancelIfSafe, Resume

LEMMA ResultStep == ASSUME TypeOK, [Next]_vars PROVE ResultOK'
<1> USE DEF TypeOK, ResultOK
<1>1. CASE Finish
  BY <1>1 DEF Fill, LegOK, Evidence, Outcome, Classified, Outcomes, RetryablePair, ZeroMutation, Finish, Results
<1>2. CASE Resume BY <1>2 DEF Resume, NoResult, Results
<1>3. CASE UNCHANGED <<result, restarts>> BY <1>3
<1> QED BY <1>1, <1>2, <1>3
        DEF Next, Venue, Engine, Send, Decide, Reconcile, SourceArrives, ReceiverArrives,
            Taken, SourceCanceled, StreamUpdate, SendSource, SendReceiver, SendCancel,
            Prepare, SourceAnswered, ObserveSource, AdmitStrict, AdmitStream,
            IntentFlushed, FinalBarrier, ReceiverAnswered, PollReceiver, Resolve,
            Cleanup, CancelIfSafe, BeginLeg, ReadHistory, ReadAccount, ReadOrder, Crash

LEMMA StopType ==
    ASSUME reasons \subseteq Reasons, NEW why \in SUBSET Reasons, Stop(why)
    PROVE  reasons' \subseteq Reasons
BY DEF Stop, Reasons

LEMMA EngineStep == ASSUME TypeOK, [Next]_vars PROVE EngineOK'
<1> USE DEF TypeOK, EngineOK
<1>p. Places = {"prepare", "send source", "await source", "observe", "admit",
           "flushing", "flushed", "send receiver", "await receiver",
           "poll receiver", "resolve", "cleanup", "cancel", "send cancel",
           "reconcile", "history", "account", "order", "finish", "done", "dead"}
  BY DEF Places
<1>r. /\ {} \subseteq Reasons /\ {"unresolved"} \subseteq Reasons /\ {"stop"} \subseteq Reasons
      /\ {"veto"} \subseteq Reasons /\ {"vanished"} \subseteq Reasons
      /\ {"pair guard"} \subseteq Reasons /\ {"early fill"} \subseteq Reasons
      /\ {"post only"} \subseteq Reasons /\ {"not resting"} \subseteq Reasons
      /\ {"changed"} \subseteq Reasons /\ {"unresolved", "absent"} \subseteq Reasons
      /\ \A why \in PreDispatch : {why} \subseteq Reasons
  BY DEF Reasons, Provisional, Stops
<1>g. "none" \in Glimpses /\ "resting" \in Glimpses /\ \A o : Glimpse(o) \in Glimpses BY GlimpseType DEF Glimpses
<1>l. "source" \in Legs /\ "receiver" \in Legs BY DEF Legs
<1> DEFINE PlaceStep == pc' \in Places /\ after' \in {"cleanup", "reconcile"}
           SightStep == seen' \in Glimpses /\ fresh' \in BOOLEAN
           LedgerStep == dispatched' \subseteq Legs
           WhyStep == reasons' \subseteq Reasons
<1>1. CASE SendSource BY <1>1, <1>p, <1>r, StopType DEF SendSource
<1>2. CASE SendReceiver BY <1>2, <1>p, <1>r, StopType DEF SendReceiver
<1>3. CASE SendCancel BY <1>3, <1>p, <1>r, StopType DEF SendCancel
<1>4. CASE Prepare BY <1>4, <1>p, <1>l, <1>r, StopType DEF Prepare
<1>5. CASE SourceAnswered BY <1>5, <1>p, <1>r, StopType DEF SourceAnswered
<1>6. CASE ObserveSource
  <2>1. PICK o \in View("source") :
          /\ seen' = Glimpse(o)
          /\ Stop(ObservedReasons(o))
          /\ pc' = IF reasons' = {} THEN "admit"
                   ELSE IF o # NoOrder /\ ObservedReasons(o) # {} THEN "cancel"
                   ELSE "cleanup"
    BY <1>6 DEF ObserveSource
  <2>2. PlaceStep /\ SightStep /\ LedgerStep BY <1>6, <2>1, <1>p, <1>g DEF ObserveSource
  <2>3. ObservedReasons(o) \subseteq Reasons BY <1>r DEF ObservedReasons
  <2>4. WhyStep BY <2>1, <2>3, StopType
  <2> QED BY <2>2, <2>4
<1>7. CASE AdmitStrict
  <2>1. PlaceStep /\ SightStep /\ LedgerStep BY <1>7, <1>p, <1>g, <1>l DEF AdmitStrict, IntendReceiver
  <2>2. CASE UNCHANGED reasons BY <2>1, <2>2
  <2>3. CASE ~UNCHANGED reasons
    <3>1. PICK o \in View("source"), why \in SUBSET {"unresolved", "absent"} :
            \E found \in {{}, {"changed"}, {"not resting"}} :
              Stop(IF why \cup found = {} THEN {"pair guard"} ELSE why \cup found)
      BY <1>7, <2>3 DEF AdmitStrict
    <3>2. WhyStep BY <1>r, <3>1, StopType
    <3> QED BY <2>1, <3>2
  <2> QED BY <2>2, <2>3
<1>8. CASE AdmitStream BY <1>8, <1>p, <1>l, <1>r, StopType DEF AdmitStream, IntendReceiver, VenueOK
<1>9. CASE IntentFlushed BY <1>9, <1>p DEF IntentFlushed
<1>10. CASE FinalBarrier BY <1>10, <1>p, <1>l, <1>r, StopType DEF FinalBarrier
<1>11. CASE ReceiverAnswered BY <1>11, <1>p, <1>r, StopType DEF ReceiverAnswered
<1>12. CASE PollReceiver BY <1>12, <1>p, <1>r, StopType DEF PollReceiver
<1>13. CASE Resolve BY <1>13, <1>p, <1>g, <1>r, StopType DEF Resolve
<1>14. CASE Cleanup BY <1>14, <1>p, <1>g, <1>r, StopType DEF Cleanup
<1>15. CASE CancelIfSafe BY <1>15, <1>p, <1>r, StopType DEF CancelIfSafe
<1>c. ASSUME NEW e, Conclude(e) PROVE pc' \in Places /\ WhyStep BY <1>c, <1>p, <1>r, StopType DEF Conclude
<1>16. CASE BeginLeg BY <1>16, <1>g, <1>p, <1>c DEF BeginLeg
<1>17. CASE ReadHistory BY <1>17, <1>p DEF ReadHistory
<1>18. CASE ReadAccount BY <1>18, <1>p, <1>c DEF ReadAccount
<1>19. CASE ReadOrder BY <1>19, <1>p, <1>c DEF ReadOrder, Again
<1>20. CASE Finish BY <1>20, <1>p, <1>g, <1>r DEF Finish, Forget
<1>21. CASE Crash BY <1>21, <1>p, <1>g, <1>r DEF Crash, Forget
<1>22. CASE Resume BY <1>22, <1>p DEF Resume, JournalOK
<1>23. CASE UNCHANGED engineVars BY <1>23
<1> QED BY <1>1, <1>2, <1>3, <1>4, <1>5, <1>6, <1>7, <1>8, <1>9, <1>10, <1>11, <1>12,
           <1>13, <1>14, <1>15, <1>16, <1>17, <1>18, <1>19, <1>20, <1>21, <1>22, <1>23
        DEF Next, Venue, Engine, Send, Decide, Reconcile, SourceArrives, ReceiverArrives,
            Taken, SourceCanceled, StreamUpdate

LEMMA InitType == Init => TypeOK
<1> SUFFICES ASSUME Init PROVE TypeOK OBVIOUS
<1>1. VenueOK BY QuietType DEF Init, VenueOK, Orders, Statuses
<1>2. JournalOK BY DEF Init, JournalOK
<1>3. EngineOK BY DEF Init, EngineOK, Places, Glimpses
<1>4. LegOK
  <2>1. Unknown \in Evidence BY DEF Unknown, Evidence
  <2>2. rounds = 0 /\ trades = 0 /\ settled = FALSE /\ leg \in Legs BY DEF Init, Legs
  <2>3. evidence \in [Legs -> Evidence] BY <2>1 DEF Init
  <2>4. 0 \in 0..(MaxRounds - 1) /\ 0 \in 0..Q OBVIOUS
  <2> QED BY <2>2, <2>3, <2>4 DEF LegOK
<1>5. ResultOK BY DEF Init, ResultOK, NoResult, Results
<1> QED BY <1>1, <1>2, <1>3, <1>4, <1>5 DEF TypeOK

\* Every variable keeps to its values: in particular a leg is never read more
\* than max_poll_count times and receipts never sum to more than the order.
THEOREM TypeCorrect == Spec => []TypeOK
<1>1. TypeOK /\ [Next]_vars => TypeOK' BY VenueStep, JournalStep, EngineStep, LegStep, ResultStep DEF TypeOK
<1> QED BY InitType, <1>1, PTL DEF Spec

-----------------------------------------------------------------------------
(* The invariant behind ReportIsTrue, SuccessIsMutual and RetryIsSafe.     *)

Still == Terminal \cup {"unsent"}

\* Nothing leaves that the journal and the running attempt do not know of.
Ledger ==
    /\ \A l \in Legs :
          /\ order[l].status = "unsent" => order[l].fill = 0 /\ sends[l] = 0
          /\ order[l].status # "unsent" => /\ l \in intents /\ sends[l] > 0
                                           /\ Running => l \in dispatched
    /\ pc = "prepare" => dispatched = {}
    /\ pc = "send source" => "source" \in dispatched \cap intents
    /\ pc = "flushed" => "receiver" \in intents
    /\ pc = "send receiver" => "receiver" \in dispatched \cap intents

Reconciling == {"reconcile", "history", "account", "order", "finish"}

\* What is established of a leg is what its order ended as.
Established ==
    \A l \in Legs : evidence[l].clean =>
        /\ pc \in Reconciling
        /\ order[l] = [status |-> evidence[l].status, fill |-> evidence[l].fill]

Reported ==
    /\ Running \/ result.outcome = "none" => result = NoResult
    /\ result.outcome \notin {"none", "UNKNOWN"} =>
          /\ pc = "done"
          /\ \A l \in Legs : /\ order[l].status \in Still
                             /\ order[l].fill = result.fills[l]
    /\ result.outcome = "SUCCESS" => matched = Q /\ \A l \in Legs : result.fills[l] = Q
    /\ result.retry => /\ result.outcome = "PARTIAL"
                       /\ order["receiver"].status = "unsent"
                       /\ \A l \in Legs : result.fills[l] = 0

Truth == Ledger /\ Established /\ Reported

LEMMA InitTruth == Init => Truth
<1> SUFFICES ASSUME Init PROVE Truth OBVIOUS
<1>1. \A l \in Legs : order[l].status = "unsent" /\ order[l].fill = 0 /\ sends[l] = 0 BY DEF Init
<1>2. Ledger BY <1>1 DEF Init, Ledger
<1>3. Established BY DEF Init, Established, Unknown
<1>4. Reported BY DEF Init, Reported, NoResult
<1> QED BY <1>2, <1>3, <1>4 DEF Truth

LEMMA StatusChange ==
    ASSUME TypeOK, NEW l \in Legs, NEW s, order' = [order EXCEPT ![l].status = s]
    PROVE  /\ order'[l].status = s /\ order'[l].fill = order[l].fill
           /\ \A k \in Legs \ {l} : order'[k] = order[k]
BY DEF TypeOK, VenueOK, Orders

\* An order that ended, or never left, does not change.
LEMMA StillStays ==
    ASSUME TypeOK, Venue, NEW l \in Legs, order[l].status \in Still
    PROVE  order'[l] = order[l]
<1> USE DEF TypeOK, VenueOK, Still, Terminal
<1>l. "source" \in Legs /\ "receiver" \in Legs BY DEF Legs
<1>1. CASE SourceArrives BY <1>l, <1>1 DEF SourceArrives
<1>2. CASE ReceiverArrives
  <2>1. CASE order' = [order EXCEPT !["receiver"].status = "refused"] BY <1>l, <1>2, <2>1 DEF ReceiverArrives
  <2>2. CASE order' # [order EXCEPT !["receiver"].status = "refused"]
    BY <1>2, <1>l, <2>2 DEF ReceiverArrives, Legs
  <2> QED BY <2>1, <2>2
<1>3. CASE Taken BY <1>l, <1>3 DEF Taken
<1>4. CASE SourceCanceled BY <1>l, <1>4 DEF SourceCanceled
<1> QED BY <1>1, <1>2, <1>3, <1>4 DEF Venue

\* An order that left is never again one that did not.
LEMMA SentStays ==
    ASSUME TypeOK, Venue, NEW l \in Legs, order[l].status # "unsent"
    PROVE  order'[l].status # "unsent"
<1> USE DEF TypeOK, VenueOK
<1>l. "source" \in Legs /\ "receiver" \in Legs BY DEF Legs
<1>1. CASE SourceArrives
  <2>1. PICK s \in {"live", "postonly", "refused"} :
           order' = [order EXCEPT !["source"].status = s]
    BY <1>1 DEF SourceArrives
  <2> QED BY <1>l, <2>1, StatusChange
<1>2. CASE ReceiverArrives BY <1>l, StatusChange, <1>2 DEF ReceiverArrives, Status
<1>3. CASE Taken BY <1>l, <1>3 DEF Taken, Status
<1>4. CASE SourceCanceled BY <1>l, <1>4, StatusChange DEF SourceCanceled
<1> QED BY <1>1, <1>2, <1>3, <1>4 DEF Venue

\* A send counts its own request and no other.
LEMMA SendsChange ==
    ASSUME TypeOK, NEW r \in {"source", "receiver", "cancel"},
           sends' = [sends EXCEPT ![r] = @ + 1]
    PROVE  /\ sends'[r] = sends[r] + 1 /\ sends'[r] > 0
           /\ r # "source" => sends'["source"] = sends["source"]
           /\ r # "receiver" => sends'["receiver"] = sends["receiver"]
           /\ r # "cancel" => sends'["cancel"] = sends["cancel"]
<1>1. sends \in [{"source", "receiver", "cancel"} -> Nat] BY DEF Legs, TypeOK, JournalOK
<1> QED BY <1>1

\* Who acts: the venue, the engine before and in reconciliation, or neither.
LEMMA LedgerStep == ASSUME TypeOK, Ledger, [Next]_vars PROVE Ledger'
<1> USE DEF Ledger
<1>l. "source" \in Legs /\ "receiver" \in Legs BY DEF Legs
<1>1. CASE Venue
  <2>1. UNCHANGED <<intents, dispatched, sends, pc>>
    BY <1>1 DEF Venue, SourceArrives, ReceiverArrives, Taken, SourceCanceled
  <2>2. ASSUME NEW l \in Legs
        PROVE  \/ order'[l] = order[l]
               \/ order[l].status # "unsent" /\ order'[l].status # "unsent"
    BY <1>1, StillStays, SentStays DEF Still
  <2> QED BY <2>1, <2>2 DEF Running
<1>2. CASE SendSource
  <2>1. pc' \notin {"prepare", "send source", "flushed", "send receiver"} /\ UNCHANGED <<intents, dispatched>>
    BY <1>2 DEF SendSource
  <2>2. CASE order' = order /\ sends' = sends BY <1>2, <2>1, <2>2 DEF SendSource, Running
  <2>3. CASE /\ order' = [order EXCEPT !["source"].status = "flight"]
             /\ sends' = [sends EXCEPT !["source"] = @ + 1]
    <3>0. "receiver" \in Legs \ {"source"} BY DEF Legs
    <3>1. order'["source"].status = "flight" /\ order'["receiver"] = order["receiver"]
      BY <1>l, <2>3, <3>0, StatusChange
    <3>2. UNCHANGED sends["receiver"] /\ sends'["source"] > 0 BY <2>3, SendsChange
    <3>3. pc = "send source" /\ Running BY <1>2 DEF SendSource, Running
    <3> QED BY <2>1, <3>1, <3>2, <3>3 DEF Running, Legs
  <2> QED BY <1>2, <2>2, <2>3 DEF SendSource
<1>3. CASE SendReceiver
  <2>1. pc' \notin {"prepare", "send source", "flushed", "send receiver"} /\ UNCHANGED <<intents, dispatched>>
    BY <1>3 DEF SendReceiver
  <2>2. CASE order' = order /\ sends' = sends BY <1>3, <2>1, <2>2 DEF SendReceiver, Running
  <2>3. CASE /\ order' = [order EXCEPT !["receiver"].status = "flight"]
             /\ sends' = [sends EXCEPT !["receiver"] = @ + 1]
    <3>0. "source" \in Legs \ {"receiver"} BY DEF Legs
    <3>1. order'["receiver"].status = "flight" /\ order'["source"] = order["source"]
      BY <1>l, <2>3, <3>0, StatusChange
    <3>2. UNCHANGED sends["source"] /\ sends'["receiver"] > 0 BY <2>3, SendsChange
    <3>3. pc = "send receiver" /\ Running BY <1>3 DEF SendReceiver, Running
    <3> QED BY <2>1, <3>1, <3>2, <3>3 DEF Running, Legs
  <2> QED BY <1>3, <2>2, <2>3 DEF SendReceiver
<1>4. CASE SourceAnswered
  <2>1. \/ UNCHANGED order
        \/ /\ order["source"].status # "unsent"
           /\ order' = [order EXCEPT !["source"].status = "refused"]
    BY <1>4 DEF SourceAnswered
  <2>2. /\ UNCHANGED <<intents, dispatched, sends>> /\ Running
        /\ pc' \notin {"prepare", "send source", "flushed", "send receiver"}
    BY <1>4 DEF SourceAnswered, Running
  <2>3. \A l \in Legs : \/ order'[l] = order[l]
                        \/ order[l].status # "unsent" /\ order'[l].status # "unsent"
    <3>1. CASE order' = [order EXCEPT !["source"].status = "refused"]
      <4>1. order'["source"].status = "refused" /\ order'["receiver"] = order["receiver"]
        BY <1>l, <3>1, StatusChange
      <4> QED BY <2>1, <4>1 DEF Legs
    <3> QED BY <2>1, <3>1
  <2> QED BY <2>2, <2>3
<1>5. CASE Prepare BY <1>5 DEF Prepare, Running
<1>6. CASE SendCancel BY <1>6 DEF SendCancel, Running, TypeOK, EngineOK, JournalOK, Legs
<1>7. CASE AdmitStrict \/ AdmitStream \/ IntentFlushed \/ FinalBarrier
  BY <1>7 DEF AdmitStrict, AdmitStream, IntentFlushed, FinalBarrier, IntendReceiver, Running
<1>8. CASE ObserveSource \/ ReceiverAnswered \/ PollReceiver \/ Resolve \/ Cleanup \/ CancelIfSafe
  BY <1>8 DEF ObserveSource, ReceiverAnswered, PollReceiver, Resolve, Cleanup, CancelIfSafe, Running, TypeOK,
    EngineOK
<1>9. CASE Reconcile
  BY <1>9 DEF Reconcile, BeginLeg, ReadHistory, ReadAccount, ReadOrder, Running, Conclude, Again
<1>10. CASE Finish \/ Crash BY <1>10 DEF Finish, Crash, Running
<1>11. CASE Resume BY <1>11 DEF Resume
<1>12. CASE StreamUpdate \/ UNCHANGED vars BY <1>12 DEF StreamUpdate, Running
<1> QED BY <1>1, <1>2, <1>3, <1>4, <1>5, <1>6, <1>7, <1>8, <1>9, <1>10, <1>11, <1>12
        DEF Next, Engine, Send, Decide

LEMMA EstablishedStep ==
    ASSUME TypeOK, Ledger, Established, [Next]_vars PROVE Established'
<1> USE DEF Established
<1>s. ASSUME NEW l \in Legs, evidence[l].clean PROVE order[l].status \in Still
  <2>1. evidence[l].status \in Still BY DEF TypeOK, LegOK, Evidence, Still
  <2>2. order[l] = [status |-> evidence[l].status, fill |-> evidence[l].fill] BY <1>s
  <2> QED BY <2>1, <2>2
<1>1. CASE Venue BY <1>1, <1>s, StillStays DEF Venue, SourceArrives, ReceiverArrives, Taken, SourceCanceled
<1>2. CASE Send \/ Decide
  <2>1. pc \notin Reconciling /\ UNCHANGED evidence
    BY <1>2 DEF Send, Decide, SendSource, SendReceiver, SendCancel, Prepare, SourceAnswered, ObserveSource,
      AdmitStrict, AdmitStream, IntentFlushed, FinalBarrier, ReceiverAnswered, PollReceiver, Resolve, Cleanup,
      CancelIfSafe, Reconciling
  <2> QED BY <2>1
<1>c. ASSUME NEW e, Conclude(e), UNCHANGED order,
             e.clean => order[leg] = [status |-> e.status, fill |-> e.fill]
      PROVE  Established'
  <2>1. /\ evidence' = [evidence EXCEPT ![leg] = e] /\ leg \in Legs
        /\ evidence \in [Legs -> Evidence] /\ pc' \in Reconciling
    BY <1>c DEF Conclude, TypeOK, LegOK, Reconciling
  <2>2. ASSUME NEW l \in Legs, evidence'[l].clean
        PROVE  order'[l] = [status |-> evidence'[l].status, fill |-> evidence'[l].fill]
    BY <1>c, <2>1, <2>2
  <2> QED BY <2>1, <2>2
<1>u. Conclude(Unknown) /\ UNCHANGED order => Established' BY <1>c DEF Unknown
<1>3. CASE BeginLeg BY <1>3, <1>u DEF BeginLeg, Conclude, Reconciling, TypeOK, LegOK
<1>4. CASE ReadHistory BY <1>4 DEF ReadHistory, Reconciling
<1>5. CASE ReadAccount
  <2>1. CASE leg \in dispatched BY <1>5, <2>1 DEF ReadAccount, Reconciling
  <2>2. CASE leg \notin dispatched
    BY <1>5, <2>2, <1>c, <1>u DEF TypeOK, LegOK, ReadAccount, Running, Ledger, VenueOK, Orders, Untouched
  <2> QED BY <2>1, <2>2
<1>6. CASE ReadOrder
  <2>1. PICK o \in View(leg) : IF Agrees(o)
            THEN Conclude([clean |-> TRUE, status |-> o.status, fill |-> trades])
            ELSE Again \/ Conclude(Unknown)
    BY <1>6 DEF ReadOrder
  <2>2. UNCHANGED order BY <1>6 DEF ReadOrder
  <2>3. CASE Agrees(o)
    BY <2>3, <2>1, <1>c, <2>2 DEF Agrees, Ended, View, Terminal, TypeOK, VenueOK, LegOK, Orders
  <2>4. CASE Conclude(Unknown) BY <1>u, <2>2, <2>4
  <2>5. CASE Again BY <2>2, <2>5 DEF Again, Reconciling
  <2> QED BY <2>1, <2>3, <2>4, <2>5
<1>7. CASE Finish \/ Crash BY <1>7 DEF Finish, Crash, Forget, Unknown
<1>8. CASE Resume BY <1>8 DEF Resume, Running, Reconciling, TypeOK, EngineOK, Places
<1>9. CASE StreamUpdate \/ UNCHANGED vars BY <1>9 DEF StreamUpdate
<1> QED BY <1>1, <1>2, <1>3, <1>4, <1>5, <1>6, <1>7, <1>8, <1>9
        DEF Next, Engine, Reconcile

\* An outcome that is not UNKNOWN rests on two clean legs.
LEMMA KnownIsClean == RetryablePair \/ Outcome # "UNKNOWN" => Clean
BY DEF RetryablePair, ZeroMutation, Outcome, Classified

LEMMA SuccessIsFull == Outcome = "SUCCESS" => matched = Q /\ \A l \in Legs : Fill(l) = Q
BY DEF Outcome, Classified

LEMMA ReportedStep ==
    ASSUME TypeOK, Ledger, Established, Reported, [Next]_vars PROVE Reported'
<1>l. "source" \in Legs /\ "receiver" \in Legs BY DEF Legs
<1>d. pc = "done" => ~Running BY DEF Running
<1>1. CASE Venue
  <2>1. UNCHANGED <<pc, result>> BY <1>1 DEF Venue, SourceArrives, ReceiverArrives, Taken, SourceCanceled
  <2>2. ASSUME result.outcome \notin {"none", "UNKNOWN"}
        PROVE  \A l \in Legs : order'[l] = order[l]
    BY <1>1, <2>2, StillStays DEF Reported
  <2>3. ASSUME result.outcome = "SUCCESS" PROVE matched' = matched
    BY <1>l, <2>3, <1>1 DEF Reported, Still, Terminal, Venue, SourceArrives, ReceiverArrives, Taken,
      SourceCanceled
  <2> QED BY <1>l, <2>1, <2>2, <2>3 DEF Reported, Running
<1>2. CASE (Send \/ Decide \/ Reconcile \/ StreamUpdate) /\ ~UNCHANGED vars
  <2>1. Running /\ UNCHANGED result
    BY <1>2 DEF Send, Decide, Reconcile, StreamUpdate, StreamReads, SendSource, SendReceiver, SendCancel,
      Prepare, SourceAnswered, ObserveSource, AdmitStrict, AdmitStream, IntentFlushed, FinalBarrier,
      ReceiverAnswered, PollReceiver, Resolve, Cleanup, CancelIfSafe, BeginLeg, ReadHistory, ReadAccount,
      ReadOrder, Running
  <2>2. result = NoResult /\ result' = NoResult BY <2>1 DEF Reported
  <2> QED BY <2>2 DEF Reported, NoResult
<1>3. CASE Finish
  <2>1. Running /\ pc' = "done" /\ UNCHANGED <<order, matched>> BY <1>3 DEF Finish, Running
  <2> DEFINE retry == restarts = 0 /\ RetryablePair
  <2>2. result' = [outcome |-> IF restarts > 0 /\ reasons # {} THEN "UNKNOWN"
                              ELSE IF retry THEN "PARTIAL" ELSE Outcome,
                  retry |-> retry,
                  fills |-> [l \in Legs |-> Fill(l)]]
    BY <1>3 DEF Finish
  <2>3. result'.outcome # "UNKNOWN" => Clean BY <2>2, KnownIsClean
  <2>4. ASSUME Clean, NEW l \in Legs
        PROVE  order[l].status \in Still /\ order[l].fill = Fill(l)
    <3>1. order[l] = [status |-> evidence[l].status, fill |-> evidence[l].fill] BY <2>4 DEF Clean, Established
    <3>2. evidence[l].status \in Still BY DEF TypeOK, LegOK, Evidence, Still
    <3> QED BY <3>1, <3>2 DEF Fill
  <2>5. ASSUME result'.outcome \notin {"none", "UNKNOWN"}, NEW l \in Legs
        PROVE  order'[l].status \in Still /\ order'[l].fill = result'.fills[l]
    BY <2>1, <2>2, <2>3, <2>4, <2>5
  <2>6. result'.outcome = "SUCCESS" => matched' = Q /\ \A l \in Legs : result'.fills[l] = Q
    BY <2>1, <2>2, SuccessIsFull
  <2>7. ASSUME retry
        PROVE  /\ result'.outcome = "PARTIAL"
               /\ order["receiver"].status = "unsent"
               /\ \A l \in Legs : Fill(l) = 0
    <3>1. Clean /\ "receiver" \notin dispatched BY <2>7 DEF RetryablePair, ZeroMutation
    <3>2. \A l \in Legs : l \notin dispatched => order[l].status = "unsent" /\ order[l].fill = 0 BY <2>1 DEF Ledger
    <3>3. Fill("source") = 0 BY <1>l, <2>4, <2>7, <3>1, <3>2 DEF RetryablePair, ZeroMutation
    <3>4. Fill("receiver") = 0 BY <1>l, <2>4, <3>1, <3>2
    <3>5. restarts = 0 BY <2>7
    <3> QED BY <1>l, <2>2, <2>7, <3>1, <3>2, <3>3, <3>4, <3>5 DEF Legs
  <2>8. result'.retry = retry /\ \A l \in Legs : result'.fills[l] = Fill(l) BY <2>2
  <2>9. result'.retry => /\ result'.outcome = "PARTIAL"
                         /\ order'["receiver"].status = "unsent"
                         /\ \A l \in Legs : result'.fills[l] = 0
    BY <2>1, <2>7, <2>8
  <2>10. result'.outcome # "none" BY <2>2 DEF Outcome, Classified
  <2> QED BY <2>1, <2>5, <2>6, <2>9, <2>10 DEF Reported, Running
<1>4. CASE Crash BY <1>4 DEF Crash, Reported, NoResult
<1>5. CASE Resume BY <1>5 DEF Resume, Reported, NoResult
<1>6. CASE UNCHANGED vars BY <1>6 DEF Reported, Running
<1> QED BY <1>1, <1>2, <1>3, <1>4, <1>5, <1>6 DEF Next, Engine

THEOREM Truthful == Spec => [](TypeOK /\ Truth)
<1>1. TypeOK /\ Truth /\ [Next]_vars => Truth' BY LedgerStep, EstablishedStep, ReportedStep DEF Truth
<1> QED BY InitTruth, TypeCorrect, <1>1, PTL DEF Spec

-----------------------------------------------------------------------------
\* The evidence of a reconciled leg is the truth about its order, even when the
\* outcome stays UNKNOWN.
THEOREM EvidencesAreTrue == Spec => []EvidenceIsTrue
<1>1. Truth => EvidenceIsTrue BY DEF Truth, Established, EvidenceIsTrue
<1> QED BY Truthful, <1>1, PTL

\* An outcome other than UNKNOWN is the truth about both orders, however the
\* reads it rests on lagged or raced, and whatever crashed before.
THEOREM ReportsAreTrue == Spec => []ReportIsTrue
<1>1. Truth => ReportIsTrue BY DEF Truth, Reported, ReportIsTrue, Still, Terminal
<1> QED BY Truthful, <1>1, PTL

\* SUCCESS means that the two orders filled each other.
THEOREM SuccessesAreMutual == Spec => []SuccessIsMutual
<1>1. Truth => SuccessIsMutual BY DEF Truth, Reported, SuccessIsMutual
<1> QED BY Truthful, <1>1, PTL

\* All that an attempt says of itself is true, for every quantity, bound and
\* history of relaunches.
THEOREM OutcomesAreTrue == Spec => []OutcomeIsTrue
<1>1. EvidenceIsTrue /\ ReportIsTrue /\ SuccessIsMutual => OutcomeIsTrue BY DEF OutcomeIsTrue
<1> QED BY EvidencesAreTrue, ReportsAreTrue, SuccessesAreMutual, <1>1, PTL

\* Whatever is offered for another attempt left nothing behind.
THEOREM RetriesAreSafe == Spec => []RetryIsSafe
<1>1. Truth => RetryIsSafe BY DEF Truth, Ledger, Reported, RetryIsSafe, Still, Terminal, Legs
<1> QED BY Truthful, <1>1, PTL

-----------------------------------------------------------------------------
(* No request leaves twice.                                                *)

BeforeReceiver == {"prepare", "send source", "await source", "observe", "admit",
                   "flushing", "flushed", "send receiver"}

Once ==
    /\ sends["source"] <= 1 /\ sends["receiver"] <= 1 /\ sends["cancel"] <= 1
    /\ pc \in {"prepare", "send source"} => sends["source"] = 0
    /\ pc \in BeforeReceiver => sends["receiver"] = 0
    /\ ~canceled \/ pc = "send cancel" => sends["cancel"] = 0
    /\ pc = "send cancel" => canceled

LEMMA OnceStep == ASSUME TypeOK, Once, [Next]_vars PROVE Once'
<1>1. CASE Venue \/ StreamUpdate \/ UNCHANGED vars
  BY <1>1 DEF Venue, SourceArrives, ReceiverArrives, Taken, SourceCanceled, StreamUpdate, Once, BeforeReceiver
<1>2. CASE SendSource
  <2>1. sends' = sends \/ sends' = [sends EXCEPT !["source"] = @ + 1] BY <1>2 DEF SendSource
  <2>2. sends["source"] = 0 /\ sends["receiver"] = 0 BY <1>2 DEF SendSource, Once, BeforeReceiver
  <2>3. /\ sends'["source"] <= 1
        /\ sends'["receiver"] = sends["receiver"]
        /\ sends'["cancel"] = sends["cancel"]
    BY <2>1, <2>2, SendsChange
  <2>4. UNCHANGED canceled /\ pc' \in {"await source", "cleanup"} /\ pc # "send cancel"
    BY <1>2 DEF SendSource, TypeOK, EngineOK
  <2> QED BY <2>2, <2>3, <2>4 DEF Once, BeforeReceiver
<1>3. CASE SendReceiver
  <2>1. sends' = sends \/ sends' = [sends EXCEPT !["receiver"] = @ + 1] BY <1>3 DEF SendReceiver
  <2>2. sends["receiver"] = 0 BY <1>3 DEF SendReceiver, Once, BeforeReceiver
  <2>3. /\ sends'["receiver"] <= 1
        /\ sends'["source"] = sends["source"]
        /\ sends'["cancel"] = sends["cancel"]
    BY <2>1, <2>2, SendsChange
  <2>4. UNCHANGED canceled /\ pc' \in {"await receiver", "resolve"} /\ pc # "send cancel"
    BY <1>3 DEF SendReceiver, TypeOK, EngineOK
  <2> QED BY <2>2, <2>3, <2>4 DEF Once, BeforeReceiver
<1>4. CASE SendCancel
  <2>1. sends' = [sends EXCEPT !["cancel"] = @ + 1] BY <1>4 DEF SendCancel
  <2>2. sends["cancel"] = 0 /\ canceled BY <1>4 DEF SendCancel, Once, BeforeReceiver
  <2>3. /\ sends'["cancel"] <= 1
        /\ sends'["source"] = sends["source"]
        /\ sends'["receiver"] = sends["receiver"]
    BY <2>1, <2>2, SendsChange
  <2>4. UNCHANGED canceled /\ pc' \in {"cleanup", "reconcile"} BY <1>4 DEF SendCancel, TypeOK, EngineOK
  <2> QED BY <2>2, <2>3, <2>4 DEF Once, BeforeReceiver
<1>5. CASE CancelIfSafe
  <2>1. UNCHANGED sends /\ pc = "cancel" /\ pc' \in {"cleanup", "reconcile", "send cancel"}
    BY <1>5 DEF CancelIfSafe, TypeOK, EngineOK
  <2>2. canceled \in BOOLEAN BY DEF TypeOK, JournalOK
  <2>3. CASE UNCHANGED canceled /\ pc' = after BY <2>1, <2>3 DEF Once, BeforeReceiver, TypeOK, EngineOK
  <2>4. CASE ~(UNCHANGED canceled /\ pc' = after)
    <3>1. ~canceled BY <1>5, <2>4 DEF CancelIfSafe
    <3>2. \A x : (fresh \/ Active(x)) \in BOOLEAN OBVIOUS
    <3>3. PICK active \in BOOLEAN : /\ pc' = IF active THEN "send cancel" ELSE after
                                   /\ canceled' = active
      BY <1>5, <2>4, <3>2 DEF CancelIfSafe
    <3>4. CASE active = TRUE BY <2>1, <3>1, <3>3, <3>4 DEF Once, BeforeReceiver
    <3>5. CASE active = FALSE BY <2>1, <2>2, <2>4, <3>1, <3>3, <3>5
    <3> QED BY <3>4, <3>5
  <2> QED BY <2>3, <2>4
<1>6. CASE \/ Prepare \/ SourceAnswered \/ ObserveSource \/ AdmitStrict
           \/ AdmitStream \/ IntentFlushed \/ FinalBarrier
  BY <1>6 DEF BeforeReceiver, Prepare, SourceAnswered, ObserveSource, AdmitStrict, AdmitStream, IntentFlushed,
    FinalBarrier, IntendReceiver, Once
<1>7. CASE ReceiverAnswered \/ PollReceiver \/ Resolve \/ Cleanup \/ Reconcile
  <2>1. /\ UNCHANGED <<sends, canceled>>
        /\ pc' \in {"poll receiver", "resolve", "reconcile", "cancel", "finish",
                    "history", "account", "order"}
    BY <1>7 DEF ReceiverAnswered, PollReceiver, Resolve, Cleanup, Reconcile, BeginLeg, ReadHistory,
      ReadAccount, ReadOrder, Conclude, Again
  <2> QED BY <2>1 DEF Once, BeforeReceiver
<1>8. CASE Finish \/ Crash \/ Resume BY <1>8 DEF Finish, Crash, Resume, Once, BeforeReceiver
<1> QED BY <1>1, <1>2, <1>3, <1>4, <1>5, <1>6, <1>7, <1>8 DEF Next, Engine, Send, Decide

\* No request is sent twice, whatever path of stops, restarts and repeated
\* cleanup an attempt takes.
THEOREM NothingIsSentTwice == Spec => []SentOnce
<1>1. Init => Once BY DEF Init, Once, Legs
<1>2. TypeOK /\ Once => SentOnce BY DEF TypeOK, JournalOK, Once, SentOnce, Legs
<1>3. TypeOK /\ Once /\ [Next]_vars => Once' BY OnceStep
<1> QED BY TypeCorrect, <1>1, <1>2, <1>3, PTL DEF Spec

-----------------------------------------------------------------------------
(* What holds when the receiver leaves.                                    *)

Admitted ==
    /\ pc \in BeforeReceiver => ~canceled
    /\ pc = "send receiver" /\ mode # "strict" => StreamAdmits(stream)

\* The stream is read where the receiver is admitted, and nothing is awaited
\* between there and its send.
LEMMA AdmittedStep == ASSUME TypeOK, Admitted, [Next]_vars PROVE Admitted'
<1>. USE DEF Admitted
<1>1. CASE Venue \/ UNCHANGED vars
  <2>1. UNCHANGED <<pc, canceled, stream, mode>>
    BY <1>1 DEF Venue, SourceArrives, ReceiverArrives, Taken, SourceCanceled
  <2>2. StreamAdmits(stream)' = StreamAdmits(stream) BY <2>1 DEF StreamAdmits, SourceAdmits
  <2> QED BY <2>1, <2>2
<1>2. CASE StreamUpdate BY <1>2 DEF StreamUpdate, StreamReads
<1>3. CASE SendSource \/ SourceAnswered \/ Prepare \/ IntentFlushed
  <2>1. pc \in BeforeReceiver /\ UNCHANGED canceled /\ pc' # "send receiver"
    BY <1>3 DEF SendSource, SourceAnswered, Prepare, IntentFlushed, BeforeReceiver
  <2> QED BY <2>1
<1>4. CASE ObserveSource BY <1>4 DEF ObserveSource, BeforeReceiver
<1>5. CASE AdmitStrict BY <1>5 DEF AdmitStrict, BeforeReceiver
<1>6. CASE AdmitStream \/ FinalBarrier
  <2>1. pc \in BeforeReceiver /\ UNCHANGED <<canceled, mode>> BY <1>6 DEF AdmitStream, FinalBarrier, BeforeReceiver
  <2>2. pc' = "send receiver" => StreamAdmits(stream) /\ UNCHANGED stream BY <1>6 DEF AdmitStream, FinalBarrier
  <2>3. pc' = "send receiver" => StreamAdmits(stream)' BY <2>1, <2>2 DEF StreamAdmits, SourceAdmits
  <2> QED BY <2>1, <2>3
<1>7. CASE SendReceiver \/ ReceiverAnswered \/ PollReceiver \/ Resolve \/ Cleanup
           \/ CancelIfSafe \/ SendCancel \/ Reconcile \/ Finish \/ Crash \/ Resume
  <2>1. after \in {"cleanup", "reconcile"} BY DEF TypeOK, EngineOK
  <2>2. pc' \notin BeforeReceiver
    <3> USE DEF BeforeReceiver
    <3>1. CASE SendReceiver \/ ReceiverAnswered \/ PollReceiver
      BY <3>1 DEF SendReceiver, ReceiverAnswered, PollReceiver
    <3>2. CASE Resolve \/ Cleanup BY <3>2 DEF Resolve, Cleanup
    <3>3. CASE CancelIfSafe \/ SendCancel BY <3>3, <2>1 DEF CancelIfSafe, SendCancel
    <3>0. ASSUME NEW e, Conclude(e) PROVE pc' \notin BeforeReceiver BY <3>0 DEF Conclude
    <3>4. CASE BeginLeg \/ Finish \/ Crash \/ Resume BY <3>4, <3>0 DEF BeginLeg, Finish, Crash, Resume
    <3>5. CASE ReadHistory BY <3>5 DEF ReadHistory
    <3>6. CASE ReadAccount BY <3>6, <3>0 DEF ReadAccount
    <3>7. CASE ReadOrder BY <3>7, <3>0 DEF ReadOrder, Again
    <3> QED BY <1>7, <3>1, <3>2, <3>3, <3>4, <3>5, <3>6, <3>7 DEF Reconcile
  <2> QED BY <2>2 DEF BeforeReceiver
<1> QED BY <1>1, <1>2, <1>3, <1>4, <1>5, <1>6, <1>7 DEF Next, Engine, Send, Decide

\* The receiver is handed to the transport only while the local stream admits
\* it, and never after a cancellation of the source (_validate_ack_receiver_send).
THEOREM SentWhenAdmitted == Spec => AdmittedWhenSent
<1>1. Init => Admitted BY DEF Init, Admitted
<1>2. ASSUME TypeOK, Admitted, [Next]_vars, sends'["receiver"] # sends["receiver"]
      PROVE  (mode # "strict" => StreamAdmits(stream)) /\ ~canceled
  <2>1. CASE SendReceiver BY <1>2, <2>1 DEF SendReceiver, Admitted, BeforeReceiver
  <2>2. CASE SendSource \/ SendCancel BY <1>2, <2>2, SendsChange DEF SendSource, SendCancel, TypeOK, JournalOK, Legs
  <2>3. CASE Venue \/ StreamUpdate \/ Decide \/ Reconcile \/ Finish \/ Crash \/ Resume
             \/ UNCHANGED vars
    <3>1. UNCHANGED sends
      BY <2>3 DEF Venue, SourceArrives, ReceiverArrives, Taken, SourceCanceled, StreamUpdate, Decide, Prepare,
        SourceAnswered, ObserveSource, AdmitStrict, AdmitStream, IntentFlushed, FinalBarrier,
        ReceiverAnswered, PollReceiver, Resolve, Cleanup, CancelIfSafe, Reconcile, BeginLeg, ReadHistory,
        ReadAccount, ReadOrder, Finish, Crash, Resume
    <3> QED BY <1>2, <3>1
  <2> QED BY <1>2, <2>1, <2>2, <2>3 DEF Next, Engine, Send
<1>3. TypeOK /\ Admitted /\ [Next]_vars => Admitted' BY AdmittedStep
<1>4. TypeOK /\ Admitted /\ [Next]_vars =>
          [sends'["receiver"] # sends["receiver"] =>
              (mode # "strict" => StreamAdmits(stream)) /\ ~canceled]_vars
  BY <1>2
<1> QED BY TypeCorrect, <1>1, <1>3, <1>4, PTL DEF Spec, AdmittedWhenSent

-----------------------------------------------------------------------------
(* The engine implements PairedAttempt.                                    *)

Exposed == {l \in Legs : order[l].status # "unsent"}
Open    == {l \in Legs : order[l].status \in {"flight", "live"}}
Fills   == [l \in Legs |-> order[l].fill]
Told    == [state |-> IF result.outcome = "none" THEN "none"
                      ELSE IF result.outcome = "UNKNOWN" THEN "unknown"
                      ELSE "final",
            fills |-> result.fills]

LEMMA InitPromise == Init => Promise!Init
<1> SUFFICES ASSUME Init PROVE Promise!Init OBVIOUS
<1>1. \A l \in Legs : order[l].status = "unsent" /\ order[l].fill = 0 BY DEF Init
<1>2. result = NoResult BY DEF Init
<1> QED BY <1>1, <1>2 DEF Promise!Init, Promise!Nothing, NoResult

\* A trade, told order by order.
LEMMA OrdersTrade ==
    ASSUME TypeOK, UNCHANGED result,
           \A l \in Legs : /\ order'[l].fill \in 0..Q /\ order'[l].fill >= order[l].fill
                           /\ l \notin Open => order'[l].fill = order[l].fill
                           /\ l \in Open' => l \in Open
                           /\ l \in Exposed <=> l \in Exposed'
    PROVE  Promise!Trade
<1>1. Fills' \in [Legs -> 0..Q] BY DEF Fills
<1>2. \A l \in Legs : /\ Fills'[l] >= Fills[l]
                      /\ l \notin Open => Fills'[l] = Fills[l]
  BY DEF Fills
<1>3. Open' \subseteq Open BY DEF Open
<1>4. Exposed' = Exposed BY DEF Exposed
<1> QED BY <1>1, <1>2, <1>3, <1>4 DEF Promise!Trade, Fills, Open, Exposed

\* An IOC still on its way has not filled.
Fresh == order["receiver"].status = "flight" => order["receiver"].fill = 0

LEMMA UnsentYet ==
    ASSUME Ledger, NEW l \in Legs, sends[l] = 0
    PROVE  order[l].status = "unsent" /\ order[l].fill = 0
<1>1. order[l].status # "unsent" => sends[l] > 0 BY DEF Ledger
<1>2. ~(sends[l] > 0) BY SMT
<1>3. order[l].status = "unsent" BY <1>1, <1>2
<1> QED BY <1>3 DEF Ledger

LEMMA FreshStep == ASSUME TypeOK, Ledger, Once, Fresh, [Next]_vars PROVE Fresh'
<1> USE DEF Fresh
<1>l. "source" \in Legs /\ "receiver" \in Legs BY DEF Legs
<1>1. CASE Venue
  <2>1. CASE ReceiverArrives BY <1>l, StatusChange, <2>1 DEF ReceiverArrives
  <2>2. CASE SourceArrives \/ Taken \/ SourceCanceled
    BY <1>l, <2>2 DEF SourceArrives, Taken, SourceCanceled, TypeOK, VenueOK
  <2> QED BY <1>1, <2>1, <2>2 DEF Venue
<1>2. CASE SendReceiver
  <2>1. CASE order' = order BY <2>1
  <2>2. CASE order' = [order EXCEPT !["receiver"].status = "flight"]
    BY <1>2, <1>l, UnsentYet, <2>2, StatusChange DEF SendReceiver, Once, BeforeReceiver
  <2> QED BY <1>2, <2>1, <2>2 DEF SendReceiver
<1>3. CASE SendSource \/ SourceAnswered BY <1>l, <1>3 DEF SendSource, SourceAnswered, TypeOK, VenueOK
<1>4. CASE UNCHANGED order BY <1>4
<1> QED BY <1>1, <1>2, <1>3, <1>4
        DEF Next, Engine, Send, Decide, Reconcile, StreamUpdate, SendCancel, Prepare,
            ObserveSource, AdmitStrict, AdmitStream, IntentFlushed, FinalBarrier,
            ReceiverAnswered, PollReceiver, Resolve, Cleanup, CancelIfSafe, BeginLeg,
            ReadHistory, ReadAccount, ReadOrder, Finish, Crash, Resume

\* What the venue does to one order.
Traded(l) ==
    /\ order'[l].fill \in 0..Q /\ order'[l].fill >= order[l].fill
    /\ order[l].status \notin {"flight", "live"} => order'[l].fill = order[l].fill
    /\ order'[l].status \in {"flight", "live"} => order[l].status \in {"flight", "live"}
    /\ order[l].status # "unsent" <=> order'[l].status # "unsent"

LEMMA SameTraded == ASSUME TypeOK, NEW l \in Legs, order'[l] = order[l] PROVE Traded(l)
BY DEF TypeOK, VenueOK, Orders, Traded

LEMMA StatusTraded ==
    ASSUME TypeOK, NEW l \in Legs, order[l].status \in {"flight", "live"},
           NEW s \in {"live", "postonly", "refused", "canceled"},
           order' = [order EXCEPT ![l].status = s]
    PROVE  \A k \in Legs : Traded(k)
<1>1. order'[l].status = s /\ order'[l].fill = order[l].fill BY StatusChange, Zenon
<1>2. \A k \in Legs \ {l} : Traded(k) BY StatusChange, SameTraded
<1>3. order[l].fill \in 0..Q BY DEF TypeOK, VenueOK, Orders
<1>4. Traded(l) BY <1>1, <1>3 DEF Traded
<1> QED BY <1>2, <1>4

LEMMA VenueTrades == ASSUME TypeOK, Fresh, Venue PROVE Promise!Trade
<1>l. "source" \in Legs /\ "receiver" \in Legs BY DEF Legs
<1>f. \A l \in Legs : order[l].fill \in 0..Q BY DEF TypeOK, VenueOK, Orders
<1>s. \A n \in 0..Q : Status(n) \in {"filled", "live"} BY DEF Status
<1>1. \A l \in Legs : Traded(l)
  <2>1. CASE SourceArrives BY <1>l, <2>1, StatusTraded DEF SourceArrives
  <2>2. CASE SourceCanceled BY <1>l, <2>2, StatusTraded DEF SourceCanceled
  <2>3. CASE Taken
    <3>1. PICK n \in (order["source"].fill + 1)..Q :
             order' = [order EXCEPT !["source"] = [status |-> Status(n), fill |-> n]]
      BY <2>3 DEF Taken
    <3>2. order'["source"] = [status |-> Status(n), fill |-> n]
          /\ order'["receiver"] = order["receiver"]
      BY <1>l, <3>1 DEF TypeOK, VenueOK
    <3>3. n \in 0..Q /\ n >= order["source"].fill BY <1>f, <1>l, <3>1
    <3>4. Traded("source") BY <1>s, <2>3, <3>2, <3>3 DEF Taken, Traded
    <3> QED BY <1>l, <3>2, <3>4, SameTraded DEF Legs
  <2>4. CASE ReceiverArrives
    <3>1. CASE order' = [order EXCEPT !["receiver"].status = "refused"]
      BY <1>l, <2>4, <3>1, StatusTraded DEF ReceiverArrives
    <3>2. CASE order' # [order EXCEPT !["receiver"].status = "refused"]
      <4>1. PICK own \in 0..Q, other \in 0..Q :
              /\ own + other <= Q
              /\ own > 0 => /\ order["source"].status = "live"
                            /\ order["source"].fill + own <= Q
              /\ order' = [l \in Legs |->
                    IF l = "receiver"
                    THEN [status |-> IF own + other = Q THEN "filled" ELSE "canceled",
                          fill |-> own + other]
                    ELSE IF own = 0 THEN order[l]
                    ELSE [status |-> Status(order["source"].fill + own),
                          fill |-> order["source"].fill + own]]
        BY <2>4, <3>2 DEF ReceiverArrives
      <4>2. /\ order'["receiver"].fill = own + other
            /\ order'["receiver"].status \in {"filled", "canceled"}
        BY <1>l, <4>1
      <4>3. order["receiver"].status = "flight" BY <2>4 DEF ReceiverArrives
      <4>4. order["receiver"].fill = 0 BY <4>3 DEF Fresh
      <4>5. Traded("receiver") BY <1>f, <1>l, <4>1, <4>2, <4>3, <4>4 DEF Traded
      <4>6. CASE own = 0 BY <1>l, <4>1, <4>6, <4>5, SameTraded DEF Legs
      <4>7. CASE own > 0 BY <1>l, <4>1, <4>7, <1>f, <1>s, <4>5 DEF Traded, Legs
      <4> QED BY <4>6, <4>7
    <3> QED BY <3>1, <3>2
  <2> QED BY <2>1, <2>2, <2>3, <2>4 DEF Venue
<1>2. UNCHANGED result BY DEF Venue, SourceArrives, ReceiverArrives, Taken, SourceCanceled
<1> QED BY <1>1, <1>2, OrdersTrade DEF Traded, Open, Exposed

\* A request that leaves exposes its leg, once.
LEMMA SendExposes ==
    ASSUME TypeOK, Ledger, Reported, Once, Running, UNCHANGED result,
           NEW l \in Legs, sends[l] = 0, order' = [order EXCEPT ![l].status = "flight"]
    PROVE  Promise!Expose(l)
<1>1. order[l].status = "unsent" BY UnsentYet
<1>2. /\ order'[l].status = "flight" /\ order'[l].fill = order[l].fill
      /\ \A k \in Legs \ {l} : order'[k] = order[k]
  BY StatusChange
<1>3. Exposed' = Exposed \cup {l} /\ l \notin Exposed BY <1>1, <1>2 DEF Exposed
<1>4. Open' = Open \cup {l} BY <1>1, <1>2 DEF Open
<1>5. Fills' = Fills BY <1>2 DEF Fills
<1>6. result.outcome = "none" BY DEF Reported, NoResult
<1> QED BY <1>3, <1>4, <1>5, <1>6 DEF Promise!Expose, Exposed, Open, Fills

\* An outcome that is not UNKNOWN is reported when nothing can fill any more.
LEMMA FinishReports ==
    ASSUME TypeOK, Reported, Reported', Finish PROVE Promise!Report
<1>1. Running /\ UNCHANGED order /\ pc' = "done" BY DEF Finish, Running
<1>2. result.outcome = "none" BY <1>1 DEF Reported, NoResult
<1>3. result'.outcome \in Outcomes BY DEF Finish, Outcome, Classified, Outcomes
<1>4. CASE result'.outcome = "UNKNOWN"
  BY <1>1, <1>2, <1>4 DEF Finish, TypeOK, LegOK, Evidence, Fill, Promise!Report, Open, Fills
<1>5. CASE result'.outcome # "UNKNOWN"
  <2>1. result'.outcome \notin {"none", "UNKNOWN"} BY <1>3, <1>5 DEF Outcomes
  <2>2. \A l \in Legs : order[l].status \in Still /\ order[l].fill = result'.fills[l] BY <1>1, <2>1 DEF Reported
  <2>3. Open = {} BY <2>2 DEF Open, Still, Terminal
  <2>4. result'.fills = Fills BY <2>2 DEF Finish, Fills
  <2> QED BY <1>1, <1>2, <2>1, <2>3, <2>4 DEF Promise!Report, Open, Fills
<1> QED BY <1>4, <1>5

LEMMA StepPromised ==
    ASSUME TypeOK, Truth, Truth', Once, Fresh, [Next]_vars PROVE [Promise!Next]_(Promise!vars)
<1> USE DEF Promise!Next
<1>l. "source" \in Legs /\ "receiver" \in Legs BY DEF Legs
<1>t. Ledger /\ Reported /\ Reported' BY DEF Truth
<1>1. CASE Venue BY <1>1, VenueTrades
<1>2. CASE SendSource BY <1>2, <1>l, <1>t, SendExposes DEF SendSource, Running, Once, Promise!vars
<1>3. CASE SendReceiver
  BY <1>3, <1>l, <1>t, SendExposes DEF SendReceiver, Running, Once, BeforeReceiver, Promise!vars
<1>4. CASE SourceAnswered
  <2>1. UNCHANGED result BY <1>4 DEF SourceAnswered
  <2>2. CASE order' = order BY <2>1, <2>2 DEF Promise!vars
  <2>3. CASE order["source"].status = "flight"
             /\ order' = [order EXCEPT !["source"].status = "refused"]
    BY <1>l, <2>3, StatusTraded, <2>1, OrdersTrade DEF Traded, Open, Exposed
  <2>4. CASE order["source"].status = "refused"
             /\ order' = [order EXCEPT !["source"].status = "refused"]
    BY <1>l, <2>4, <2>1 DEF TypeOK, VenueOK, Orders, Promise!vars
  <2> QED BY <1>4, <2>2, <2>3, <2>4 DEF SourceAnswered
<1>5. CASE Finish BY <1>5, <1>t, FinishReports
<1>6. CASE Resume BY <1>6, <1>t DEF Resume, Promise!Relaunch, Promise!Nothing, NoResult, Promise!vars, Reported
<1>7. CASE UNCHANGED <<order, result>> BY <1>7 DEF Promise!vars
<1> QED BY <1>1, <1>2, <1>3, <1>4, <1>5, <1>6, <1>7
        DEF Next, Engine, Send, Decide, Reconcile, StreamUpdate, SendCancel, Prepare,
            ObserveSource, AdmitStrict, AdmitStream, IntentFlushed, FinalBarrier,
            ReceiverAnswered, PollReceiver, Resolve, Cleanup, CancelIfSafe, BeginLeg,
            ReadHistory, ReadAccount, ReadOrder, Crash

\* Whatever the engine reads, loses or crashes in, an attempt exposes a leg at
\* most once, and reports a final outcome only when nothing of it can fill any
\* more, and what filled.
THEOREM KeepsItsPromise == Spec => KeepsPromise
<1>1. Init => Once /\ Fresh BY DEF Init, Once, Fresh, Legs
<1>2. TypeOK /\ Truth /\ Once /\ Fresh /\ [Next]_vars => Once' /\ Fresh' BY OnceStep, FreshStep DEF Truth
<1>3. TypeOK /\ Truth /\ Truth' /\ Once /\ Fresh /\ [Next]_vars
        => [Promise!Next]_(Promise!vars)
  BY StepPromised
<1> QED BY InitPromise, Truthful, <1>1, <1>2, <1>3, PTL DEF Spec, KeepsPromise, Promise!Spec

-----------------------------------------------------------------------------
(* A fan-out attempt: any receivers and quantities, any answers of the     *)
(* venue, any reads and any crash.                                         *)

\* Orders that do not move, and where the engine can be.
FanoutStill  == F!Terminal \cup {"unsent"}
FanoutEarly  == {"preflight", "prepare", "send source"}
FanoutBefore == FanoutEarly \cup {"await source", "admit", "flushing", "flushed"}
FanoutPlaces == FanoutBefore \cup {"receivers", "resolve", "cleanup", "cancel", "send cancel",
                                   "reconcile", "done", "dead"}

FanoutTypeInv ==
    /\ fOrder \in [F!Legs -> F!Orders] /\ fMatched \in [FanoutReceivers -> Nat]
    /\ fIntents \in SUBSET F!Legs /\ fSends \in [F!Legs \cup {"cancel"} -> Nat]
    /\ fPc \in FanoutPlaces
    /\ fDispatched \in SUBSET F!Legs /\ fRequest \in [FanoutReceivers -> F!Requests]
    /\ fEvidence \in [F!Legs -> F!Evidence]
    /\ fResult \in [outcome : F!Outcomes \cup {"none"}, retry : BOOLEAN,
                    fills : [F!Legs -> 0..F!Whole]]

\* A leg leaves once, behind its intent, and fills once it left.
FanoutSentInv ==
    /\ \A l \in F!Legs :
          /\ fSends[l] \in {0, 1}
          /\ fOrder[l].status # "unsent" => fSends[l] = 1
          /\ fOrder[l].status \in {"unsent", "flight"} => fOrder[l].fill = 0
          /\ fSends[l] = 1 => l \in fIntents
    /\ fSends["cancel"] \in {0, 1}
    /\ fSends["cancel"] = 1 => "source" \in fIntents
    /\ \A r \in FanoutReceivers : fSends[r] = 1 => FanoutReceivers \subseteq fIntents

\* What may have left where the engine is.
FanoutPlaceInv ==
    /\ fPc \in FanoutEarly => \A l \in F!Legs : fSends[l] = 0
    /\ fPc \in FanoutBefore => \A r \in FanoutReceivers : fSends[r] = 0
    /\ fPc \notin {"reconcile", "done", "dead"} => fSends["cancel"] = 0
    /\ fPc = "send source" => "source" \in fIntents /\ "source" \in fDispatched
    /\ fPc \in {"flushed", "receivers"} => FanoutReceivers \subseteq fIntents
    /\ \A r \in FanoutReceivers :
          fRequest[r] = "sending" => fPc = "receivers" /\ fSends[r] = 0 /\ r \in fDispatched
    /\ F!Running => \A l \in F!Legs : fSends[l] = 1 => l \in fDispatched
    /\ fSeen # "none" => fSends["source"] = 1
    /\ fPc \in {"cancel", "send cancel"} => fSeen # "none"
    /\ fPc # "reconcile" => \A l \in F!Legs : fEvidence[l].state = "pending"

\* What was established of a leg stays so.
FanoutEvidenceInv ==
    \A l \in F!Legs : fEvidence[l].state = "clean" =>
        /\ fOrder[l].status = fEvidence[l].status /\ fOrder[l].status \in FanoutStill
        /\ fOrder[l].fill = fEvidence[l].fill

\* A result other than UNKNOWN tells of orders that have ended.
FanoutResultInv ==
    /\ fResult.outcome = "none" => fResult = F!NoResult
    /\ fPc = "done" <=> fResult.outcome # "none"
    /\ fResult.outcome \notin {"none", "UNKNOWN"} =>
          \A l \in F!Legs : fOrder[l].status \in FanoutStill /\ fOrder[l].fill = fResult.fills[l]
    /\ fResult.outcome = "SUCCESS" =>
          fMatched = FanoutPart /\ \A l \in F!Legs : fResult.fills[l] = F!Size(l)
    /\ fResult.retry => /\ fResult.outcome = "PARTIAL"
                        /\ \A r \in FanoutReceivers : fSends[r] = 0
                        /\ \A l \in F!Legs : fResult.fills[l] = 0

FanoutInv == FanoutTypeInv /\ FanoutSentInv /\ FanoutPlaceInv /\ FanoutEvidenceInv /\ FanoutResultInv

LEMMA FanoutInvInit == ASSUME F!AccountsDiffer, F!PartsFit, F!Init PROVE FanoutInv
<1> USE DEF F!Init, F!Blank, F!Pending, F!NoResult, F!Legs
<1>1. FanoutTypeInv
  BY DEF FanoutTypeInv, F!PartsFit, F!Orders, F!Statuses, F!Evidence, F!Requests, FanoutPlaces, FanoutBefore,
    FanoutEarly
<1>2. FanoutSentInv /\ FanoutPlaceInv /\ FanoutEvidenceInv /\ FanoutResultInv
  BY DEF FanoutSentInv, FanoutPlaceInv, FanoutEvidenceInv, FanoutResultInv, FanoutBefore, FanoutEarly,
    F!Running
<1>. QED BY <1>1, <1>2 DEF FanoutInv

\* A status changes.
LEMMA FanoutStatusSet ==
    ASSUME FanoutTypeInv, NEW l \in F!Legs, NEW s \in F!Statuses,
    fOrder' = [fOrder EXCEPT ![l].status = s]
    PROVE  /\ fOrder' \in [F!Legs -> F!Orders]
           /\ fOrder'[l].status = s /\ fOrder'[l].fill = fOrder[l].fill
           /\ \A k \in F!Legs \ {l} : fOrder'[k] = fOrder[k]
BY DEF FanoutTypeInv, F!Orders

\* What the venue does to an order: it fills, or ends.
FanoutMoves(l) ==
    /\ fOrder'[l].fill >= fOrder[l].fill
    /\ fOrder[l].status \notin {"flight", "live"} => fOrder'[l] = fOrder[l]
    /\ fOrder'[l] = fOrder[l] \/ fOrder'[l].status \notin {"unsent", "flight"}

LEMMA FanoutSameMoves ==
    ASSUME FanoutTypeInv, F!PartsFit, NEW l \in F!Legs, fOrder'[l] = fOrder[l]
    PROVE  FanoutMoves(l)
BY DEF FanoutTypeInv, F!Orders, F!PartsFit, FanoutMoves

LEMMA FanoutStatusMoves ==
    ASSUME FanoutTypeInv, F!PartsFit, NEW l \in F!Legs, fOrder[l].status \in {"flight", "live"},
           NEW s \in {"live", "postonly", "refused", "canceled"},
           fOrder' = [fOrder EXCEPT ![l].status = s]
    PROVE  fOrder' \in [F!Legs -> F!Orders] /\ \A k \in F!Legs : FanoutMoves(k)
<1>1. s \in F!Statuses BY DEF F!Statuses, F!Terminal
<1>2. /\ fOrder' \in [F!Legs -> F!Orders]
      /\ fOrder'[l].status = s /\ fOrder'[l].fill = fOrder[l].fill
      /\ \A k \in F!Legs \ {l} : fOrder'[k] = fOrder[k]
  BY <1>1, FanoutStatusSet
<1>3. fOrder[l].fill \in Nat BY DEF FanoutTypeInv, F!Orders, F!PartsFit
<1>4. FanoutMoves(l) BY <1>2, <1>3 DEF FanoutMoves
<1>. QED BY <1>2, <1>4, FanoutSameMoves

LEMMA FanoutVenueMoves ==
    ASSUME F!AccountsDiffer, F!PartsFit, FanoutTypeInv, FanoutSentInv, F!Venue
    PROVE  /\ fOrder' \in [F!Legs -> F!Orders] /\ fMatched' \in [FanoutReceivers -> Nat]
           /\ \A l \in F!Legs : FanoutMoves(l)
           /\ (\A l \in F!Legs : fOrder[l].status \in FanoutStill) => fMatched' = fMatched
<1>a. "source" \in F!Legs /\ \A r \in FanoutReceivers : r \in F!Legs /\ r # "source" BY DEF F!Legs, F!AccountsDiffer
<1>b. /\ fOrder \in [F!Legs -> F!Orders] /\ fMatched \in [FanoutReceivers -> Nat]
      /\ \A l \in F!Legs : fOrder[l].status \in F!Statuses /\ fOrder[l].fill \in 0..F!Whole
      /\ F!Whole \in Nat
  BY DEF FanoutTypeInv, F!Orders, F!PartsFit
<1>c. \A l \in F!Legs : fOrder[l].status \in {"unsent", "flight"} => fOrder[l].fill = 0 BY DEF FanoutSentInv
<1>s. \A n \in 0..F!Whole : F!Status(n) \in {"filled", "live"}
                            /\ [status |-> F!Status(n), fill |-> n] \in F!Orders
  BY DEF F!Status, F!Orders, F!Statuses, F!Terminal
<1>1. CASE F!SourceArrives BY <1>a, <1>b, <1>1, FanoutStatusMoves DEF F!SourceArrives
<1>2. CASE F!SourceCanceled BY <1>a, <1>b, <1>2, FanoutStatusMoves DEF F!SourceCanceled
<1>3. CASE F!Taken
    <2>1. PICK n \in (fOrder["source"].fill + 1)..F!Whole :
            fOrder' = [fOrder EXCEPT !["source"] = [status |-> F!Status(n), fill |-> n]]
      BY <1>3 DEF F!Taken
    <2>2. n \in 0..F!Whole /\ n >= fOrder["source"].fill BY <1>a, <1>b, <2>1
    <2>3. fOrder'["source"] = [status |-> F!Status(n), fill |-> n]
          /\ \A k \in F!Legs \ {"source"} : fOrder'[k] = fOrder[k]
      BY <1>a, <1>b, <2>1
    <2>4. FanoutMoves("source") BY <1>3, <1>s, <2>2, <2>3 DEF FanoutMoves, F!Taken
    <2>5. fOrder' \in [F!Legs -> F!Orders] BY <1>b, <1>s, <2>1, <2>2
    <2>. QED BY <1>3, <1>b, <2>3, <2>4, <2>5, FanoutSameMoves DEF F!Taken
<1>4. ASSUME NEW r \in FanoutReceivers, F!ReceiverArrives(r)
      PROVE  /\ fOrder' \in [F!Legs -> F!Orders] /\ fMatched' \in [FanoutReceivers -> Nat]
             /\ \A l \in F!Legs : FanoutMoves(l)
             /\ (\A l \in F!Legs : fOrder[l].status \in FanoutStill) => fMatched' = fMatched
    <2>1. CASE fOrder' = [fOrder EXCEPT ![r].status = "refused"] /\ UNCHANGED fMatched
      BY <1>a, <1>4, <2>1, FanoutStatusMoves, <1>b DEF F!ReceiverArrives
    <2>2. CASE ~(fOrder' = [fOrder EXCEPT ![r].status = "refused"] /\ UNCHANGED fMatched)
        <3>1. PICK own \in 0..FanoutPart[r], other \in 0..FanoutPart[r] :
                LET total == fOrder["source"].fill + own IN
                /\ own + other <= FanoutPart[r]
                /\ own > 0 => fOrder["source"].status = "live" /\ total <= F!Whole
                /\ fOrder' = [fOrder EXCEPT
                      ![r] = [status |-> IF own + other = FanoutPart[r] THEN "filled" ELSE "canceled",
                              fill |-> own + other],
                      !["source"] = IF own = 0 THEN @
                                    ELSE [status |-> F!Status(total), fill |-> total]]
                /\ fMatched' = [fMatched EXCEPT ![r] = @ + own]
          BY <1>4, <2>2 DEF F!ReceiverArrives
        <3>2. fOrder[r].status = "flight" /\ fOrder[r].fill = 0 BY <1>4, <1>a, <1>c DEF F!ReceiverArrives
        <3>3. FanoutPart[r] \in 0..F!Whole /\ own \in Nat /\ other \in Nat /\ own + other \in 0..F!Whole
          BY <1>b, <3>1 DEF F!PartsFit
        <3>4. /\ fOrder'[r] = [status |-> IF own + other = FanoutPart[r] THEN "filled" ELSE "canceled",
                               fill |-> own + other]
              /\ fOrder'["source"] = IF own = 0 THEN fOrder["source"]
                                     ELSE [status |-> F!Status(fOrder["source"].fill + own),
                                           fill |-> fOrder["source"].fill + own]
              /\ \A k \in F!Legs \ {"source", r} : fOrder'[k] = fOrder[k]
          BY <1>a, <1>b, <3>1
        <3>5. own > 0 => fOrder["source"].fill + own \in 0..F!Whole BY <1>a, <1>b, <3>1, <3>3
        <3>6. FanoutMoves(r) /\ fOrder'[r] \in F!Orders
          BY <3>2, <3>3, <3>4 DEF FanoutMoves, F!Orders, F!Statuses, F!Terminal
        <3>7. FanoutMoves("source") /\ fOrder'["source"] \in F!Orders
          BY <1>a, <1>b, <3>4, FanoutSameMoves, <1>s, <3>1, <3>3, <3>5 DEF FanoutMoves
        <3>8. fOrder' \in [F!Legs -> F!Orders] BY <1>a, <1>b, <3>1, <3>4, <3>6, <3>7
        <3>9. fMatched' \in [FanoutReceivers -> Nat] BY <1>b, <3>1, <3>3
        <3>10. fOrder[r].status \notin FanoutStill BY <3>2 DEF FanoutStill, F!Terminal
        <3>. QED BY <1>a, <3>4, <3>6, <3>7, <3>8, <3>9, <3>10, FanoutSameMoves
    <2>. QED BY <2>1, <2>2
<1>. QED BY <1>1, <1>2, <1>3, <1>4, <1>b DEF F!Venue, F!SourceArrives, F!SourceCanceled

LEMMA FanoutVenueKeeps == ASSUME F!AccountsDiffer, F!PartsFit, FanoutInv, F!Venue PROVE FanoutInv'
<1>1. /\ fOrder' \in [F!Legs -> F!Orders] /\ fMatched' \in [FanoutReceivers -> Nat]
      /\ \A l \in F!Legs : FanoutMoves(l)
      /\ (\A l \in F!Legs : fOrder[l].status \in FanoutStill) => fMatched' = fMatched
  BY FanoutVenueMoves DEF FanoutInv
<1>2. UNCHANGED F!others BY DEF F!Venue, F!SourceArrives, F!ReceiverArrives, F!Taken, F!SourceCanceled
<1>3. \A l \in F!Legs : fOrder[l].status \in FanoutStill => fOrder'[l] = fOrder[l]
  BY <1>1 DEF FanoutMoves, FanoutStill, F!Terminal
<1>4. FanoutTypeInv' BY <1>1, <1>2 DEF FanoutInv, FanoutTypeInv, F!others, F!memory
<1>5. FanoutSentInv' BY <1>1, <1>2 DEF FanoutInv, FanoutSentInv, F!others, F!memory, FanoutMoves
<1>6. FanoutPlaceInv' BY <1>2 DEF FanoutInv, FanoutPlaceInv, F!others, F!memory, F!Running
<1>7. FanoutEvidenceInv' BY <1>2, <1>3 DEF FanoutInv, FanoutEvidenceInv, F!others, F!memory
<1>8. FanoutResultInv' BY <1>2, <1>1, <1>3 DEF F!others, FanoutInv, FanoutResultInv, F!NoResult
<1>. QED BY <1>4, <1>5, <1>6, <1>7, <1>8 DEF FanoutInv

-----------------------------------------------------------------------------
\* A step that only thinks: it goes on to where no more may have left.
FanoutLater == {"resolve", "cleanup", "cancel", "send cancel", "reconcile"}

LEMMA FanoutThinkingKeeps ==
    ASSUME FanoutInv, F!Running,
           UNCHANGED <<fOrder, fMatched, fIntents, fSends, fResult, fEvidence, fRequest>>,
           fDispatched' \in SUBSET F!Legs, fDispatched \subseteq fDispatched',
           fPc # "reconcile", fPc' \in FanoutPlaces \ {"done", "dead"},
           fSeen' # "none" => fSends["source"] = 1,
           fPc' \in {"cancel", "send cancel"} => fSeen' # "none",
           \A r \in FanoutReceivers : fRequest[r] # "sending",
           fPc' \in FanoutLater \/ fPc' \in {"prepare", "admit", "flushing"},
           fPc' = "prepare" => fPc \in FanoutEarly,
           fPc' \in {"admit", "flushing"} => fPc \in FanoutBefore
    PROVE  FanoutInv'
<1>1. FanoutTypeInv' /\ FanoutSentInv' /\ FanoutEvidenceInv'
  BY DEF FanoutInv, FanoutTypeInv, FanoutSentInv, FanoutEvidenceInv
<1>2. FanoutPlaceInv' BY DEF FanoutInv, FanoutPlaceInv, F!Running, FanoutLater, FanoutBefore, FanoutEarly
<1>3. FanoutResultInv' BY DEF FanoutInv, FanoutResultInv, F!Running, F!NoResult
<1>. QED BY <1>1, <1>2, <1>3 DEF FanoutInv

\* Who saw the source order saw one that left.
LEMMA FanoutSeenLeft ==
    ASSUME FanoutInv, NEW o \in F!View("source"), F!Glimpse(o) # "none"
    PROVE  fSends["source"] = 1
BY DEF F!View, F!Glimpse, FanoutInv, FanoutSentInv, F!Legs

LEMMA FanoutPreflightKeeps == ASSUME F!PartsFit, FanoutInv, F!Preflight PROVE FanoutInv'
<1>1. CASE fPc' = "prepare"
  BY <1>1, FanoutThinkingKeeps DEF F!Preflight, FanoutInv, FanoutPlaceInv, FanoutTypeInv, F!venueVars, F!memory,
    F!Running, FanoutPlaces, FanoutBefore, FanoutEarly
<1>2. CASE fPc' = "done"
    <2>1. /\ UNCHANGED <<fOrder, fMatched, fIntents, fSends, fDispatched, fRequest, fSeen, fEvidence>>
          /\ fPc = "preflight" /\ fResult' = [F!NoResult EXCEPT !.outcome = "FAILED_PREFLIGHT_BLOCKED"]
      BY <1>2 DEF F!Preflight, F!venueVars, F!memory
    <2>2. \A l \in F!Legs : fOrder[l].status = "unsent" /\ fOrder[l].fill = 0
      BY <2>1 DEF FanoutInv, FanoutPlaceInv, FanoutSentInv, FanoutEarly
    <2>3. /\ fResult'.outcome = "FAILED_PREFLIGHT_BLOCKED" /\ fResult'.retry = FALSE
          /\ fResult'.fills = [l \in F!Legs |-> 0]
      BY <2>1 DEF F!NoResult
    <2>4. FanoutTypeInv'
        <3>1. 0 \in 0..F!Whole BY DEF F!PartsFit
        <3>2. fResult' \in [outcome : F!Outcomes \cup {"none"}, retry : BOOLEAN,
                            fills : [F!Legs -> 0..F!Whole]]
          BY <2>1, <3>1 DEF F!NoResult, F!Outcomes
        <3>. QED BY <1>2, <2>1, <3>2 DEF FanoutInv, FanoutTypeInv, FanoutPlaces
    <2>5. FanoutSentInv' /\ FanoutEvidenceInv' BY <2>1 DEF FanoutInv, FanoutSentInv, FanoutEvidenceInv
    <2>6. FanoutPlaceInv' BY <1>2, <2>1 DEF FanoutInv, FanoutPlaceInv, F!Running, FanoutBefore, FanoutEarly
    <2>7. FanoutResultInv' BY <1>2, <2>1, <2>2, <2>3 DEF FanoutInv, FanoutResultInv, FanoutStill
    <2>. QED BY <2>4, <2>5, <2>6, <2>7 DEF FanoutInv
<1>. QED BY <1>1, <1>2 DEF F!Preflight

LEMMA FanoutPrepareKeeps == ASSUME FanoutInv, F!Prepare PROVE FanoutInv'
<1>1. /\ fPc = "prepare" /\ UNCHANGED <<fOrder, fMatched, fSends, fResult, fRequest, fSeen, fEvidence>>
      /\ \/ fPc' = "send source" /\ fIntents' = {"source"} /\ fDispatched' = {"source"}
         \/ fPc' = "cleanup" /\ UNCHANGED <<fIntents, fDispatched>>
  BY DEF F!Prepare, F!quiet, F!venueVars
<1>2. \A l \in F!Legs : fSends[l] = 0 /\ fOrder[l].status = "unsent"
    <2>1. \A l \in F!Legs : fSends[l] = 0 BY <1>1 DEF FanoutInv, FanoutPlaceInv, FanoutEarly
    <2>. QED BY <2>1 DEF FanoutInv, FanoutSentInv
<1>3. FanoutTypeInv' BY <1>1 DEF FanoutInv, FanoutTypeInv, FanoutPlaces, FanoutBefore, FanoutEarly, F!Legs
<1>4. FanoutSentInv'
    <2>1. fSends["cancel"] = 0 BY <1>1 DEF FanoutInv, FanoutPlaceInv
    <2>2. \A r \in FanoutReceivers : r \in F!Legs BY DEF F!Legs
    <2>. QED
        <3>1. \A l \in F!Legs : fSends'[l] = 0 /\ fOrder'[l] = fOrder[l] BY <1>1, <1>2
        <3>2. fSends'["cancel"] = 0 BY <1>1, <2>1
        <3>3. \A l \in F!Legs : fOrder[l].fill = 0 BY <1>2 DEF FanoutInv, FanoutSentInv
        <3>. QED BY <1>2, <2>2, <3>1, <3>2, <3>3 DEF FanoutSentInv
<1>5. FanoutPlaceInv'
    <2>1. \A l \in F!Legs : fSends'[l] = 0 BY <1>1, <1>2
    <2>2. \A r \in FanoutReceivers : r \in F!Legs BY DEF F!Legs
    <2>3. fSends'["cancel"] = 0 /\ (\A r \in FanoutReceivers : fRequest'[r] # "sending") /\ fSeen' = fSeen
      BY <1>1 DEF FanoutInv, FanoutPlaceInv
    <2>4. fSeen = "none"
        <3>1. fSends["source"] # 1 BY <1>2 DEF F!Legs
        <3>2. fSeen # "none" => fSends["source"] = 1 BY DEF FanoutInv, FanoutPlaceInv
        <3>. QED BY <3>1, <3>2
    <2>5. \A l \in F!Legs : fEvidence'[l].state = "pending" BY <1>1 DEF FanoutInv, FanoutPlaceInv
    <2>. QED
        <3>1. CASE fPc' = "send source" /\ fIntents' = {"source"} /\ fDispatched' = {"source"}
            <4>1. \A l \in F!Legs : fSends'[l] # 1 BY <2>1
            <4>. QED
              BY <3>1, <4>1, <2>1, <2>2, <2>3, <2>4, <2>5, Zenon DEF FanoutPlaceInv, FanoutBefore, FanoutEarly
        <3>2. CASE fPc' = "cleanup"
          BY <3>2, <2>1, <2>2, <2>3, <2>4, <2>5 DEF FanoutPlaceInv, FanoutBefore, FanoutEarly
        <3>. QED BY <1>1, <3>1, <3>2
<1>6. FanoutEvidenceInv' /\ FanoutResultInv' BY <1>1 DEF FanoutInv, FanoutEvidenceInv, FanoutResultInv, F!NoResult
<1>. QED BY <1>3, <1>4, <1>5, <1>6 DEF FanoutInv

\* A request leaves, behind its intent.
LEMMA FanoutLeavingKeeps ==
    ASSUME F!AccountsDiffer, FanoutInv, F!Running, fPc # "reconcile",
           NEW l \in F!Legs, fSends[l] = 0, l \in fIntents,
           l # "source" => FanoutReceivers \subseteq fIntents,
           fSends' = [fSends EXCEPT ![l] = @ + 1],
           fOrder' = [fOrder EXCEPT ![l].status = "flight"],
           UNCHANGED <<fMatched, fIntents, fEvidence, fDispatched, fResult>>,
           fPc' \in FanoutPlaces \ {"done", "dead", "reconcile"},
           fRequest' \in [FanoutReceivers -> F!Requests]
    PROVE  /\ FanoutTypeInv' /\ FanoutSentInv' /\ FanoutEvidenceInv' /\ FanoutResultInv'
           /\ fSends'[l] = 1 /\ \A k \in (F!Legs \cup {"cancel"}) \ {l} : fSends'[k] = fSends[k]
<1>1. /\ fOrder' \in [F!Legs -> F!Orders]
      /\ fOrder'[l].status = "flight" /\ fOrder'[l].fill = fOrder[l].fill
      /\ \A k \in F!Legs \ {l} : fOrder'[k] = fOrder[k]
  BY FanoutStatusSet DEF F!Statuses, FanoutInv
<1>2. /\ fSends'[l] = 1 /\ \A k \in (F!Legs \cup {"cancel"}) \ {l} : fSends'[k] = fSends[k]
      /\ fSends' \in [F!Legs \cup {"cancel"} -> Nat]
  BY DEF FanoutInv, FanoutTypeInv
<1>3. FanoutTypeInv' BY <1>1, <1>2 DEF FanoutInv, FanoutTypeInv
<1>4. FanoutSentInv'
    <2>1. fOrder[l].status = "unsent" /\ fOrder[l].fill = 0 BY DEF FanoutInv, FanoutSentInv
    <2>2. "cancel" # l /\ "cancel" \notin F!Legs BY DEF F!Legs, F!AccountsDiffer
    <2>3. \A k \in F!Legs : /\ fSends'[k] \in {0, 1}
                            /\ fOrder'[k].status # "unsent" => fSends'[k] = 1
                            /\ fOrder'[k].status \in {"unsent", "flight"} => fOrder'[k].fill = 0
                            /\ fSends'[k] = 1 => k \in fIntents'
        <3>1. ASSUME NEW k \in F!Legs, k # l
              PROVE  fSends'[k] = fSends[k] /\ fOrder'[k] = fOrder[k] /\ fIntents' = fIntents
          BY <1>1, <1>2, <3>1
        <3>. QED BY <1>1, <1>2, <2>1, <3>1 DEF FanoutInv, FanoutSentInv
    <2>4. fSends'["cancel"] = fSends["cancel"] BY <1>2, <2>2
    <2>5. \A r \in FanoutReceivers : fSends'[r] = 1 => FanoutReceivers \subseteq fIntents'
        <3>1. ASSUME NEW r \in FanoutReceivers,
        fSends'[r] = 1 PROVE FanoutReceivers \subseteq fIntents
          BY <1>2, <3>1 DEF F!Legs, F!AccountsDiffer, FanoutInv, FanoutSentInv
        <3>. QED BY <3>1
    <2>6. fSends'["cancel"] \in {0, 1} /\ (fSends'["cancel"] = 1 => "source" \in fIntents')
      BY <2>4 DEF FanoutInv, FanoutSentInv
    <2>. QED BY <2>3, <2>5, <2>6 DEF FanoutSentInv
<1>5. FanoutEvidenceInv' BY DEF FanoutInv, FanoutPlaceInv, FanoutEvidenceInv
<1>6. FanoutResultInv' BY DEF FanoutInv, FanoutResultInv, F!Running, F!NoResult
<1>. QED BY <1>2, <1>3, <1>4, <1>5, <1>6

LEMMA FanoutSendSourceKeeps == ASSUME F!AccountsDiffer, FanoutInv, F!SendSource PROVE FanoutInv'
<1>1. /\ fPc = "send source" /\ F!Running /\ "source" \in F!Legs
      /\ UNCHANGED <<fMatched, fIntents, fEvidence, fDispatched, fResult, fRequest, fSeen>>
  BY DEF F!SendSource, F!Running, F!Legs
<1>2. fSends["source"] = 0 /\ "source" \in fIntents /\ "source" \in fDispatched
  BY <1>1 DEF FanoutInv, FanoutPlaceInv, FanoutEarly
<1>3. CASE fPc' = "await source" /\ fOrder' = [fOrder EXCEPT !["source"].status = "flight"]
                                 /\ fSends' = [fSends EXCEPT !["source"] = @ + 1]
    <2>1. fRequest' \in [FanoutReceivers -> F!Requests] /\ fPc' \in FanoutPlaces \ {"done", "dead", "reconcile"}
      BY <1>1, <1>3 DEF FanoutInv, FanoutTypeInv, FanoutPlaces, FanoutBefore, FanoutEarly
    <2>2. /\ FanoutTypeInv' /\ FanoutSentInv' /\ FanoutEvidenceInv' /\ FanoutResultInv'
          /\ fSends'["source"] = 1
          /\ \A k \in (F!Legs \cup {"cancel"}) \ {"source"} : fSends'[k] = fSends[k]
      BY <1>1, <1>2, <1>3, <2>1, FanoutLeavingKeeps
    <2>3. \A r \in FanoutReceivers : r \in F!Legs /\ r # "source" /\ fSends'[r] = fSends[r]
      BY <2>2 DEF F!Legs, F!AccountsDiffer
    <2>4. fSends'["cancel"] = fSends["cancel"] /\ fSends["cancel"] = 0 BY <1>1, <2>2 DEF FanoutInv, FanoutPlaceInv
    <2>5. \A l \in F!Legs : fSends'[l] = 1 => l \in fDispatched' BY <1>1, <1>2, <2>2 DEF FanoutInv, FanoutPlaceInv
    <2>6. \A r \in FanoutReceivers : fSends'[r] = 0 /\ fRequest'[r] # "sending"
      BY <1>1, <2>3 DEF FanoutInv, FanoutPlaceInv, FanoutBefore, FanoutEarly
    <2>7. \A l \in F!Legs : fEvidence'[l].state = "pending" BY <1>1 DEF FanoutInv, FanoutPlaceInv
    <2>8. FanoutPlaceInv' BY <1>3, <2>2, <2>4, <2>5, <2>6, <2>7 DEF FanoutPlaceInv, FanoutEarly
    <2>. QED BY <2>2, <2>8 DEF FanoutInv
<1>4. CASE fPc' = "cleanup" /\ UNCHANGED <<fOrder, fSends>>
  BY <1>1, <1>4, FanoutThinkingKeeps DEF FanoutInv, FanoutTypeInv, FanoutPlaceInv, FanoutPlaces, FanoutLater
<1>. QED BY <1>3, <1>4 DEF F!SendSource

LEMMA FanoutSourceAnsweredKeeps == ASSUME FanoutInv, F!SourceAnswered PROVE FanoutInv'
BY FanoutThinkingKeeps DEF F!SourceAnswered, F!Running, F!quiet, F!venueVars, FanoutInv, FanoutTypeInv,
  FanoutPlaceInv, FanoutPlaces, FanoutLater, FanoutBefore, FanoutEarly

LEMMA FanoutAdmitKeeps == ASSUME FanoutInv, F!Admit PROVE FanoutInv'
<1>1. /\ fPc = "admit" /\ F!Running /\ fPc' \in {"flushing", "cleanup"}
      /\ UNCHANGED <<fOrder, fMatched, fIntents, fSends, fResult, fEvidence, fRequest, fDispatched>>
      /\ \E o \in F!View("source") : fSeen' = F!Glimpse(o)
  BY DEF F!Admit, F!Running, F!quiet, F!venueVars
<1>2. fSeen' # "none" => fSends["source"] = 1 BY <1>1, FanoutSeenLeft
<1>. QED
  BY <1>1, <1>2, FanoutThinkingKeeps DEF FanoutInv, FanoutTypeInv, FanoutPlaceInv, FanoutPlaces, FanoutLater,
    FanoutBefore, FanoutEarly

LEMMA FanoutIntentsFlushedKeeps == ASSUME FanoutInv, F!IntentsFlushed PROVE FanoutInv'
<1>1. /\ fPc = "flushing" /\ fPc' = "flushed" /\ fIntents' = fIntents \cup FanoutReceivers
      /\ UNCHANGED <<fOrder, fMatched, fSends, fResult, fEvidence, fRequest, fDispatched, fSeen>>
  BY DEF F!IntentsFlushed, F!quiet, F!venueVars, F!memory
<1>2. FanoutTypeInv' BY <1>1 DEF FanoutInv, FanoutTypeInv, FanoutPlaces, FanoutBefore, F!Legs
<1>3. FanoutSentInv' /\ FanoutEvidenceInv' BY <1>1 DEF FanoutInv, FanoutSentInv, FanoutEvidenceInv
<1>4. FanoutPlaceInv' BY <1>1 DEF FanoutInv, FanoutPlaceInv, F!Running, FanoutBefore, FanoutEarly
<1>5. FanoutResultInv' BY <1>1 DEF FanoutInv, FanoutResultInv, F!NoResult
<1>. QED BY <1>2, <1>3, <1>4, <1>5 DEF FanoutInv

LEMMA FanoutFinalBarrierKeeps == ASSUME FanoutInv, F!FinalBarrier PROVE FanoutInv'
<1>1. /\ fPc = "flushed" /\ F!Running
      /\ UNCHANGED <<fOrder, fMatched, fIntents, fSends, fResult, fEvidence, fSeen>>
  BY DEF F!FinalBarrier, F!Running, F!quiet, F!venueVars
<1>2. CASE /\ fPc' = "receivers" /\ fDispatched' = F!Legs
           /\ fRequest' = [r \in FanoutReceivers |-> "sending"]
    <2>1. FanoutTypeInv' BY <1>1, <1>2 DEF FanoutInv, FanoutTypeInv, FanoutPlaces, F!Requests
    <2>2. FanoutSentInv' /\ FanoutEvidenceInv' BY <1>1 DEF FanoutInv, FanoutSentInv, FanoutEvidenceInv
    <2>3. FanoutPlaceInv' BY <1>1, <1>2 DEF F!Legs, FanoutInv, FanoutPlaceInv, FanoutBefore, FanoutEarly
    <2>4. FanoutResultInv' BY <1>1, <1>2 DEF FanoutInv, FanoutResultInv, F!NoResult
    <2>. QED BY <2>1, <2>2, <2>3, <2>4 DEF FanoutInv
<1>3. CASE fPc' = "resolve" /\ UNCHANGED <<fDispatched, fRequest>>
  BY <1>1, <1>3, FanoutThinkingKeeps DEF FanoutInv, FanoutTypeInv, FanoutPlaceInv, FanoutPlaces, FanoutLater
<1>. QED BY <1>2, <1>3 DEF F!FinalBarrier

LEMMA FanoutSendReceiverKeeps ==
    ASSUME F!AccountsDiffer, FanoutInv, NEW r \in FanoutReceivers, F!SendReceiver(r) PROVE FanoutInv'
<1>1. /\ fRequest[r] = "sending" /\ r \in F!Legs /\ r # "source"
      /\ UNCHANGED <<fMatched, fIntents, fEvidence, fDispatched, fResult, fPc, fSeen>>
  BY DEF F!SendReceiver, F!Legs, F!AccountsDiffer
<1>2. fPc = "receivers" /\ fSends[r] = 0 /\ r \in fDispatched /\ FanoutReceivers \subseteq fIntents
  BY <1>1 DEF FanoutInv, FanoutPlaceInv
<1>3. /\ fRequest' \in [FanoutReceivers -> F!Requests] /\ fRequest'[r] # "sending"
      /\ \A k \in FanoutReceivers \ {r} : fRequest'[k] = fRequest[k]
  BY DEF F!Requests, F!SendReceiver, FanoutInv, FanoutTypeInv
<1>4. CASE /\ fOrder' = [fOrder EXCEPT ![r].status = "flight"]
           /\ fSends' = [fSends EXCEPT ![r] = @ + 1]
    <2>1. /\ FanoutTypeInv' /\ FanoutSentInv' /\ FanoutEvidenceInv' /\ FanoutResultInv'
          /\ fSends'[r] = 1 /\ \A k \in (F!Legs \cup {"cancel"}) \ {r} : fSends'[k] = fSends[k]
      BY <1>1, <1>2, <1>3, <1>4, FanoutLeavingKeeps DEF F!Running, FanoutInv, FanoutTypeInv
    <2>2. fSends'["cancel"] = fSends["cancel"] /\ fSends'["source"] = fSends["source"]
      BY <1>1, <2>1 DEF F!AccountsDiffer, F!Legs
    <2>3. \A k \in FanoutReceivers : fRequest'[k] = "sending" => fSends'[k] = 0 /\ k \in fDispatched'
      BY <1>1, <1>3, <2>1 DEF FanoutInv, FanoutPlaceInv, F!Legs
    <2>4. \A l \in F!Legs : fSends'[l] = 1 => l \in fDispatched'
      BY <1>1, <1>2, <2>1 DEF FanoutInv, FanoutPlaceInv, F!Running
    <2>5. FanoutPlaceInv' BY <1>1, <1>2, <2>2, <2>3, <2>4 DEF FanoutInv, FanoutPlaceInv, FanoutBefore, FanoutEarly
    <2>. QED BY <2>1, <2>5 DEF FanoutInv
<1>5. CASE UNCHANGED <<fOrder, fSends>>
    <2>1. FanoutTypeInv' /\ FanoutSentInv' /\ FanoutEvidenceInv' /\ FanoutResultInv'
      BY <1>1, <1>3, <1>5 DEF FanoutInv, FanoutTypeInv, FanoutSentInv, FanoutEvidenceInv, FanoutResultInv,
        F!NoResult
    <2>2. FanoutPlaceInv' BY <1>1, <1>3, <1>5 DEF FanoutInv, FanoutPlaceInv, F!Running
    <2>. QED BY <2>1, <2>2 DEF FanoutInv
<1>. QED BY <1>4, <1>5 DEF F!SendReceiver

LEMMA FanoutReceiverAnsweredKeeps ==
    ASSUME FanoutInv, NEW r \in FanoutReceivers, F!ReceiverAnswered(r)
    PROVE  FanoutInv'
<1>1. UNCHANGED <<fOrder, fMatched, fIntents, fSends, fPc, fEvidence, fDispatched, fResult, fSeen>>
  BY DEF F!ReceiverAnswered, F!quiet, F!venueVars
<1>2. /\ fRequest' \in [FanoutReceivers -> F!Requests] /\ fRequest'[r] # "sending"
      /\ \A k \in FanoutReceivers \ {r} : fRequest'[k] = fRequest[k]
  BY DEF F!ReceiverAnswered, FanoutInv, FanoutTypeInv, F!Requests
<1>3. FanoutTypeInv' /\ FanoutSentInv' /\ FanoutEvidenceInv' /\ FanoutResultInv'
  BY <1>1, <1>2 DEF FanoutInv, FanoutTypeInv, FanoutSentInv, FanoutEvidenceInv, FanoutResultInv, F!NoResult
<1>4. FanoutPlaceInv' BY <1>1, <1>2 DEF FanoutInv, FanoutPlaceInv, F!Running
<1>. QED BY <1>3, <1>4 DEF FanoutInv

LEMMA FanoutObservedKeeps == ASSUME FanoutInv, F!ReceiversObserved PROVE FanoutInv'
BY FanoutThinkingKeeps DEF F!ReceiversObserved, F!Running, F!quiet, F!venueVars, FanoutInv, FanoutTypeInv,
  FanoutPlaceInv, FanoutPlaces, FanoutLater

LEMMA FanoutResolveKeeps == ASSUME FanoutInv, F!Resolve PROVE FanoutInv'
<1>1. /\ fPc = "resolve" /\ F!Running /\ fPc' \in {"reconcile", "cancel"}
      /\ UNCHANGED <<fOrder, fMatched, fIntents, fSends, fResult, fEvidence, fRequest, fDispatched>>
      /\ \/ \E o \in F!View("source") :
              /\ fPc' = IF o = NoOrder THEN "reconcile" ELSE "cancel"
              /\ fSeen' = IF o = NoOrder THEN fSeen ELSE F!Glimpse(o)
         \/ fPc' = "reconcile" /\ fSeen' = fSeen
  BY DEF F!Resolve, F!Running, F!quiet, F!venueVars
<1>2. \A o \in F!View("source") : o # NoOrder => F!Glimpse(o) # "none" /\ fSends["source"] = 1
  BY FanoutSeenLeft DEF F!Glimpse
<1>3. /\ fSeen' # "none" => fSends["source"] = 1
      /\ fPc' = "cancel" => fSeen' # "none"
  BY <1>1, <1>2 DEF FanoutInv, FanoutPlaceInv
<1>. QED BY <1>1, <1>3, FanoutThinkingKeeps DEF FanoutInv, FanoutTypeInv, FanoutPlaceInv, FanoutPlaces, FanoutLater

LEMMA FanoutCleanupKeeps == ASSUME FanoutInv, F!Cleanup PROVE FanoutInv'
<1>1. /\ fPc = "cleanup" /\ F!Running /\ fPc' \in {"reconcile", "cancel"}
      /\ UNCHANGED <<fOrder, fMatched, fIntents, fSends, fResult, fEvidence, fRequest, fDispatched>>
      /\ \/ \E o \in F!View("source") :
              /\ fPc' = IF o = NoOrder THEN "reconcile" ELSE "cancel"
              /\ fSeen' = F!Glimpse(o)
         \/ fPc' = "reconcile" /\ fSeen' = fSeen
         \/ fPc' = (IF fSeen = "none" THEN "reconcile" ELSE "cancel") /\ fSeen' = fSeen
  BY DEF F!Cleanup, F!Running, F!quiet, F!venueVars
<1>2. \A o \in F!View("source") : /\ o # NoOrder => F!Glimpse(o) # "none"
                                  /\ F!Glimpse(o) # "none" => fSends["source"] = 1
  BY FanoutSeenLeft DEF F!Glimpse
<1>3. /\ fSeen' # "none" => fSends["source"] = 1
      /\ fPc' = "cancel" => fSeen' # "none"
  BY <1>1, <1>2 DEF FanoutInv, FanoutPlaceInv
<1>. QED BY <1>1, <1>3, FanoutThinkingKeeps DEF FanoutInv, FanoutTypeInv, FanoutPlaceInv, FanoutPlaces, FanoutLater

LEMMA FanoutCancelIfSafeKeeps == ASSUME FanoutInv, F!CancelIfSafe PROVE FanoutInv'
BY FanoutThinkingKeeps DEF F!CancelIfSafe, F!Running, F!quiet, F!venueVars, FanoutInv, FanoutTypeInv,
  FanoutPlaceInv, FanoutPlaces, FanoutLater

LEMMA FanoutSendCancelKeeps == ASSUME F!AccountsDiffer, FanoutInv, F!SendCancel PROVE FanoutInv'
<1>1. /\ fPc = "send cancel" /\ fPc' = "reconcile" /\ fSends' = [fSends EXCEPT !["cancel"] = @ + 1]
      /\ UNCHANGED <<fOrder, fMatched, fIntents, fResult, fEvidence, fRequest, fDispatched, fSeen>>
  BY DEF F!SendCancel, F!quiet, F!venueVars
<1>2. /\ fSends' \in [F!Legs \cup {"cancel"} -> Nat] /\ fSends'["cancel"] = 1
      /\ \A l \in F!Legs : fSends'[l] = fSends[l]
      /\ "source" \in F!Legs /\ \A r \in FanoutReceivers : r \in F!Legs
    <2>1. fSends["cancel"] = 0 BY <1>1 DEF FanoutInv, FanoutPlaceInv
    <2>2. "cancel" \notin F!Legs BY DEF F!Legs, F!AccountsDiffer
    <2>3. fSends \in [F!Legs \cup {"cancel"} -> Nat] BY DEF FanoutInv, FanoutTypeInv
    <2>4. /\ fSends' \in [F!Legs \cup {"cancel"} -> Nat] /\ fSends'["cancel"] = 1
          /\ \A l \in F!Legs : fSends'[l] = fSends[l]
        <3>1. fSends["cancel"] + 1 = 1 BY <2>1
        <3>2. fSends' = [fSends EXCEPT !["cancel"] = 1] BY <1>1, <3>1
        <3>3. \A l \in F!Legs : l # "cancel" BY <2>2
        <3>. QED BY <2>3, <3>2, <3>3
    <2>. QED BY <2>4 DEF F!Legs
<1>3. FanoutTypeInv' BY <1>1, <1>2 DEF FanoutInv, FanoutTypeInv, FanoutPlaces
<1>4. FanoutSentInv' BY <1>1, <1>2 DEF FanoutInv, FanoutSentInv, FanoutPlaceInv
<1>5. FanoutPlaceInv' BY <1>1, <1>2 DEF FanoutInv, FanoutPlaceInv, F!Running, FanoutBefore, FanoutEarly
<1>6. FanoutEvidenceInv' /\ FanoutResultInv'
  BY <1>1, <1>2 DEF FanoutInv, FanoutEvidenceInv, FanoutResultInv, F!NoResult
<1>. QED BY <1>3, <1>4, <1>5, <1>6 DEF FanoutInv

LEMMA FanoutReconcileLegKeeps ==
    ASSUME F!PartsFit, FanoutInv, NEW l \in F!Legs, F!ReconcileLeg(l)
    PROVE  FanoutInv'
<1>1. /\ fPc = "reconcile" /\ fEvidence[l].state = "pending" /\ F!Running
      /\ UNCHANGED <<fOrder, fMatched, fIntents, fSends, fResult, fPc, fRequest, fDispatched, fSeen>>
  BY DEF F!ReconcileLeg, F!Running, F!quiet, F!venueVars
<1>2. PICK e \in F!Established(l) : fEvidence' = [fEvidence EXCEPT ![l] = e] BY DEF F!ReconcileLeg
<1>o. fOrder[l] \in F!Orders /\ 0 \in 0..F!Whole BY DEF FanoutInv, FanoutTypeInv, F!PartsFit
<1>3. CASE e = F!As(fOrder[l]) /\ fOrder[l].status \in F!Terminal
    <2>1. /\ e.state = "clean" /\ e.status = fOrder[l].status /\ e.fill = fOrder[l].fill
          /\ e \in F!Evidence
      BY <1>3, <1>o DEF F!As, F!Evidence, F!Orders
    <2>2. fOrder[l].status \in FanoutStill BY <1>3 DEF FanoutStill
    <2>3. FanoutTypeInv' /\ FanoutEvidenceInv'
      BY <1>1, <1>2, <2>1, <2>2 DEF FanoutInv, FanoutTypeInv, FanoutEvidenceInv
    <2>4. FanoutSentInv' /\ FanoutPlaceInv' /\ FanoutResultInv'
      BY <1>1 DEF FanoutInv, FanoutSentInv, FanoutPlaceInv, FanoutResultInv, F!NoResult, F!Running
    <2>. QED BY <2>3, <2>4 DEF FanoutInv
<1>4. CASE e = F!Untouched /\ l \notin fDispatched
    <2>1. e.state = "clean" /\ e.status = "unsent" /\ e.fill = 0 /\ e \in F!Evidence
      BY <1>4, <1>o DEF F!Untouched, F!Pending, F!Evidence
    <2>2. fOrder[l].status = "unsent" /\ fOrder[l].fill = 0
      BY <1>1, <1>4 DEF FanoutInv, FanoutPlaceInv, FanoutSentInv
    <2>3. FanoutTypeInv' /\ FanoutEvidenceInv'
      BY <1>1, <1>2, <2>1, <2>2 DEF FanoutInv, FanoutTypeInv, FanoutEvidenceInv, FanoutStill
    <2>4. FanoutSentInv' /\ FanoutPlaceInv' /\ FanoutResultInv'
      BY <1>1 DEF FanoutInv, FanoutSentInv, FanoutPlaceInv, FanoutResultInv, F!NoResult, F!Running
    <2>. QED BY <2>3, <2>4 DEF FanoutInv
<1>5. CASE e = F!Unknown
    <2>1. e.state = "unknown" /\ e \in F!Evidence BY <1>5, <1>o DEF F!Unknown, F!Pending, F!Evidence
    <2>2. FanoutTypeInv' /\ FanoutEvidenceInv' BY <1>1, <1>2, <2>1 DEF FanoutInv, FanoutTypeInv, FanoutEvidenceInv
    <2>3. FanoutSentInv' /\ FanoutPlaceInv' /\ FanoutResultInv'
      BY <1>1 DEF FanoutInv, FanoutSentInv, FanoutPlaceInv, FanoutResultInv, F!NoResult, F!Running
    <2>. QED BY <2>2, <2>3 DEF FanoutInv
<1>. QED BY <1>3, <1>4, <1>5 DEF F!Established

\* What the memory forgets says nothing of any leg.
LEMMA FanoutForgotten ==
    ASSUME F!PartsFit, FanoutInv, F!Forget
    PROVE  /\ fDispatched' \in SUBSET F!Legs /\ fRequest' \in [FanoutReceivers -> F!Requests]
           /\ fEvidence' \in [F!Legs -> F!Evidence]
           /\ \A r \in FanoutReceivers : fRequest'[r] # "sending"
           /\ \A l \in F!Legs : fEvidence'[l].state = "pending"
           /\ fSeen' = "none"
BY DEF F!Requests, F!Pending, F!Evidence, F!PartsFit, F!Forget

\* The outcome tells of orders that ended.
LEMMA FanoutOutcomeTrue ==
    ASSUME F!AccountsDiffer, F!PartsFit, FanoutInv, F!Finish
    PROVE  /\ fResult' \in [outcome : F!Outcomes, retry : BOOLEAN, fills : [F!Legs -> 0..F!Whole]]
           /\ fResult'.outcome # "UNKNOWN" =>
                \A l \in F!Legs : fOrder[l].status \in FanoutStill /\ fOrder[l].fill = fResult'.fills[l]
           /\ fResult'.outcome = "SUCCESS" =>
                fMatched = FanoutPart /\ \A l \in F!Legs : fResult'.fills[l] = F!Size(l)
           /\ fResult'.retry => /\ fResult'.outcome = "PARTIAL"
                                /\ \A r \in FanoutReceivers : fSends[r] = 0
                                /\ \A l \in F!Legs : fResult'.fills[l] = 0
<1>1. /\ fPc = "reconcile" /\ F!Running
      /\ fResult'.outcome = IF F!Retryable THEN "PARTIAL" ELSE F!Outcome
      /\ fResult'.retry = F!Retryable /\ fResult'.fills = [l \in F!Legs |-> F!Fill(l)]
      /\ fResult' = [outcome |-> IF F!Retryable THEN "PARTIAL" ELSE F!Outcome,
                     retry |-> F!Retryable, fills |-> [l \in F!Legs |-> F!Fill(l)]]
  BY DEF F!Finish, F!Running
<1>2. F!Outcome \in F!Outcomes /\ F!Classified \in F!Outcomes BY DEF F!Outcome, F!Classified, F!Outcomes
<1>3. F!Clean => \A l \in F!Legs : fOrder[l].status \in FanoutStill /\ fOrder[l].fill = F!Fill(l)
  BY DEF F!Clean, F!Fill, FanoutInv, FanoutEvidenceInv
<1>4. ASSUME NEW l \in F!Legs, l \notin fDispatched
      PROVE  fSends[l] = 0 /\ fOrder[l].fill = 0
  BY <1>1, <1>4 DEF FanoutInv, FanoutPlaceInv, FanoutSentInv
<1>5. /\ fResult' \in [outcome : F!Outcomes, retry : BOOLEAN, fills : [F!Legs -> 0..F!Whole]]
  BY <1>1, <1>2 DEF F!Fill, FanoutInv, FanoutTypeInv, F!Evidence, F!Retryable, F!ZeroMutation, F!Clean,
    F!Outcomes
<1>6. CASE F!Retryable
    <2>1. F!Clean /\ fDispatched \subseteq {"source"} BY <1>6 DEF F!Retryable, F!ZeroMutation
    <2>2. ASSUME NEW l \in F!Legs PROVE F!Fill(l) = 0
        <3>1. CASE l \in fDispatched BY <2>1, <3>1, <1>6 DEF F!Retryable, F!ZeroMutation
        <3>2. CASE l \notin fDispatched BY <1>3, <1>4, <2>1, <3>2
        <3>. QED BY <3>1, <3>2
    <2>3. \A r \in FanoutReceivers : fSends[r] = 0 BY <2>1, <1>4 DEF F!Legs, F!AccountsDiffer
    <2>. QED BY <1>1, <1>3, <1>5, <1>6, <2>1, <2>2, <2>3
<1>7. CASE ~F!Retryable BY <1>1, <1>3, <1>5, <1>7 DEF F!Classified, F!ZeroMutation, F!Outcome
<1>. QED BY <1>6, <1>7

LEMMA FanoutFinishKeeps == ASSUME F!AccountsDiffer, F!PartsFit, FanoutInv, F!Finish PROVE FanoutInv'
<1>1. /\ fPc = "reconcile" /\ fPc' = "done" /\ F!Forget
      /\ UNCHANGED <<fOrder, fMatched, fIntents, fSends>>
  BY DEF F!Finish, F!venueVars
<1>2. /\ fResult' \in [outcome : F!Outcomes, retry : BOOLEAN, fills : [F!Legs -> 0..F!Whole]]
      /\ fResult'.outcome # "UNKNOWN" =>
           \A l \in F!Legs : fOrder[l].status \in FanoutStill /\ fOrder[l].fill = fResult'.fills[l]
      /\ fResult'.outcome = "SUCCESS" =>
           fMatched = FanoutPart /\ \A l \in F!Legs : fResult'.fills[l] = F!Size(l)
      /\ fResult'.retry => /\ fResult'.outcome = "PARTIAL"
                           /\ \A r \in FanoutReceivers : fSends[r] = 0
                           /\ \A l \in F!Legs : fResult'.fills[l] = 0
  BY FanoutOutcomeTrue
<1>3. fResult'.outcome # "none" BY <1>2 DEF F!Outcomes
<1>4. FanoutTypeInv' BY <1>1, <1>2, FanoutForgotten DEF FanoutInv, FanoutTypeInv, FanoutPlaces
<1>5. FanoutSentInv' /\ FanoutEvidenceInv' BY <1>1, FanoutForgotten DEF FanoutInv, FanoutSentInv, FanoutEvidenceInv
<1>6. FanoutPlaceInv' BY <1>1, FanoutForgotten DEF FanoutPlaceInv, F!Running, FanoutBefore, FanoutEarly
<1>7. FanoutResultInv' BY <1>1, <1>2, <1>3 DEF F!Size, FanoutResultInv
<1>. QED BY <1>4, <1>5, <1>6, <1>7 DEF FanoutInv

LEMMA FanoutCrashKeeps == ASSUME F!PartsFit, FanoutInv, F!Crash PROVE FanoutInv'
<1>1. /\ F!Running /\ fPc' = "dead" /\ F!Forget
      /\ UNCHANGED <<fOrder, fMatched, fSends, fResult>>
      /\ fIntents \subseteq fIntents' /\ fIntents' \subseteq fIntents \cup FanoutReceivers
  BY DEF F!Crash, F!venueVars
<1>2. FanoutTypeInv' BY <1>1, FanoutForgotten DEF FanoutInv, FanoutTypeInv, FanoutPlaces, F!Legs
<1>3. FanoutSentInv' /\ FanoutEvidenceInv' BY <1>1, FanoutForgotten DEF FanoutInv, FanoutSentInv, FanoutEvidenceInv
<1>4. FanoutPlaceInv' BY <1>1, FanoutForgotten DEF FanoutPlaceInv, F!Running, FanoutBefore, FanoutEarly
<1>5. FanoutResultInv' BY <1>1 DEF FanoutInv, FanoutResultInv, F!Running, F!NoResult
<1>. QED BY <1>2, <1>3, <1>4, <1>5 DEF FanoutInv

LEMMA FanoutRelaunchKeeps ==
    ASSUME F!AccountsDiffer, F!PartsFit, FanoutInv, F!Relaunch
    PROVE  FanoutInv'
<1>1. /\ ~F!Running /\ fPc \in {"done", "dead"}
      /\ UNCHANGED <<fOrder, fMatched, fIntents, fSends, fDispatched, fRequest, fSeen, fEvidence>>
  BY DEF F!Relaunch, F!venueVars, F!memory, F!Running
<1>2. CASE fIntents = {} /\ fPc' = "preflight" /\ fResult = F!NoResult /\ fResult' = fResult
    <2>1. "source" \in F!Legs /\ \A r \in FanoutReceivers : r \in F!Legs BY DEF F!Legs
    <2>2. \A l \in F!Legs : fSends[l] = 0 BY <1>2 DEF FanoutInv, FanoutSentInv
    <2>3. fSends["cancel"] = 0 BY <1>2 DEF FanoutInv, FanoutSentInv
    <2>4. FanoutTypeInv' /\ FanoutSentInv' /\ FanoutEvidenceInv'
      BY <1>1, <1>2 DEF FanoutInv, FanoutTypeInv, FanoutSentInv, FanoutEvidenceInv, FanoutPlaces,
        FanoutBefore, FanoutEarly
    <2>5. FanoutPlaceInv'
        <3>1. fSeen = "none"
            <4>1. fSends["source"] # 1 BY <2>1, <2>2
            <4>. QED BY <4>1 DEF FanoutInv, FanoutPlaceInv
        <3>2. \A r \in FanoutReceivers : fRequest[r] # "sending" BY <1>1 DEF FanoutInv, FanoutPlaceInv
        <3>3. \A l \in F!Legs : fSends'[l] # 1 /\ fSends'[l] = 0 /\ fEvidence'[l].state = "pending"
            <4>1. \A l \in F!Legs : fSends'[l] = 0 BY <1>1, <2>2
            <4>2. \A l \in F!Legs : fSends'[l] # 1 BY <4>1
            <4>3. \A l \in F!Legs : fEvidence'[l].state = "pending" BY <1>1 DEF FanoutInv, FanoutPlaceInv
            <4>. QED BY <4>1, <4>2, <4>3
        <3>. QED BY <1>1, <1>2, <2>1, <2>3, <3>1, <3>2, <3>3 DEF FanoutPlaceInv, FanoutBefore, FanoutEarly
    <2>6. FanoutResultInv' BY <1>2 DEF FanoutInv, FanoutResultInv, F!NoResult
    <2>. QED BY <2>4, <2>5, <2>6 DEF FanoutInv
<1>3. CASE fPc' = "done" /\ fResult' = IF fResult = F!NoResult THEN F!Refused ELSE fResult
    <2>1. /\ fResult = F!NoResult => fResult'.outcome = "UNKNOWN" /\ fResult'.retry = FALSE
          /\ fResult' \in [outcome : F!Outcomes \cup {"none"}, retry : BOOLEAN,
                           fills : [F!Legs -> 0..F!Whole]]
      BY <1>3 DEF F!Refused, F!NoResult, F!Outcomes, F!PartsFit, FanoutInv, FanoutTypeInv
    <2>2. FanoutTypeInv' /\ FanoutSentInv' /\ FanoutEvidenceInv'
      BY <1>1, <1>3, <2>1 DEF FanoutInv, FanoutTypeInv, FanoutSentInv, FanoutEvidenceInv, FanoutPlaces
    <2>3. FanoutPlaceInv' BY <1>1, <1>3 DEF FanoutInv, FanoutPlaceInv, F!Running, FanoutBefore, FanoutEarly
    <2>4. FanoutResultInv' BY <1>1, <1>3, <2>1 DEF F!Size, FanoutResultInv, FanoutInv
    <2>. QED BY <2>2, <2>3, <2>4 DEF FanoutInv
<1>. QED BY <1>2, <1>3 DEF F!Relaunch

LEMMA FanoutStep == ASSUME F!AccountsDiffer, F!PartsFit, FanoutInv, [F!Next]_(F!vars) PROVE FanoutInv'
<1>1. CASE UNCHANGED F!vars
    <2>1. UNCHANGED <<fOrder, fMatched, fIntents, fSends, fPc, fDispatched, fRequest, fSeen,
    fEvidence,
                      fResult>>
      BY <1>1 DEF F!vars, F!venueVars, F!memory
    <2>2. FanoutTypeInv' /\ FanoutSentInv' /\ FanoutEvidenceInv'
      BY <2>1 DEF FanoutInv, FanoutTypeInv, FanoutSentInv, FanoutEvidenceInv
    <2>3. FanoutPlaceInv' BY <2>1 DEF FanoutInv, FanoutPlaceInv, F!Running
    <2>4. FanoutResultInv' BY <2>1 DEF F!Size, FanoutInv, FanoutResultInv, F!NoResult
    <2>. QED BY <2>2, <2>3, <2>4 DEF FanoutInv
<1>2. CASE F!Next
  BY <1>2, FanoutVenueKeeps, FanoutPreflightKeeps, FanoutPrepareKeeps, FanoutSendSourceKeeps,
    FanoutSourceAnsweredKeeps, FanoutAdmitKeeps, FanoutIntentsFlushedKeeps, FanoutFinalBarrierKeeps,
    FanoutSendReceiverKeeps, FanoutReceiverAnsweredKeeps, FanoutObservedKeeps, FanoutResolveKeeps,
    FanoutCleanupKeeps, FanoutCancelIfSafeKeeps, FanoutSendCancelKeeps, FanoutReconcileLegKeeps,
    FanoutFinishKeeps, FanoutCrashKeeps, FanoutRelaunchKeeps DEF F!Next, F!Engine, F!Send, F!Decide
<1>. QED BY <1>1, <1>2

LEMMA FanoutInvAlways == ASSUME F!AccountsDiffer, F!PartsFit PROVE F!Spec => []FanoutInv
<1>1. F!Init => FanoutInv BY FanoutInvInit
<1>2. FanoutInv /\ [F!Next]_(F!vars) => FanoutInv' BY FanoutStep
<1>. QED BY <1>1, <1>2, PTL DEF F!Spec

\* SUCCESS means that every receiver traded its whole part with the source, a
\* retry that no receiver order left, nothing filled and nothing can; no MARKET
\* leaves before the intents of all receivers are durable, and nothing leaves
\* twice (_finish_fanout, _retryable_fanout_after_guard, _execute_fanout).
THEOREM FanoutsAreTrue ==
    ASSUME F!AccountsDiffer, F!PartsFit PROVE F!Spec => []F!FanoutIsTrue
<1>1. FanoutInv => F!FanoutIsTrue
    <2>. SUFFICES ASSUME FanoutInv PROVE F!FanoutIsTrue OBVIOUS
    <2>1. F!ResultIsTrue BY DEF FanoutInv, FanoutResultInv, F!ResultIsTrue, FanoutStill, F!Terminal
    <2>2. DOMAIN fSends = F!Legs \cup {"cancel"} BY DEF FanoutInv, FanoutTypeInv
    <2>3. F!EveryExposureOnRecord
        <3>1. \A l \in F!Legs : /\ fSends[l] \in {0, 1} /\ fSends[l] <= 1
                                /\ fSends[l] > 0 => fSends[l] = 1
          BY DEF FanoutInv, FanoutSentInv
        <3>2. fSends["cancel"] <= 1 BY DEF FanoutInv, FanoutSentInv
        <3>3. \A l \in F!Legs : fSends[l] > 0 => l \in fIntents BY <3>1 DEF FanoutInv, FanoutSentInv
        <3>4. \A r \in FanoutReceivers : fSends[r] > 0 => FanoutReceivers \subseteq fIntents
          BY <3>1 DEF F!Legs, FanoutInv, FanoutSentInv
        <3>. QED BY <2>2, <3>1, <3>2, <3>3, <3>4 DEF F!EveryExposureOnRecord
    <2>. QED BY <2>1, <2>3 DEF F!FanoutIsTrue
<1>. QED BY <1>1, FanoutInvAlways, PTL

-----------------------------------------------------------------------------
(* The engine implements PairedAttempt.                                    *)

FanoutExposed == {l \in F!Legs : fOrder[l].status # "unsent"}
FanoutOpen    == {l \in F!Legs : fOrder[l].status \in {"flight", "live"}}
FanoutFills   == [l \in F!Legs |-> fOrder[l].fill]
LEMMA FanoutInitPromise == ASSUME F!Init PROVE F!Promise!Init
BY DEF F!Init, F!Promise!Init, F!Promise!Nothing, F!NoResult

LEMMA FanoutVenueTrades ==
    ASSUME F!AccountsDiffer, F!PartsFit, FanoutInv, FanoutInv', F!Venue
    PROVE  F!Promise!Trade
<1>1. \A l \in F!Legs : FanoutMoves(l) BY FanoutVenueMoves DEF FanoutInv
<1>2. FanoutFills' \in [F!Legs -> 0..F!Whole] BY DEF FanoutFills, FanoutInv, FanoutTypeInv, F!Orders
<1>3. \A l \in F!Legs : /\ FanoutFills'[l] >= FanoutFills[l]
                        /\ l \notin FanoutOpen => FanoutFills'[l] = FanoutFills[l]
  BY <1>1 DEF FanoutFills, FanoutOpen, FanoutMoves
<1>4. FanoutOpen' \subseteq FanoutOpen BY <1>1 DEF FanoutOpen, FanoutMoves
<1>5. FanoutExposed' = FanoutExposed BY <1>1 DEF FanoutMoves, FanoutExposed
<1>6. fResult' = fResult BY DEF F!Venue, F!SourceArrives, F!ReceiverArrives, F!Taken, F!SourceCanceled, F!others
<1>. QED BY <1>2, <1>3, <1>4, <1>5, <1>6 DEF F!Promise!Trade, FanoutFills, FanoutOpen, FanoutExposed

LEMMA FanoutSendExposes ==
    ASSUME FanoutInv, F!Running, UNCHANGED fResult, NEW l \in F!Legs, fSends[l] = 0,
           fOrder' = [fOrder EXCEPT ![l].status = "flight"]
    PROVE  F!Promise!Expose(l)
<1>1. fOrder[l].status = "unsent" BY DEF FanoutInv, FanoutSentInv
<1>2. /\ fOrder'[l].status = "flight" /\ fOrder'[l].fill = fOrder[l].fill
      /\ \A k \in F!Legs \ {l} : fOrder'[k] = fOrder[k]
  BY FanoutStatusSet DEF F!Statuses, FanoutInv
<1>3. FanoutExposed' = FanoutExposed \cup {l} /\ l \notin FanoutExposed BY <1>1, <1>2 DEF FanoutExposed
<1>4. FanoutOpen' = FanoutOpen \cup {l} BY <1>1, <1>2 DEF FanoutOpen
<1>5. FanoutFills' = FanoutFills BY <1>2 DEF FanoutFills
<1>6. fResult.outcome = "none" BY DEF FanoutInv, FanoutResultInv, F!Running
<1>. QED BY <1>3, <1>4, <1>5, <1>6 DEF F!Promise!Expose, FanoutExposed, FanoutOpen, FanoutFills

LEMMA FanoutReports ==
    ASSUME FanoutInv, FanoutInv', UNCHANGED fOrder, fResult.outcome = "none", fResult'.outcome # "none"
    PROVE  F!Promise!Report
<1>1. CASE fResult'.outcome = "UNKNOWN" BY <1>1 DEF FanoutInv, FanoutTypeInv, F!Promise!Report
<1>2. CASE fResult'.outcome # "UNKNOWN"
    <2>1. \A l \in F!Legs : fOrder[l].status \in FanoutStill /\ fOrder[l].fill = fResult'.fills[l]
      BY <1>2 DEF FanoutInv, FanoutResultInv
    <2>2. FanoutOpen = {} BY <2>1 DEF FanoutOpen, FanoutStill, F!Terminal
    <2>3. fResult'.fills = FanoutFills BY <2>1 DEF FanoutInv, FanoutTypeInv, FanoutFills
    <2>. QED BY <1>2, <2>2, <2>3 DEF F!Promise!Report, FanoutOpen, FanoutFills
<1>. QED BY <1>1, <1>2

LEMMA FanoutStepPromised ==
    ASSUME F!AccountsDiffer, F!PartsFit, FanoutInv, FanoutInv', [F!Next]_(F!vars)
    PROVE  [F!Promise!Next]_(F!Promise!vars)
<1>1. CASE F!Venue BY <1>1, FanoutVenueTrades DEF F!Promise!Next
<1>2. CASE F!SendSource
  BY <1>2, FanoutSendExposes DEF F!SendSource, F!Running, F!Legs, FanoutInv, FanoutPlaceInv, FanoutEarly,
    F!Promise!vars, F!Promise!Next
<1>3. ASSUME NEW r \in FanoutReceivers, F!SendReceiver(r) PROVE [F!Promise!Next]_(F!Promise!vars)
  BY <1>3, FanoutSendExposes DEF F!SendReceiver, FanoutInv, FanoutPlaceInv, F!Legs, F!Running, F!Promise!vars,
    F!Promise!Next
<1>4. CASE UNCHANGED fOrder /\ fResult.outcome = "none" /\ fResult'.outcome # "none"
  BY <1>4, FanoutReports DEF F!Promise!Next
<1>5. CASE UNCHANGED <<fOrder, fResult>> BY <1>5 DEF F!Promise!vars
<1>6. CASE F!Preflight
    <2>1. CASE fResult' = fResult BY <1>5, <1>6, <2>1 DEF F!Preflight, F!venueVars
    <2>2. CASE fResult' = [F!NoResult EXCEPT !.outcome = "FAILED_PREFLIGHT_BLOCKED"]
      BY <2>2, <1>6, <1>4 DEF F!NoResult, F!Preflight, FanoutInv, FanoutResultInv, F!venueVars
    <2>. QED BY <1>6, <2>1, <2>2 DEF F!Preflight
<1>7. CASE F!Finish
  BY <1>7, FanoutOutcomeTrue, <1>4 DEF F!Finish, FanoutInv, FanoutResultInv, F!Outcomes, F!venueVars
<1>8. CASE F!Relaunch BY <1>8, <1>5, <1>4 DEF F!Relaunch, F!venueVars, F!NoResult, F!Refused
<1>. QED
  BY <1>1, <1>2, <1>3, <1>5, <1>6, <1>7, <1>8 DEF F!vars, F!venueVars, F!quiet, F!memory, F!Next, F!Engine,
    F!Send, F!Decide, F!Prepare, F!SourceAnswered, F!Admit, F!IntentsFlushed, F!FinalBarrier,
    F!ReceiverAnswered, F!ReceiversObserved, F!Resolve, F!Cleanup, F!CancelIfSafe, F!SendCancel,
    F!ReconcileLeg, F!Crash

\* However many receivers it has, a fan-out attempt exposes a leg at most once
\* and before anything is reported, and reports a final outcome only when nothing
\* of it can fill any more, and what filled.
THEOREM FanoutsKeepTheirPromise == ASSUME F!AccountsDiffer, F!PartsFit PROVE F!Spec => F!FanoutKeepsPromise
<1>1. F!Init => F!Promise!Init BY FanoutInitPromise
<1>2. FanoutInv /\ FanoutInv' /\ [F!Next]_(F!vars) => [F!Promise!Next]_(F!Promise!vars) BY FanoutStepPromised
<1>. QED BY <1>1, <1>2, FanoutInvAlways, PTL DEF F!Spec, F!FanoutKeepsPromise, F!Promise!Spec

\* What runs in MCHandoff as a fan-out is an attempt of Fanout, at every step.
LEMMA FanoutSteps == MCSpec => F!Spec
<1>1. MCInit => F!Init BY DEF MCInit
<1>2. [MCNext]_<<vars, fanout, series, which>> => [F!Next]_(F!vars)
  BY DEF fanout, F!vars, F!venueVars, F!memory, MCNext
<1>. QED BY <1>1, <1>2, PTL DEF MCSpec, F!Spec

\* What a fan-out attempt says is true, and every order it sent is on record
\* (_finish_fanout, _execute_fanout).
THEOREM FanoutsReportTheTruth == MCSpec => []FanoutIsTrue
BY FanoutSteps, FanoutAssumption, FanoutsAreTrue, PTL DEF FanoutIsTrue

\* To whoever calls it, a fan-out attempt is a paired one with more legs
\* (_execute_fanout).
THEOREM FanoutsArePairs == MCSpec => FanoutKeepsPromise
BY FanoutSteps, FanoutAssumption, FanoutsKeepTheirPromise DEF FanoutKeepsPromise

-----------------------------------------------------------------------------
(* The series: sums over its children and over its journal.                *)

LEMMA Least ==
    ASSUME NEW T, T \subseteq Nat, T # {}
    PROVE  \E x \in T : x = 0 \/ (x - 1 \in Nat /\ x - 1 \notin T)
<1>1. \E x \in T : \A y \in T : ~(<<y, x>> \in OpToRel(<, Nat)) BY NatLessThanWellFounded, WFMin
<1>2. PICK x \in T : \A y \in T : ~(<<y, x>> \in OpToRel(<, Nat)) BY <1>1
<1>3. \A y \in T : ~(y < x) BY <1>2 DEF OpToRel
<1>. QED BY <1>3

\* g holds the totals of s up to n.
Sums(s, g, n) ==
    /\ g \in [0..n -> Int]
    /\ \A i \in 0..n : g[i] = IF i = 0 THEN 0 ELSE g[i - 1] + s[i]

\* Every sequence of numbers has its totals, and only one: the recursive
\* function of the model has a value at every index.
LEMMA SumsExist ==
    ASSUME NEW s \in Seq(Int)
    PROVE  \E g : Sums(s, g, Len(s))
<1>. DEFINE T == {n \in Nat : n <= Len(s) /\ ~\E g : Sums(s, g, n)}
<1>1. SUFFICES ASSUME T # {} PROVE FALSE BY Len(s) \in Nat
<1>2. PICK n \in T : n = 0 \/ (n - 1 \in Nat /\ n - 1 \notin T) BY <1>1, Least
<1>3. CASE n = 0
    <2>1. Sums(s, [i \in 0..0 |-> 0], 0) BY DEF Sums
    <2>. QED BY <1>3, <2>1
<1>4. CASE n # 0
    <2>1. n - 1 \in Nat /\ n <= Len(s) /\ n \in Nat /\ Len(s) \in Nat BY <1>2, <1>4
    <2>2. PICK g : Sums(s, g, n - 1) BY <1>2, <1>4, <2>1
    <2>. DEFINE h == [i \in 0..n |-> IF i = n THEN g[n - 1] + s[n] ELSE g[i]]
    <2>3. g \in [0..(n - 1) -> Int] /\ s[n] \in Int BY <2>1, <2>2 DEF Sums
    <2>4. h \in [0..n -> Int] BY <2>1, <2>3
    <2>5. ASSUME NEW i \in 0..n PROVE h[i] = IF i = 0 THEN 0 ELSE h[i - 1] + s[i] BY <2>1, <2>2, <2>5 DEF Sums
    <2>6. Sums(s, h, n) BY <2>4, <2>5 DEF Sums
    <2>. QED BY <2>6
<1>. QED BY <1>3, <1>4

LEMMA SumsAreUnique ==
    ASSUME NEW s, NEW n \in Nat, NEW g, NEW h, Sums(s, g, n), Sums(s, h, n)
    PROVE  g = h
<1>. DEFINE T == {i \in 0..n : g[i] # h[i]}
<1>1. T = {}
    <2>. SUFFICES ASSUME T # {} PROVE FALSE OBVIOUS
    <2>0. T \subseteq Nat OBVIOUS
    <2>1. PICK i \in T : i = 0 \/ (i - 1 \in Nat /\ i - 1 \notin T) BY <2>0, Least
    <2>2. CASE i = 0 BY <2>2 DEF Sums
    <2>3. CASE i # 0 BY <2>1, <2>3 DEF Sums
    <2>. QED BY <2>2, <2>3
<1>2. \A i \in 0..n : g[i] = h[i] BY <1>1
<1>. QED BY <1>2 DEF Sums

\* So the total of a sequence is the last of its totals.
LEMMA TotalIs ==
    ASSUME NEW s \in Seq(Int), NEW g, Sums(s, g, Len(s))
    PROVE  S!Total(s) = g[Len(s)]
<1>. DEFINE t == CHOOSE t : t = [i \in 0..Len(s) |-> IF i = 0 THEN 0 ELSE t[i - 1] + s[i]]
<1>1. g = [i \in 0..Len(s) |-> IF i = 0 THEN 0 ELSE g[i - 1] + s[i]] BY DEF Sums
<1>2. t = [i \in 0..Len(s) |-> IF i = 0 THEN 0 ELSE t[i - 1] + s[i]] BY <1>1
<1>. HIDE DEF t
<1>3. t = g
    <2>. DEFINE T == {i \in 0..Len(s) : t[i] # g[i]}
    <2>1. T = {}
        <3>. SUFFICES ASSUME T # {} PROVE FALSE OBVIOUS
        <3>0. T \subseteq Nat /\ Len(s) \in Nat OBVIOUS
        <3>1. PICK i \in T : i = 0 \/ (i - 1 \in Nat /\ i - 1 \notin T) BY <3>0, Least
        <3>2. CASE i = 0 BY <1>1, <1>2, <3>2
        <3>3. CASE i # 0
            <4>1. i \in 1..Len(s) /\ i - 1 \in 0..Len(s) /\ t[i - 1] = g[i - 1] BY <3>0, <3>1, <3>3
            <4>2. t[i] = t[i - 1] + s[i] BY <1>2, <3>3, <4>1
            <4>3. g[i] = g[i - 1] + s[i] BY <1>1, <3>3, <4>1
            <4>. QED BY <3>1, <4>1, <4>2, <4>3
        <3>. QED BY <3>2, <3>3
    <2>2. t = [i \in 0..Len(s) |-> t[i]] /\ g = [i \in 0..Len(s) |-> g[i]] BY <1>1, <1>2
    <2>3. \A i \in 0..Len(s) : t[i] = g[i] BY <2>1
    <2>. HIDE DEF T
    <2>. QED BY <2>2, <2>3
<1>4. S!Total(s) = t[Len(s)] BY DEF S!Total, t
<1>. QED BY <1>3, <1>4

LEMMA TotalEmpty == S!Total(<< >>) = 0
<1>1. Sums(<< >>, [i \in 0..0 |-> 0], Len(<< >>)) BY DEF Sums
<1>. QED BY <1>1, TotalIs

LEMMA TotalType == ASSUME NEW s \in Seq(Int) PROVE S!Total(s) \in Int
<1>1. PICK g : Sums(s, g, Len(s)) BY SumsExist
<1>2. g \in [0..Len(s) -> Int] /\ Len(s) \in 0..Len(s) BY <1>1 DEF Sums
<1>3. S!Total(s) = g[Len(s)] BY <1>1, TotalIs
<1>. QED BY <1>2, <1>3

\* A fill of a new order adds to the total, and a fill of an old one moves it
\* by the difference.
LEMMA TotalAppend ==
    ASSUME NEW s \in Seq(Int), NEW d \in Int
    PROVE  S!Total(Append(s, d)) = S!Total(s) + d
<1>. DEFINE n == Len(s)
<1>1. PICK g : Sums(s, g, n) BY SumsExist
<1>. DEFINE h == [i \in 0..(n + 1) |-> IF i = n + 1 THEN g[n] + d ELSE g[i]]
            r == Append(s, d)
<1>2. r \in Seq(Int) /\ Len(r) = n + 1 /\ n \in Nat /\ r[n + 1] = d /\ \A i \in 1..n : r[i] = s[i] OBVIOUS
<1>3. h \in [0..(n + 1) -> Int] BY <1>1, <1>2 DEF Sums
<1>4. ASSUME NEW i \in 0..(n + 1) PROVE h[i] = IF i = 0 THEN 0 ELSE h[i - 1] + r[i] BY <1>1, <1>2, <1>4 DEF Sums
<1>5. Sums(r, h, Len(r)) BY <1>2, <1>3, <1>4 DEF Sums
<1>6. S!Total(r) = h[n + 1] BY <1>2, <1>5, TotalIs
<1>7. h[n + 1] = g[n] + d BY <1>2
<1>. QED BY <1>1, <1>6, <1>7, TotalIs


LEMMA TotalChange ==
    ASSUME NEW s \in Seq(Int), NEW r \in Seq(Int), Len(r) = Len(s), NEW k \in 1..Len(s),
           \A i \in 1..Len(s) : i # k => r[i] = s[i]
    PROVE  S!Total(r) = S!Total(s) + (r[k] - s[k])
<1>. DEFINE n == Len(s)
            d == r[k] - s[k]
<1>1. PICK g : Sums(s, g, n) BY SumsExist
<1>2. n \in Nat /\ k \in 1..n /\ r[k] \in Int /\ s[k] \in Int /\ d \in Int OBVIOUS
<1>3. g \in [0..n -> Int] /\ \A i \in 0..n : g[i] = IF i = 0 THEN 0 ELSE g[i - 1] + s[i] BY <1>1 DEF Sums
<1>4. \A i \in 1..n : s[i] \in Int /\ r[i] \in Int /\ (i # k => r[i] = s[i]) BY <1>2
<1>5. r[k] = s[k] + d BY <1>2
<1>6. Sums(r, g, n) => S!Total(r) = g[n] BY TotalIs
<1>. DEFINE h == [i \in 0..n |-> IF i < k THEN g[i] ELSE g[i] + d]
<1>7. Sums(r, h, n) => S!Total(r) = h[n] BY TotalIs
<1>8. S!Total(s) = g[n] BY <1>1, TotalIs
<1>. HIDE DEF n, d
<1>9. ASSUME NEW i \in 0..n PROVE g[i] \in Int /\ g[i] + d \in Int
    <2>1. g \in [0..n -> Int] BY <1>3
    <2>2. g[i] \in Int BY <2>1
    <2>. QED BY <1>2, <2>2
<1>10. h \in [0..n -> Int] /\ \A i \in 0..n : h[i] = IF i < k THEN g[i] ELSE g[i] + d BY <1>9
<1>. HIDE DEF h
<1>11. ASSUME NEW i \in 0..n, i # 0 PROVE h[i] = h[i - 1] + r[i]
    <2>1. i \in 1..n /\ i - 1 \in 0..n /\ i \in Nat /\ k \in Nat BY <1>2, <1>11
    <2>. DEFINE a == g[i - 1]
                b == s[i]
    <2>2. a \in Int /\ b \in Int /\ d \in Int BY <1>2, <1>4, <1>9, <2>1
    <2>3. g[i] = a + b BY <1>3, <1>11
    <2>4. h[i] = (IF i < k THEN g[i] ELSE g[i] + d) /\ h[i - 1] = IF i - 1 < k THEN a ELSE a + d BY <1>10, <2>1
    <2>5. i # k => r[i] = b BY <1>4, <2>1
    <2>6. i = k => r[i] = b + d BY <1>5
    <2>. HIDE DEF a, b
    <2>7. (a + b) + d = a + (b + d) /\ (a + b) + d = (a + d) + b BY <2>2
    <2>8. CASE i < k BY <2>1, <2>8, <2>3, <2>4, <2>5
    <2>9. CASE i = k BY <2>1, <2>9, <2>3, <2>4, <2>6, <2>7
    <2>10. CASE i > k BY <2>1, <2>10, <2>3, <2>4, <2>5, <2>7
    <2>. QED BY <2>1, <2>8, <2>9, <2>10
<1>12. h[0] = 0 BY <1>2, <1>3, <1>10
<1>13. \A i \in 0..n : h[i] = IF i = 0 THEN 0 ELSE h[i - 1] + r[i] BY <1>11, <1>12
<1>15. Sums(r, h, n) BY <1>10, <1>13 DEF Sums
<1>14. h[n] = g[n] + d BY <1>2, <1>10
<1>. QED BY <1>7, <1>8, <1>14, <1>15 DEF d


ChildEvents == {"CHILD_INTENT", "CHILD_RESULT", "CHILD_COMPLETE", "SERIES_RECONCILED_CHILD"}
SeriesEvents == {"SERIES_STARTED", "SERIES_COMPLETE", "SERIES_STOPPED", "SERIES_REMAINDER_UNTRADEABLE",
                 "SERIES_PREFLIGHT_BLOCKED", "SERIES_RESTART_BLOCKED"}
Findings == [out : {"SUCCESS", "PARTIAL", "UNKNOWN"}, legs : [S!Roles -> Nat \cup {S!None}], after : [S!Roles -> Int]]
Entries == [ev : ChildEvents \cup SeriesEvents, child : Nat, said : Nat \cup Findings]
Kids == [n : Nat \ {0}, sent : BOOLEAN, settled : BOOLEAN, by : Nat, working : SUBSET S!Roles,
         base : [S!Roles -> Int], fill : [S!Roles -> Nat]]

Loop == {"next", "child", "running", "result"}

SeriesType ==
    /\ parent \in Seq(Entries) /\ child \in Seq(Kids) /\ pos \in [S!Roles -> Int]
    /\ at \in {"start", "preflight", "restart", "over", "down"} \cup Loop
    /\ slice \in Nat /\ life \in Nat
    /\ report \in [done : Nat, source : Nat \cup {S!None}, receiver : Nat \cup {S!None}, pair : Nat \cup {S!None}]

\* Every child is over but the last; that one is over, or only asked for, or
\* under way.
Idle == S!Of("CHILD_INTENT") = 1..Len(child) /\ S!Of("CHILD_COMPLETE") = 1..Len(child)
Asked == S!Of("CHILD_INTENT") = 1..(Len(child) + 1) /\ S!Of("CHILD_COMPLETE") = 1..Len(child)
Under ==
    /\ Len(child) > 0
    /\ S!Of("CHILD_INTENT") = 1..Len(child) /\ S!Of("CHILD_COMPLETE") = 1..(Len(child) - 1)

Whole(k) == k.sent /\ k.working = {} /\ \A r \in S!Roles : k.fill[r] = k.n
Tells(legs, k) == \A r \in S!Roles : legs[r] # S!None => k.sent /\ r \notin k.working /\ k.fill[r] = legs[r]
Receipt(k) == parent[k].ev \in {"CHILD_RESULT", "SERIES_RECONCILED_CHILD"}
Fits(k) ==
    /\ parent[k].child \in DOMAIN child /\ parent[k].said \in Findings
    /\ Tells(parent[k].said.legs, child[parent[k].child])

\* A completed child is a full pair, and what is on record of one is true.
SeriesFacts ==
    /\ \A i \in DOMAIN child : i \in S!Of("CHILD_COMPLETE") => Whole(child[i])
    /\ \A i \in DOMAIN child : \A r \in S!Roles : child[i].fill[r] <= child[i].n
    /\ \A i, j \in DOMAIN child : child[i].by = child[j].by
    /\ \A k \in DOMAIN parent : parent[k].ev = "CHILD_COMPLETE" => parent[k].said \in Nat
    /\ \A k \in DOMAIN parent : Receipt(k) => Fits(k)

\* What the orders traded is what the completed children are worth, and what
\* the last one traded when it is under way.
SeriesSums ==
    /\ S!Stored \in Nat
    /\ Under => \A r \in S!Roles : S!Filled(r) = S!Stored + child[Len(child)].fill[r]
    /\ ~Under => \A r \in S!Roles : S!Filled(r) = S!Stored
    /\ Under => S!Planned = S!Stored + child[Len(child)].n
    /\ ~Under => S!Planned = S!Stored
    /\ S!Planned <= Target

Records == (Idle \/ Asked \/ Under) /\ SeriesFacts /\ SeriesSums

Flow ==
    /\ at = "preflight" => parent = <<>>
    /\ at = "next" => Idle
    /\ at = "child" => Asked /\ slice > 0 /\ S!Stored + slice <= Target
    /\ at \in {"running", "result"} => Under /\ child[Len(child)].n = slice
    /\ at = "result" => S!At("CHILD_RESULT", Len(child)) # {}
    /\ S!Happened("SERIES_COMPLETE") => Idle /\ at \in {"start", "over", "down"}
    /\ at \in Loop => memory.done = S!Stored /\ \A i \in DOMAIN child : child[i].by = life

Answer ==
    at = "over" =>
      /\ report.done <= S!Stored
      /\ \A r \in S!Roles :
           /\ report[r] # S!None =>
                \/ report[r] = S!Filled(r) /\ (Under => r \notin child[Len(child)].working)
                \/ report[r] = S!Stored /\ S!ReceiptsConflict
           /\ report.pair # S!None => report.pair <= S!Filled(r)

SeriesInv == SeriesType /\ Records /\ Flow /\ Answer

\* What one more record makes of the journal.
Grown(ev, i, x) ==
    /\ parent' \in Seq(Entries) /\ Len(parent') = Len(parent) + 1
    /\ DOMAIN parent' = DOMAIN parent \cup {Len(parent) + 1}
    /\ Len(parent) + 1 \notin DOMAIN parent
    /\ \A k \in DOMAIN parent : parent'[k] = parent[k]
    /\ parent'[Len(parent) + 1] = [ev |-> ev, child |-> i, said |-> x]
    /\ \A e : S!Of(e)' = IF e = ev THEN S!Of(e) \cup {i} ELSE S!Of(e)
    /\ \A e, j : S!At(e, j)' = IF e = ev /\ j = i THEN S!At(e, j) \cup {Len(parent) + 1} ELSE S!At(e, j)

LEMMA Wrote ==
    ASSUME parent \in Seq(Entries), NEW ev \in ChildEvents \cup SeriesEvents, NEW i \in Nat,
           NEW x \in Nat \cup Findings, S!Written(ev, i, x)
    PROVE  Grown(ev, i, x)
<1>. DEFINE n == Len(parent)
            y == [ev |-> ev, child |-> i, said |-> x]
<1>1. y \in Entries /\ parent' = Append(parent, y) /\ n \in Nat /\ DOMAIN parent = 1..n BY DEF Entries, S!Written
<1>2. y.ev = ev /\ y.child = i OBVIOUS
<1>. HIDE DEF y
<1>3. /\ parent' \in Seq(Entries) /\ Len(parent') = n + 1 /\ parent'[n + 1] = y
      /\ \A k \in 1..n : parent'[k] = parent[k]
  BY <1>1
<1>4. DOMAIN parent' = DOMAIN parent \cup {n + 1} /\ n + 1 \notin DOMAIN parent BY <1>1, <1>3
<1>5. ASSUME NEW e PROVE S!Of(e)' = IF e = ev THEN S!Of(e) \cup {i} ELSE S!Of(e) BY <1>1, <1>2, <1>3, <1>4 DEF S!Of
<1>6. ASSUME NEW e, NEW j
      PROVE  S!At(e, j)' = IF e = ev /\ j = i THEN S!At(e, j) \cup {n + 1} ELSE S!At(e, j)
  BY <1>1, <1>2, <1>3, <1>4 DEF S!At
<1>. QED BY <1>1, <1>3, <1>4, <1>5, <1>6 DEF y, Grown

LEMMA IsAppend ==
    ASSUME NEW s \in Seq(Int), NEW d \in Int, NEW t \in Seq(Int), Len(t) = Len(s) + 1,
           t[Len(t)] = d, \A j \in 1..Len(s) : t[j] = s[j]
    PROVE  t = Append(s, d)
<1>. DEFINE u == Append(s, d)
            n == Len(s)
<1>1. u \in Seq(Int) /\ Len(u) = n + 1 /\ n \in Nat OBVIOUS
<1>2. u[n + 1] = d OBVIOUS
<1>3. \A j \in 1..n : u[j] = s[j] OBVIOUS
<1>. HIDE DEF u
<1>4. \A j \in 1..(n + 1) : j = n + 1 \/ j \in 1..n BY <1>1
<1>5. \A j \in 1..(n + 1) : t[j] = u[j] BY <1>1, <1>2, <1>3, <1>4
<1>6. t = [j \in 1..(n + 1) |-> t[j]] /\ u = [j \in 1..(n + 1) |-> u[j]] BY <1>1
<1>7. t = u BY <1>5, <1>6
<1>. QED BY <1>7 DEF u

\* What a record adds to the completed quantity.
LEMMA StoredChange ==
    ASSUME parent \in Seq(Entries), NEW ev \in ChildEvents \cup SeriesEvents, NEW i \in Nat,
           NEW x \in Nat \cup Findings, S!Written(ev, i, x), ev = "CHILD_COMPLETE" => x \in Nat,
           \A k \in DOMAIN parent : parent[k].ev = "CHILD_COMPLETE" => parent[k].said \in Nat
    PROVE  /\ ev = "CHILD_COMPLETE" => S!Stored' = S!Stored + x
           /\ ev # "CHILD_COMPLETE" => S!Stored' = S!Stored
<1>. DEFINE Worth(e) == IF e.ev = "CHILD_COMPLETE" THEN e.said ELSE 0
            s == [k \in DOMAIN parent |-> Worth(parent[k])]
            y == [ev |-> ev, child |-> i, said |-> x]
            n == Len(parent)
<1>1. n \in Nat /\ DOMAIN parent = 1..n OBVIOUS
<1>2. \A k \in 1..n : Worth(parent[k]) \in Int BY <1>1
<1>3. s \in Seq(Int) /\ Len(s) = n BY <1>1, <1>2
<1>4. Worth(y) \in Int /\ Worth(y) = IF ev = "CHILD_COMPLETE" THEN x ELSE 0 OBVIOUS
<1>5. /\ DOMAIN parent' = 1..(n + 1) /\ parent'[n + 1] = y
      /\ \A k \in 1..n : parent'[k] = parent[k]
  BY Wrote, <1>1 DEF Grown
<1>. HIDE DEF Worth, y
<1>6. [k \in DOMAIN parent' |-> Worth(parent'[k])] = Append(s, Worth(y))
    <2>. DEFINE t == [k \in DOMAIN parent' |-> Worth(parent'[k])]
    <2>1. t[n + 1] = Worth(y) /\ \A k \in 1..n : t[k] = s[k] BY <1>1, <1>5
    <2>2. ASSUME NEW k \in 1..(n + 1) PROVE t[k] \in Int
        <3>1. CASE k = n + 1 BY <1>4, <2>1, <3>1
        <3>2. CASE k \in 1..n BY <1>1, <1>2, <2>1, <3>2
        <3>3. k = n + 1 \/ k \in 1..n BY <1>1
        <3>. QED BY <3>1, <3>2, <3>3, Zenon
    <2>3. t \in [1..(n + 1) -> Int] BY <1>5, <2>2
    <2>. HIDE DEF t
    <2>4. t \in Seq(Int) /\ Len(t) = n + 1 BY <1>1, <2>3
    <2>. HIDE DEF s
    <2>5. t = Append(s, Worth(y)) BY <1>3, <1>4, <2>1, <2>4, IsAppend
    <2>. QED BY <2>5 DEF t
<1>7. S!Total(Append(s, Worth(y))) = S!Total(s) + Worth(y) /\ S!Total(s) \in Int
  BY <1>3, <1>4, TotalAppend, TotalType
<1>8. S!Stored = S!Total(s) /\ S!Stored' = S!Total([k \in DOMAIN parent' |-> Worth(parent'[k])])
  BY DEF S!Stored, Worth
<1>. HIDE DEF s
<1>9. S!Stored' = S!Stored + Worth(y) /\ S!Stored \in Int BY <1>6, <1>7, <1>8
<1>. QED BY <1>4, <1>9

\* A note of the series changes nothing that is on record of its children.
LEMMA Noting ==
    ASSUME SeriesType, Records, NEW ev \in SeriesEvents, S!Noted(ev), UNCHANGED child
    PROVE  /\ Records' /\ S!Stored' = S!Stored /\ parent' \in Seq(Entries)
           /\ parent' # <<>> /\ parent'[Len(parent')].ev = ev
           /\ Idle' = Idle /\ Asked' = Asked /\ Under' = Under
           /\ \A r : S!Filled(r)' = S!Filled(r)
           /\ \A e \in ChildEvents : \A j : S!At(e, j)' = S!At(e, j)
           /\ \A k \in DOMAIN parent : k \in DOMAIN parent' /\ parent'[k] = parent[k]
           /\ \A e : S!Happened(e) => S!Happened(e)'
           /\ \A e : e # ev /\ S!Happened(e)' => S!Happened(e)
<1>1. ev \in ChildEvents \cup SeriesEvents /\ 0 \in Nat /\ 0 \in Nat \cup Findings /\ S!Written(ev, 0, 0) /\ ev \notin ChildEvents
  BY DEF S!Noted, SeriesEvents, ChildEvents
<1>2. /\ parent' \in Seq(Entries) /\ Len(parent') = Len(parent) + 1
      /\ DOMAIN parent' = DOMAIN parent \cup {Len(parent) + 1}
      /\ \A k \in DOMAIN parent : parent'[k] = parent[k]
      /\ parent'[Len(parent) + 1] = [ev |-> ev, child |-> 0, said |-> 0]
      /\ \A e : S!Of(e)' = IF e = ev THEN S!Of(e) \cup {0} ELSE S!Of(e)
      /\ \A e, j : S!At(e, j)' = IF e = ev /\ j = 0 THEN S!At(e, j) \cup {Len(parent) + 1} ELSE S!At(e, j)
    <2>1. parent \in Seq(Entries) BY DEF SeriesType
    <2>2. Grown(ev, 0, 0) BY <1>1, <2>1, Wrote
    <2>. QED BY <2>2 DEF Grown
<1>. DEFINE n == Len(parent)
<1>3. /\ S!Of("CHILD_INTENT")' = S!Of("CHILD_INTENT") /\ S!Of("CHILD_COMPLETE")' = S!Of("CHILD_COMPLETE")
      /\ \A e \in ChildEvents : \A j : S!At(e, j)' = S!At(e, j)
  BY <1>1, <1>2 DEF ChildEvents
<1>4. S!Stored' = S!Stored BY <1>1, StoredChange DEF ChildEvents, SeriesType, Records, SeriesFacts
<1>5. Idle' = Idle /\ Asked' = Asked /\ Under' = Under BY <1>3 DEF Idle, Asked, Under
<1>6. (\A r : S!Filled(r)' = S!Filled(r)) /\ S!Planned' = S!Planned BY DEF S!Filled, S!Planned
<1>7. SeriesFacts'
    <2>1. parent'[n + 1].ev \notin ChildEvents BY <1>1, <1>2
    <2>2. \A k \in DOMAIN parent' : parent'[k].ev = "CHILD_COMPLETE" => parent'[k].said \in Nat
      BY <1>2, <2>1 DEF Records, SeriesFacts, ChildEvents
    <2>3. ASSUME NEW k \in DOMAIN parent', Receipt(k)' PROVE Fits(k)'
      BY <1>2, <2>1, <2>3 DEF Receipt, ChildEvents, Records, SeriesFacts, Fits, Tells
    <2>. QED BY <1>3, <2>2, <2>3 DEF Records, SeriesFacts, Whole
<1>8. SeriesSums' BY <1>4, <1>5, <1>6 DEF Records, SeriesSums
<1>9. n \in Nat /\ parent' # <<>> /\ parent'[Len(parent')].ev = ev BY <1>2 DEF SeriesType
<1>10. \A e : (S!Happened(e) => S!Happened(e)') /\ (e # ev /\ S!Happened(e)' => S!Happened(e))
  BY <1>2 DEF S!Happened
<1>. QED BY <1>2, <1>3, <1>4, <1>5, <1>6, <1>7, <1>8, <1>9, <1>10 DEF Records


LEMMA KidNumbers == ASSUME NEW k \in Kids, NEW r \in S!Roles PROVE k.n \in Nat \ {0} /\ k.fill[r] \in Nat
BY DEF Kids

\* What the children's numbers are.
LEMMA Numbers ==
    ASSUME NEW c \in Seq(Kids), NEW r \in S!Roles
    PROVE  /\ [j \in DOMAIN c |-> c[j].fill[r]] \in Seq(Int) /\ [j \in DOMAIN c |-> c[j].n] \in Seq(Int)
           /\ Len([j \in DOMAIN c |-> c[j].fill[r]]) = Len(c) /\ Len([j \in DOMAIN c |-> c[j].n]) = Len(c)
BY KidNumbers

\* A child that changes moves the sums by the difference.
LEMMA SumsExcept ==
    ASSUME child \in Seq(Kids), child' \in Seq(Kids), Len(child') = Len(child), NEW i \in DOMAIN child,
           \A j \in DOMAIN child : j # i => child'[j] = child[j]
    PROVE  /\ \A r \in S!Roles : S!Filled(r)' = S!Filled(r) + (child'[i].fill[r] - child[i].fill[r])
           /\ S!Planned' = S!Planned + (child'[i].n - child[i].n)
<1>1. DOMAIN child' = DOMAIN child /\ DOMAIN child = 1..Len(child) /\ i \in 1..Len(child) OBVIOUS
<1>2. ASSUME NEW r \in S!Roles
      PROVE  S!Filled(r)' = S!Filled(r) + (child'[i].fill[r] - child[i].fill[r])
    <2>. DEFINE s == [j \in DOMAIN child |-> child[j].fill[r]]
                t == [j \in DOMAIN child' |-> child'[j].fill[r]]
    <2>1. s \in Seq(Int) /\ t \in Seq(Int) /\ Len(s) = Len(child) /\ Len(t) = Len(child) BY Numbers
    <2>2. t[i] = child'[i].fill[r] /\ s[i] = child[i].fill[r] /\ \A j \in 1..Len(child) : j # i => t[j] = s[j]
      BY <1>1
    <2>3. S!Filled(r)' = S!Total(t) /\ S!Filled(r) = S!Total(s) BY DEF S!Filled
    <2>. HIDE DEF s, t
    <2>4. S!Total(t) = S!Total(s) + (t[i] - s[i]) BY <1>1, <2>1, <2>2, TotalChange
    <2>. QED BY <2>2, <2>3, <2>4
<1>3. S!Planned' = S!Planned + (child'[i].n - child[i].n)
    <2>. DEFINE s == [j \in DOMAIN child |-> child[j].n]
                t == [j \in DOMAIN child' |-> child'[j].n]
    <2>1. s \in Seq(Int) /\ t \in Seq(Int) /\ Len(s) = Len(child) /\ Len(t) = Len(child) BY Numbers DEF S!Roles
    <2>2. t[i] = child'[i].n /\ s[i] = child[i].n /\ \A j \in 1..Len(child) : j # i => t[j] = s[j] BY <1>1
    <2>3. S!Planned' = S!Total(t) /\ S!Planned = S!Total(s) BY DEF S!Planned
    <2>. HIDE DEF s, t
    <2>4. S!Total(t) = S!Total(s) + (t[i] - s[i]) BY <1>1, <2>1, <2>2, TotalChange
    <2>. QED BY <2>2, <2>3, <2>4
<1>. QED BY <1>2, <1>3

\* A new child adds its own.
LEMMA SumsAppend ==
    ASSUME child \in Seq(Kids), NEW k \in Kids, child' = Append(child, k)
    PROVE  (\A r \in S!Roles : S!Filled(r)' = S!Filled(r) + k.fill[r]) /\ S!Planned' = S!Planned + k.n
<1>. DEFINE n == Len(child)
<1>1. /\ n \in Nat /\ DOMAIN child = 1..n /\ DOMAIN child' = 1..(n + 1) /\ child'[n + 1] = k
      /\ child' \in Seq(Kids) /\ Len(child') = n + 1 /\ \A j \in 1..n : child'[j] = child[j]
    OBVIOUS
<1>3. ASSUME NEW r \in S!Roles PROVE S!Filled(r)' = S!Filled(r) + k.fill[r]
    <2>. DEFINE s == [j \in DOMAIN child |-> child[j].fill[r]]
                t == [j \in DOMAIN child' |-> child'[j].fill[r]]
                d == k.fill[r]
    <2>1. s \in Seq(Int) /\ t \in Seq(Int) /\ Len(s) = Len(child) /\ Len(t) = Len(child') BY Numbers, <1>1
    <2>2. d \in Int BY KidNumbers DEF S!Roles
    <2>3. t[n + 1] = d /\ \A j \in 1..n : t[j] = s[j] BY <1>1
    <2>4. S!Filled(r)' = S!Total(t) /\ S!Filled(r) = S!Total(s) BY DEF S!Filled
    <2>. HIDE DEF s, t, d
    <2>5. t = Append(s, d) BY <1>1, <2>1, <2>2, <2>3, IsAppend
    <2>6. S!Total(t) = S!Total(s) + d BY <2>1, <2>2, <2>5, TotalAppend
    <2>. QED BY <2>4, <2>6 DEF d
<1>4. S!Planned' = S!Planned + k.n
    <2>. DEFINE s == [j \in DOMAIN child |-> child[j].n]
                t == [j \in DOMAIN child' |-> child'[j].n]
                d == k.n
    <2>1. s \in Seq(Int) /\ t \in Seq(Int) /\ Len(s) = Len(child) /\ Len(t) = Len(child')
      BY Numbers, <1>1 DEF S!Roles
    <2>2. d \in Int BY KidNumbers DEF S!Roles
    <2>3. t[n + 1] = d /\ \A j \in 1..n : t[j] = s[j] BY <1>1
    <2>4. S!Planned' = S!Total(t) /\ S!Planned = S!Total(s) BY DEF S!Planned
    <2>. HIDE DEF s, t, d
    <2>5. t = Append(s, d) BY <1>1, <2>1, <2>2, <2>3, IsAppend
    <2>6. S!Total(t) = S!Total(s) + d BY <2>1, <2>2, <2>5, TotalAppend
    <2>. QED BY <2>4, <2>6 DEF d
<1>. QED BY <1>3, <1>4

LEMMA SumsAreNumbers ==
    ASSUME child \in Seq(Kids)
    PROVE  (\A r \in S!Roles : S!Filled(r) \in Int) /\ S!Planned \in Int
BY Numbers, TotalType DEF S!Filled, S!Planned, S!Roles


LEMMA UpTo == ASSUME NEW n \in Nat PROVE 1..(n + 1) = (1..n) \cup {n + 1} /\ 1..(n + 1) # 1..n
OBVIOUS

\* A slice is asked for when every child is completed.
LEMMA Asking ==
    ASSUME SeriesType, Records, Idle, NEW x \in Nat, S!Written("CHILD_INTENT", Len(child) + 1, x), UNCHANGED child
    PROVE  /\ Records' /\ Asked' /\ S!Stored' = S!Stored /\ parent' \in Seq(Entries)
           /\ S!Happened("SERIES_COMPLETE")' => S!Happened("SERIES_COMPLETE")
<1>1. parent \in Seq(Entries) /\ child \in Seq(Kids) /\ Len(child) + 1 \in Nat BY DEF SeriesType
<1>2. Grown("CHILD_INTENT", Len(child) + 1, x) BY <1>1, Wrote DEF ChildEvents
<1>3. /\ S!Of("CHILD_INTENT")' = S!Of("CHILD_INTENT") \cup {Len(child) + 1}
      /\ S!Of("CHILD_COMPLETE")' = S!Of("CHILD_COMPLETE")
  BY <1>2 DEF Grown
<1>4. Asked'
    <2>1. Len(child) \in Nat BY <1>1
    <2>. QED BY <1>3, <2>1, UpTo DEF Asked, Idle
<1>5. S!Stored' = S!Stored BY <1>1, StoredChange DEF ChildEvents, Records, SeriesFacts
<1>6. ~Under /\ ~Under' BY <1>1, <1>4 DEF Asked, Idle, Under
<1>7. (\A r : S!Filled(r)' = S!Filled(r)) /\ S!Planned' = S!Planned BY DEF S!Filled, S!Planned
<1>8. SeriesFacts'
    <2>1. ASSUME NEW k \in DOMAIN parent', parent'[k].ev # "CHILD_INTENT"
          PROVE  k \in DOMAIN parent /\ parent'[k] = parent[k]
      BY <1>2, <2>1 DEF Grown
    <2>2. \A k \in DOMAIN parent' : parent'[k].ev = "CHILD_COMPLETE" => parent'[k].said \in Nat
      BY <2>1 DEF Records, SeriesFacts
    <2>3. ASSUME NEW k \in DOMAIN parent', Receipt(k)' PROVE Fits(k)'
      BY <2>1, <2>3 DEF Receipt, Records, SeriesFacts, Fits, Tells
    <2>. QED BY <1>3, <2>2, <2>3 DEF Records, SeriesFacts, Whole
<1>9. SeriesSums' BY <1>5, <1>6, <1>7 DEF Records, SeriesSums
<1>10. S!Happened("SERIES_COMPLETE")' => S!Happened("SERIES_COMPLETE") BY <1>2 DEF S!Happened, Grown
<1>. QED BY <1>2, <1>4, <1>5, <1>8, <1>9, <1>10 DEF Records, Grown

\* It begins with nothing traded.
LEMMA Opening ==
    ASSUME SeriesType, Records, Asked, UNCHANGED parent, NEW k \in Kids, child' = Append(child, k),
           ~k.sent, k.working = {}, \A r \in S!Roles : k.fill[r] = 0,
           S!Stored + k.n <= Target, \A i \in DOMAIN child : child[i].by = k.by
    PROVE  /\ Records' /\ Under' /\ S!Stored' = S!Stored /\ child' \in Seq(Kids)
           /\ child'[Len(child')] = k /\ \A i \in DOMAIN child' : child'[i].by = k.by
<1>. DEFINE n == Len(child)
<1>1. /\ child \in Seq(Kids) /\ n \in Nat /\ DOMAIN child = 1..n /\ DOMAIN child' = 1..(n + 1) /\ child'[n + 1] = k
      /\ child' \in Seq(Kids) /\ Len(child') = n + 1 /\ \A j \in 1..n : child'[j] = child[j]
  BY DEF SeriesType
<1>2. (\A e : S!Of(e)' = S!Of(e)) /\ S!Stored' = S!Stored BY DEF S!Of, S!Stored
<1>3. Under' BY <1>1, <1>2 DEF Asked, Under
<1>4. ~Under BY <1>1 DEF Asked, Under
<1>5. \A j \in 1..(n + 1) : j = n + 1 \/ j \in 1..n BY <1>1
<1>6. \A i \in DOMAIN child' : child'[i].by = k.by BY <1>1, <1>5
<1>7. k.n \in Nat /\ \A r \in S!Roles : k.fill[r] <= k.n BY KidNumbers DEF S!Roles
<1>8. SeriesFacts'
    <2>1. \A i \in DOMAIN child' : i \in S!Of("CHILD_COMPLETE")' => Whole(child'[i])
      BY <1>1, <1>2, <1>5 DEF Records, SeriesFacts, Asked
    <2>2. \A i \in DOMAIN child' : \A r \in S!Roles : child'[i].fill[r] <= child'[i].n
      BY <1>1, <1>5, <1>7 DEF Records, SeriesFacts
    <2>3. ASSUME NEW j \in DOMAIN parent', Receipt(j)' PROVE Fits(j)'
      BY <2>3, <1>1 DEF Receipt, Records, SeriesFacts, Fits, Tells
    <2>. QED BY <1>6, <2>1, <2>2, <2>3 DEF Records, SeriesFacts
<1>9. SeriesSums' BY <1>1, SumsAppend, <1>4, <1>2, <1>3 DEF Records, SeriesSums
<1>. QED BY <1>1, <1>2, <1>3, <1>6, <1>8, <1>9 DEF Records

\* The last child goes on: what is known of a leg stays true of it, and what is
\* learnt of it is true.
LEMMA Moving ==
    ASSUME SeriesType, Records, child' \in Seq(Kids), Len(child') = Len(child), NEW i \in DOMAIN child,
           \A j \in DOMAIN child : j # i => child'[j] = child[j], i \notin S!Of("CHILD_COMPLETE"),
           child'[i].n = child[i].n, child'[i].by = child[i].by,
           \A r \in S!Roles : child'[i].fill[r] <= child'[i].n /\ child[i].fill[r] <= child'[i].fill[r],
           \A legs : Tells(legs, child[i]) => Tells(legs, child'[i]),
           \/ UNCHANGED parent
           \/ \E ev \in {"CHILD_RESULT", "SERIES_RECONCILED_CHILD"}, x \in Findings :
                S!Written(ev, Len(child), x) /\ Tells(x.legs, child'[i])
    PROVE  /\ Records' /\ S!Stored' = S!Stored /\ parent' \in Seq(Entries) /\ Under /\ i = Len(child)
           /\ Under' /\ ~Idle
           /\ \A r \in S!Roles : S!Filled(r)' = S!Filled(r) + (child'[i].fill[r] - child[i].fill[r])
           /\ S!Happened("SERIES_COMPLETE")' => S!Happened("SERIES_COMPLETE")
<1>1. /\ child \in Seq(Kids) /\ parent \in Seq(Entries) /\ Len(child) \in Nat
      /\ DOMAIN child' = DOMAIN child /\ DOMAIN child = 1..Len(child)
  BY DEF SeriesType
<1>2. i = Len(child) /\ Under /\ ~Idle BY <1>1 DEF Records, Idle, Asked, Under
<1>. DEFINE Learnt ==
           /\ parent' \in Seq(Entries) /\ S!Stored' = S!Stored
           /\ S!Of("CHILD_INTENT")' = S!Of("CHILD_INTENT") /\ S!Of("CHILD_COMPLETE")' = S!Of("CHILD_COMPLETE")
           /\ \A k \in DOMAIN parent : parent'[k] = parent[k]
           /\ \A k \in DOMAIN parent' : k \notin DOMAIN parent =>
                /\ parent'[k].ev # "CHILD_COMPLETE" /\ parent'[k].child = i /\ parent'[k].said \in Findings
                /\ Tells(parent'[k].said.legs, child'[i])
           /\ S!Happened("SERIES_COMPLETE")' => S!Happened("SERIES_COMPLETE")
<1>3. Learnt
    <2>1. CASE UNCHANGED parent BY <1>1, <2>1 DEF S!Of, S!Stored, S!Happened, S!At
    <2>2. ASSUME NEW ev \in {"CHILD_RESULT", "SERIES_RECONCILED_CHILD"}, NEW x \in Findings,
                 S!Written(ev, Len(child), x), Tells(x.legs, child'[i])
          PROVE  Learnt
        <3>1. ev \in ChildEvents \cup SeriesEvents /\ ev \notin {"CHILD_INTENT", "CHILD_COMPLETE", "SERIES_COMPLETE"}
          BY DEF ChildEvents
        <3>2. Grown(ev, Len(child), x) BY <1>1, <2>2, <3>1, Wrote
        <3>3. S!Stored' = S!Stored BY <1>1, <2>2, <3>1, StoredChange DEF Records, SeriesFacts
        <3>4. /\ S!Of("CHILD_INTENT")' = S!Of("CHILD_INTENT") /\ S!Of("CHILD_COMPLETE")' = S!Of("CHILD_COMPLETE")
              /\ S!Happened("SERIES_COMPLETE")' => S!Happened("SERIES_COMPLETE")
          BY <3>1, <3>2 DEF Grown, S!Happened
        <3>5. ASSUME NEW k \in DOMAIN parent', k \notin DOMAIN parent
              PROVE  parent'[k] = [ev |-> ev, child |-> i, said |-> x]
          BY <1>2, <3>2, <3>5 DEF Grown
        <3>6. \A k \in DOMAIN parent : parent'[k] = parent[k] BY <3>2 DEF Grown
        <3>. QED BY <2>2, <3>1, <3>2, <3>3, <3>4, <3>5, <3>6 DEF Grown
    <2>. QED BY <2>1, <2>2
<1>a. \A k \in DOMAIN parent : parent'[k] = parent[k] BY <1>3
<1>b. \A k \in DOMAIN parent' : k \notin DOMAIN parent =>
         /\ parent'[k].ev # "CHILD_COMPLETE" /\ parent'[k].child = i /\ parent'[k].said \in Findings
         /\ Tells(parent'[k].said.legs, child'[i])
  BY <1>3
<1>c. /\ parent' \in Seq(Entries) /\ S!Stored' = S!Stored
      /\ S!Of("CHILD_INTENT")' = S!Of("CHILD_INTENT") /\ S!Of("CHILD_COMPLETE")' = S!Of("CHILD_COMPLETE")
      /\ S!Happened("SERIES_COMPLETE")' => S!Happened("SERIES_COMPLETE")
  BY <1>3
<1>. HIDE DEF Learnt
<1>4. Under' BY <1>1, <1>2, <1>c DEF Under
<1>5. SeriesFacts'
    <2>1. \A j \in DOMAIN child' : j \in S!Of("CHILD_COMPLETE")' => Whole(child'[j])
      BY <1>1, <1>c DEF Records, SeriesFacts
    <2>2. \A j \in DOMAIN child' : \A r \in S!Roles : child'[j].fill[r] <= child'[j].n
      BY <1>1 DEF Records, SeriesFacts
    <2>3. \A j, k \in DOMAIN child' : child'[j].by = child'[k].by BY <1>1 DEF Records, SeriesFacts
    <2>4. \A k \in DOMAIN parent' : parent'[k].ev = "CHILD_COMPLETE" => parent'[k].said \in Nat
      BY <1>a, <1>b DEF Records, SeriesFacts
    <2>5. ASSUME NEW k \in DOMAIN parent', Receipt(k)' PROVE Fits(k)'
        <3>1. CASE k \in DOMAIN parent
            <4>0. parent'[k] = parent[k] BY <1>a, <3>1
            <4>1. Fits(k) BY <2>5, <3>1, <4>0 DEF Receipt, Records, SeriesFacts
            <4>2. CASE parent[k].child = i BY <1>1, <4>0, <4>1, <4>2 DEF Fits
            <4>3. CASE parent[k].child # i BY <4>1, <4>3, <1>1, <4>0 DEF Fits
            <4>. QED BY <4>2, <4>3
        <3>2. CASE k \notin DOMAIN parent BY <1>b, <3>2, <1>1 DEF Fits
        <3>. QED BY <3>1, <3>2
    <2>. QED BY <2>1, <2>2, <2>3, <2>4, <2>5 DEF SeriesFacts
<1>6. /\ \A r \in S!Roles : S!Filled(r)' = S!Filled(r) + (child'[i].fill[r] - child[i].fill[r])
      /\ S!Planned' = S!Planned + (child'[i].n - child[i].n)
  BY <1>1, SumsExcept
<1>7. SeriesSums'
    <2>1. child[i] \in Kids /\ child'[i] \in Kids BY <1>1
    <2>2. S!Planned' = S!Planned /\ child'[i].n \in Nat
      BY <2>1, KidNumbers, <1>1, <1>6, SumsAreNumbers DEF S!Roles
    <2>3. ASSUME NEW r \in S!Roles PROVE S!Filled(r)' = S!Stored' + child'[Len(child')].fill[r]
        <3>1. child[i].fill[r] \in Nat /\ child'[i].fill[r] \in Nat BY <2>1, KidNumbers
        <3>2. S!Filled(r) = S!Stored + child[i].fill[r] /\ S!Stored \in Nat BY <1>2 DEF Records, SeriesSums
        <3>3. S!Filled(r)' = S!Filled(r) + (child'[i].fill[r] - child[i].fill[r]) BY <1>6
        <3>4. S!Filled(r)' = S!Stored + child'[i].fill[r] BY <3>1, <3>2, <3>3
        <3>. QED BY <1>2, <1>c, <3>4
    <2>. QED BY <1>2, <1>c, <1>4, <2>2, <2>3 DEF Records, SeriesSums
<1>. QED BY <1>2, <1>c, <1>4, <1>5, <1>6, <1>7 DEF Records

LEMMA Predecessor == \A n \in Nat : n > 0 => n - 1 \in Nat /\ (n - 1) + 1 = n
OBVIOUS

\* A child that is completed is worth its quantity.
LEMMA Completing ==
    ASSUME SeriesType, Records, Under, UNCHANGED child, Whole(child[Len(child)]),
           S!Written("CHILD_COMPLETE", Len(child), child[Len(child)].n)
    PROVE  /\ Records' /\ Idle' /\ S!Stored' = S!Stored + child[Len(child)].n /\ parent' \in Seq(Entries)
           /\ S!Happened("SERIES_COMPLETE")' => S!Happened("SERIES_COMPLETE")
<1>. DEFINE n == child[Len(child)].n
<1>1. /\ parent \in Seq(Entries) /\ child \in Seq(Kids) /\ Len(child) \in Nat /\ Len(child) > 0
      /\ DOMAIN child = 1..Len(child) /\ Len(child) \in DOMAIN child
  BY DEF SeriesType, Under
<1>2. n \in Nat /\ "CHILD_COMPLETE" \in ChildEvents \cup SeriesEvents
  BY <1>1, KidNumbers DEF S!Roles, ChildEvents
<1>. HIDE DEF n
<1>0. S!Written("CHILD_COMPLETE", Len(child), n) BY DEF n
<1>3. Grown("CHILD_COMPLETE", Len(child), n) BY <1>0, <1>1, <1>2, Wrote
<1>4. S!Stored' = S!Stored + n BY <1>1, <1>2, <1>0, StoredChange DEF Records, SeriesFacts, SeriesType
<1>5. /\ S!Of("CHILD_INTENT")' = S!Of("CHILD_INTENT")
      /\ S!Of("CHILD_COMPLETE")' = S!Of("CHILD_COMPLETE") \cup {Len(child)}
  BY <1>3 DEF Grown
<1>6. Idle' /\ ~Under'
    <2>1. Len(child) - 1 \in Nat /\ (Len(child) - 1) + 1 = Len(child)
        <3>1. Len(child) \in Nat /\ Len(child) > 0 BY <1>1
        <3>. QED BY <3>1, Predecessor, Zenon
    <2>2. 1..Len(child) = (1..(Len(child) - 1)) \cup {Len(child)} /\ 1..Len(child) # 1..(Len(child) - 1)
      BY <2>1, UpTo
    <2>3. S!Of("CHILD_INTENT")' = 1..Len(child) /\ S!Of("CHILD_COMPLETE")' = 1..Len(child) BY <1>5, <2>2 DEF Under
    <2>. QED BY <2>2, <2>3 DEF Idle, Under
<1>7. (\A r : S!Filled(r)' = S!Filled(r)) /\ S!Planned' = S!Planned BY DEF S!Filled, S!Planned
<1>8. SeriesFacts'
    <2>1. \A i \in DOMAIN child' : i \in S!Of("CHILD_COMPLETE")' => Whole(child'[i])
      BY <1>5 DEF Records, SeriesFacts
    <2>2. ASSUME NEW k \in DOMAIN parent', k \notin DOMAIN parent
          PROVE  parent'[k] = [ev |-> "CHILD_COMPLETE", child |-> Len(child), said |-> n]
      BY <1>3, <2>2 DEF Grown
    <2>3. \A k \in DOMAIN parent : parent'[k] = parent[k] BY <1>3 DEF Grown
    <2>4. \A k \in DOMAIN parent' : parent'[k].ev = "CHILD_COMPLETE" => parent'[k].said \in Nat
      BY <1>2, <2>2, <2>3 DEF Records, SeriesFacts
    <2>5. ASSUME NEW k \in DOMAIN parent', Receipt(k)' PROVE Fits(k)'
      BY <2>2, <2>3, <2>5 DEF Receipt, Records, SeriesFacts, Fits, Tells
    <2>. QED BY <2>1, <2>4, <2>5 DEF Records, SeriesFacts
<1>9. SeriesSums' BY <1>2, <1>4, <1>6, <1>7 DEF Records, SeriesSums, Whole, n
<1>10. S!Happened("SERIES_COMPLETE")' => S!Happened("SERIES_COMPLETE") BY <1>3 DEF S!Happened, Grown
<1>. QED BY <1>3, <1>4, <1>6, <1>8, <1>9, <1>10 DEF Records, Grown, n


Reports == [done : Nat, source : Nat \cup {S!None}, receiver : Nat \cup {S!None}, pair : Nat \cup {S!None}]

\* A leg that is reported is the one the orders traded, and stays so.
LegTold(x, q) ==
    \/ q = S!Filled(x) /\ (Under => x \notin child[Len(child)].working)
    \/ q = S!Stored /\ S!ReceiptsConflict

LEMMA Answering ==
    ASSUME NEW d \in Nat, d <= S!Stored', NEW s \in Nat \cup {S!None}, NEW r \in Nat \cup {S!None},
           NEW p \in Nat \cup {S!None}, report' = S!Full(d, s, r, p),
           s # S!None => LegTold("source", s)', r # S!None => LegTold("receiver", r)',
           p # S!None => p <= S!Filled("source")' /\ p <= S!Filled("receiver")'
    PROVE  Answer' /\ report' \in Reports
<1>1. report' \in Reports BY DEF S!Full, Reports
<1>2. report'.done = d /\ report'.pair = p /\ report'["source"] = s /\ report'["receiver"] = r BY DEF S!Full
<1>3. ASSUME NEW x \in S!Roles
      PROVE  /\ \A q : q = report'[x] /\ q # S!None => LegTold(x, q)'
             /\ report'.pair # S!None => report'.pair <= S!Filled(x)'
  BY <1>2, <1>3 DEF S!Roles
<1>. QED BY <1>1, <1>2, <1>3 DEF Answer, LegTold

\* What depends on the journal and the children alone stays with them.
LEMMA SeriesStill ==
    ASSUME UNCHANGED <<parent, child>>
    PROVE  /\ Idle' = Idle /\ Asked' = Asked /\ Under' = Under /\ S!Stored' = S!Stored /\ S!Planned' = S!Planned
           /\ SeriesFacts' = SeriesFacts /\ S!ReceiptsConflict' = S!ReceiptsConflict
           /\ \A r : S!Filled(r)' = S!Filled(r)
           /\ \A e, i : S!At(e, i)' = S!At(e, i)
           /\ \A e : S!Happened(e)' = S!Happened(e)
<1>1. parent' = parent /\ child' = child OBVIOUS
<1>2. /\ S!Stored' = S!Stored /\ S!Planned' = S!Planned /\ (\A r : S!Filled(r)' = S!Filled(r))
      /\ (\A e, i : S!At(e, i)' = S!At(e, i)) /\ (\A e : S!Of(e)' = S!Of(e))
  BY <1>1 DEF S!Stored, S!Planned, S!Filled, S!At, S!Of
<1>3. \A e, i : S!Said(e, i)' = S!Said(e, i) BY <1>1, <1>2 DEF S!Said
<1>4. S!Pending' = S!Pending BY <1>2 DEF S!Pending
<1>5. \A i : S!Malformed(i)' = S!Malformed(i) BY <1>1, <1>2, <1>3 DEF S!Malformed, S!Unresolved
<1>6. S!ReceiptsConflict' = S!ReceiptsConflict BY <1>1, <1>4, <1>5 DEF S!ReceiptsConflict
<1>7. SeriesFacts' = SeriesFacts BY <1>2, <1>1 DEF Whole, Receipt, Fits, Tells, SeriesFacts
<1>8. Idle' = Idle /\ Asked' = Asked /\ Under' = Under BY <1>1, <1>2 DEF Idle, Asked, Under
<1>9. \A e : S!Happened(e)' = S!Happened(e) BY <1>2 DEF S!Happened
<1>. QED BY <1>2, <1>6, <1>7, <1>8, <1>9

LEMMA StillRecords ==
    ASSUME Records, UNCHANGED <<parent, child>> PROVE Records'
BY SeriesStill DEF Records, SeriesSums

\* Of the actions that touch neither.
LEMMA CrashStep == ASSUME SeriesInv, S!Crash PROVE SeriesInv'
BY StillRecords, SeriesStill DEF SeriesInv, SeriesType, S!Crash, Flow, Answer, Loop

LEMMA RelaunchStep == ASSUME SeriesInv, S!Relaunch PROVE SeriesInv'
BY StillRecords, SeriesStill DEF SeriesInv, SeriesType, S!Relaunch, S!NoReport, S!None, Flow, Answer, Loop,
  S!Busy

LEMMA ForeignStep == ASSUME SeriesInv, S!Foreign PROVE SeriesInv'
<1>1. SeriesType'
    <2>1. PICK r \in S!Roles, d \in {-1, 1} : pos' = [pos EXCEPT ![r] = @ + d] BY DEF S!Foreign
    <2>2. pos' \in [S!Roles -> Int] BY <2>1 DEF SeriesInv, SeriesType
    <2>. QED BY <2>2 DEF SeriesInv, SeriesType, S!Foreign
<1>2. Records' BY StillRecords DEF SeriesInv, S!Foreign
<1>3. Flow' BY SeriesStill DEF SeriesInv, S!Foreign, Flow
<1>4. Answer' BY SeriesStill DEF SeriesInv, S!Foreign, Answer
<1>. QED BY <1>1, <1>2, <1>3, <1>4 DEF SeriesInv

\* A note that ends an execution, with its answer.
LEMMA Ending ==
    ASSUME SeriesInv, NEW ev \in SeriesEvents, S!Noted(ev), UNCHANGED <<child, pos, slice, life>>, at' = "over",
           ev = "SERIES_COMPLETE" => Idle,
           Answer', report' \in Reports
    PROVE  SeriesInv'
BY Noting DEF SeriesInv, SeriesType, Reports, Flow, Loop

\* An answer that says of no leg how much it traded.
LEMMA Silent ==
    ASSUME SeriesInv, NEW ev \in SeriesEvents, S!Noted(ev), UNCHANGED <<child, pos, slice, life>>,
           NEW d \in Nat, d <= S!Stored, S!Report(S!Full(d, S!None, S!None, S!None)), ev # "SERIES_COMPLETE"
    PROVE  SeriesInv'
BY Noting, Answering, Ending DEF SeriesInv, S!Report

\* When no child is under way the completed ones are all that traded.
LEMMA Complete ==
    ASSUME SeriesInv, NEW ev \in SeriesEvents, S!Noted(ev), UNCHANGED <<child, pos, slice, life>>,
           S!Report(S!AllOf(S!Stored)), ~Under, ev = "SERIES_COMPLETE" => Idle
    PROVE  SeriesInv'
<1>1. /\ S!Stored' = S!Stored /\ Under' = Under /\ (\A r : S!Filled(r)' = S!Filled(r)) /\ S!Stored \in Nat
      /\ \A r \in S!Roles : S!Filled(r) = S!Stored
  BY Noting DEF SeriesInv, Records, SeriesSums
<1>2. LegTold("source", S!Stored)' /\ LegTold("receiver", S!Stored)' BY <1>1 DEF LegTold, S!Roles
<1>3. S!Paired(S!Stored, S!Stored) \in Nat \cup {S!None} /\ (S!Paired(S!Stored, S!Stored) # S!None => S!Paired(S!Stored, S!Stored) = S!Stored)
  BY <1>1 DEF S!Paired, S!Lesser
<1>4. Answer' /\ report' \in Reports
    <2>1. report' = S!Full(S!Stored, S!Stored, S!Stored, S!Paired(S!Stored, S!Stored)) /\ S!Stored <= S!Stored'
      BY <1>1 DEF S!Report, S!AllOf
    <2>2. S!Filled("source")' = S!Stored /\ S!Filled("receiver")' = S!Stored /\ S!Stored <= S!Stored
      BY <1>1 DEF S!Roles
    <2>. QED BY <1>1, <1>2, <1>3, <2>1, <2>2, Answering
<1>. QED BY <1>4, Ending DEF S!Report


LEMMA Silences ==
    /\ S!NoReport = S!Full(0, S!None, S!None, S!None)
    /\ \A d : S!Unsaid(d) = S!Full(d, S!None, S!None, S!None)
BY DEF S!NoReport, S!Unsaid, S!Full

LEMMA BeginStep == ASSUME SeriesInv, S!Begin PROVE SeriesInv'
<1>1. CASE S!Happened("SERIES_COMPLETE")
    <2>1. UNCHANGED <<parent, child, pos, slice, life>> /\ S!Report(S!AllOf(S!Stored)) BY <1>1 DEF S!Begin
    <2>2. Idle BY <1>1 DEF SeriesInv, Flow
    <2>3. ~Under /\ S!Stored \in Nat /\ \A r \in S!Roles : S!Filled(r) = S!Stored
      BY <2>2 DEF SeriesInv, SeriesType, Records, SeriesSums, Idle, Under
    <2>4. /\ S!Stored' = S!Stored /\ Under' = Under /\ (\A r : S!Filled(r)' = S!Filled(r)) /\ Idle' = Idle
          /\ S!Happened("SERIES_COMPLETE")' = S!Happened("SERIES_COMPLETE")
      BY <2>1, SeriesStill
    <2>5. LegTold("source", S!Stored)' /\ LegTold("receiver", S!Stored)' BY <2>3, <2>4 DEF LegTold, S!Roles
    <2>6. /\ S!Paired(S!Stored, S!Stored) \in Nat \cup {S!None}
          /\ (S!Paired(S!Stored, S!Stored) # S!None => S!Paired(S!Stored, S!Stored) = S!Stored)
      BY <2>3 DEF S!Paired, S!Lesser
    <2>7. Answer' /\ report' \in Reports
        <3>1. report' = S!Full(S!Stored, S!Stored, S!Stored, S!Paired(S!Stored, S!Stored)) /\ S!Stored <= S!Stored'
          BY <2>1, <2>3, <2>4 DEF S!Report, S!AllOf
        <3>2. S!Filled("source")' = S!Stored /\ S!Filled("receiver")' = S!Stored /\ S!Stored <= S!Stored
          BY <2>3, <2>4 DEF S!Roles
        <3>. QED BY <2>3, <2>4, <2>5, <2>6, <3>1, <3>2, Answering
    <2>8. SeriesType' /\ Flow' BY <2>1, <2>2, <2>4, <2>7 DEF SeriesInv, SeriesType, Flow, S!Report, Reports, Loop
    <2>. QED BY <2>1, <2>7, <2>8, StillRecords DEF SeriesInv
<1>2. CASE ~S!Happened("SERIES_COMPLETE") /\ parent # <<>> /\ ~S!Happened("SERIES_STARTED")
  BY <1>2, Silences, Silent DEF S!Begin, SeriesInv, Records, SeriesSums, SeriesEvents
<1>3. CASE ~S!Happened("SERIES_COMPLETE") /\ ~(parent # <<>> /\ ~S!Happened("SERIES_STARTED"))
  BY <1>3, SeriesStill, StillRecords DEF S!Begin, SeriesInv, SeriesType, Flow, Answer, Loop
<1>. QED BY <1>1, <1>2, <1>3

LEMMA RefusedStep == ASSUME SeriesInv, S!Refused PROVE SeriesInv'
<1>1. PICK ev \in {"SERIES_RESTART_BLOCKED", "SERIES_PREFLIGHT_BLOCKED"} :
        S!Noted(ev) /\ S!Report(S!Full(0, S!None, S!None, S!None)) /\ UNCHANGED <<child, pos, slice, life>>
  BY Silences DEF S!Refused
<1>2. 0 <= S!Stored /\ ev \in SeriesEvents /\ ev # "SERIES_COMPLETE"
  BY DEF SeriesInv, Records, SeriesSums, SeriesEvents
<1>. QED BY <1>1, <1>2, Silent

\* A series begins with an empty journal, which knows of no child.
LEMMA StartStep == ASSUME SeriesInv, S!Start PROVE SeriesInv'
<1>1. /\ parent = <<>> /\ S!Noted("SERIES_STARTED") /\ memory'.done = 0 /\ at' = "next"
      /\ UNCHANGED <<child, pos, slice, report, life>>
  BY DEF S!Start, SeriesInv, Flow
<1>2. Len(child) \in Nat /\ S!Of("CHILD_INTENT") = {} BY <1>1 DEF SeriesInv, SeriesType, S!Of
<1>3. Len(child) = 0 BY <1>2 DEF SeriesInv, Records, Idle, Asked, Under
<1>4. Idle /\ DOMAIN child = {}
    <2>1. ~Under /\ (Asked => 1 \in {}) BY <1>2, <1>3 DEF Under, Asked
    <2>. QED BY <1>3, <2>1 DEF SeriesInv, SeriesType, Records
<1>5. S!Stored = 0 BY <1>1, TotalEmpty DEF S!Stored
<1>6. "SERIES_STARTED" \in SeriesEvents /\ "SERIES_STARTED" # "SERIES_COMPLETE" BY DEF SeriesEvents
<1>7. /\ Records' /\ S!Stored' = S!Stored /\ parent' \in Seq(Entries) /\ Idle' = Idle
      /\ \A e : e # "SERIES_STARTED" /\ S!Happened(e)' => S!Happened(e)
  BY <1>1, <1>6, Noting DEF SeriesInv
<1>8. ~S!Happened("SERIES_COMPLETE") BY <1>1 DEF S!Happened, S!At
<1>9. SeriesType' BY <1>1, <1>7 DEF SeriesInv, SeriesType, Loop
<1>10. Flow' BY <1>1, <1>4, <1>5, <1>6, <1>7, <1>8 DEF Flow, Loop
<1>11. Answer' BY <1>1 DEF Answer
<1>. QED BY <1>7, <1>9, <1>10, <1>11 DEF SeriesInv

LEMMA NoBookStep == ASSUME SeriesInv, S!NoBook PROVE SeriesInv'
BY Silences, Silent DEF S!NoBook, S!Stop, SeriesInv, Flow, Loop, Records, SeriesSums, SeriesEvents

LEMMA NextSliceStep == ASSUME SeriesInv, S!NextSlice PROVE SeriesInv'
<1>1. at = "next" /\ Idle /\ memory.done = S!Stored /\ UNCHANGED <<child, pos, memory, life>> /\ S!Stored \in Nat
  BY DEF S!NextSlice, SeriesInv, Flow, Loop, Records, SeriesSums
<1>2. ~Under /\ ~Asked BY <1>1, UpTo DEF SeriesInv, SeriesType, Idle, Under, Asked
<1>3. CASE S!Noted("SERIES_COMPLETE") /\ S!Report(S!AllOf(memory.done)) /\ UNCHANGED slice
  BY <1>1, <1>2, <1>3, Complete DEF SeriesEvents
<1>4. ASSUME NEW ev \in {"SERIES_STOPPED", "SERIES_REMAINDER_UNTRADEABLE"}, S!Noted(ev), S!Report(S!Unsaid(memory.done)),
             UNCHANGED slice
      PROVE  SeriesInv'
  BY <1>1, <1>4, Silences, Silent DEF SeriesEvents
<1>5. ASSUME NEW n \in S!Sizes, n # 0, slice' = n, at' = "child", S!Written("CHILD_INTENT", Len(child) + 1, n),
             UNCHANGED report
      PROVE  SeriesInv'
    <2>1. S!Stored <= Target BY <1>2 DEF SeriesInv, Records, SeriesSums
    <2>2. n \in Nat /\ n > 0 /\ S!Stored + n <= Target
      BY SeriesAssumption, <1>1, <1>5, <2>1 DEF S!Sizes, S!Lesser
    <2>3. /\ Records' /\ Asked' /\ S!Stored' = S!Stored /\ parent' \in Seq(Entries)
          /\ S!Happened("SERIES_COMPLETE")' => S!Happened("SERIES_COMPLETE")
      BY <1>1, <1>5, <2>2, Asking DEF SeriesInv
    <2>4. SeriesType' BY <1>1, <1>5, <2>2, <2>3 DEF SeriesInv, SeriesType, Loop
    <2>5. ~S!Happened("SERIES_COMPLETE") BY <1>1 DEF SeriesInv, Flow
    <2>6. Flow' BY <1>5, <2>2, <2>3, <1>1, <2>5 DEF SeriesInv, Flow, Loop
    <2>7. Answer' BY <1>5 DEF Answer
    <2>. QED BY <2>3, <2>4, <2>6, <2>7 DEF SeriesInv
<1>. QED BY <1>3, <1>4, <1>5 DEF S!NextSlice, S!Stop


\* Whatever a child reports, the legs it names are true of it.
LEMMA ResultsTell ==
    ASSUME child \in Seq(Kids), pos \in [S!Roles -> Int], NEW k \in Kids, NEW x \in S!Results(k)
    PROVE  x \in Findings /\ Tells(x.legs, k) /\ x.after = pos
<1>. DEFINE legs == {l \in [S!Roles -> {S!None} \cup 0..k.n] :
                       \A r \in S!Roles : l[r] # S!None => k.sent /\ r \notin k.working /\ l[r] = k.fill[r]}
<1>1. PICK out \in {"SUCCESS", "PARTIAL", "UNKNOWN"}, l \in legs : x = [out |-> out, legs |-> l, after |-> pos]
  BY DEF S!Results
<1>2. l \in [S!Roles -> Nat \cup {S!None}] BY KidNumbers DEF S!Roles
<1>. QED BY <1>1, <1>2 DEF Findings, Tells

LEMMA LastChild ==
    ASSUME SeriesType, Under
    PROVE  /\ Len(child) \in DOMAIN child /\ child[Len(child)] \in Kids /\ Len(child) \in Nat
           /\ Len(child) \notin S!Of("CHILD_COMPLETE")
BY DEF SeriesType, Under

\* The legs on record of the last child are true of it.
LEMMA OnRecord ==
    ASSUME SeriesType, Records, NEW ev \in {"CHILD_RESULT", "SERIES_RECONCILED_CHILD"}, NEW i \in Nat,
           S!At(ev, i) # {}
    PROVE  /\ S!Said(ev, i) \in Findings /\ i \in DOMAIN child /\ Tells(S!Said(ev, i).legs, child[i])
<1>. DEFINE k == CHOOSE k \in S!At(ev, i) : TRUE
<1>1. k \in S!At(ev, i) /\ S!Said(ev, i) = parent[k].said BY DEF S!Said
<1>. HIDE DEF k
<1>2. k \in DOMAIN parent /\ Receipt(k) /\ parent[k].child = i BY <1>1 DEF S!At, Receipt
<1>. QED BY <1>1, <1>2 DEF Records, SeriesFacts, Fits

LEMMA Recorded == \A ev, i : i \in S!Of(ev) <=> S!At(ev, i) # {}
BY DEF S!Of, S!At

\* With a leg that is known, the whole of it is.
LEMMA Reckoned ==
    ASSUME SeriesType, Records, Under, NEW q \in Nat \cup {S!None}, NEW r \in S!Roles,
           q # S!None => /\ child[Len(child)].sent /\ r \notin child[Len(child)].working
                       /\ child[Len(child)].fill[r] = q
    PROVE  /\ S!Plus(S!Stored, q) \in Nat \cup {S!None} /\ (S!Plus(S!Stored, q) # S!None <=> q # S!None)
           /\ q # S!None => S!Plus(S!Stored, q) = S!Filled(r) /\ r \notin child[Len(child)].working
BY DEF Records, SeriesSums, S!Plus, S!None

LEMMA PairIsLess ==
    ASSUME NEW s \in Nat \cup {S!None}, NEW r \in Nat \cup {S!None}, s # S!None, r # S!None
    PROVE  /\ S!Paired(s, r) \in Nat \cup {S!None}
           /\ S!Paired(s, r) # S!None => S!Paired(s, r) <= s /\ S!Paired(s, r) <= r
BY DEF S!Paired, S!Lesser, S!None

\* An answer that adds the last child to those that are completed.
LEMMA Reckoning ==
    ASSUME SeriesInv, Under, NEW legs \in [S!Roles -> Nat \cup {S!None}], Tells(legs, child[Len(child)]),
           NEW s, NEW r, NEW p,
           s = S!Plus(S!Stored, legs["source"]), r = S!Plus(S!Stored, legs["receiver"]),
           p # S!None => s # S!None /\ r # S!None /\ p = S!Paired(s, r),
           report' = S!Full(S!Stored, s, r, p),
           S!Stored' = S!Stored, Under', \A x \in S!Roles : S!Filled(x)' = S!Filled(x), Len(child') = Len(child),
           child'[Len(child)].working = child[Len(child)].working
    PROVE  Answer' /\ report' \in Reports
<1>. DEFINE a == legs["source"]
            b == legs["receiver"]
            k == child[Len(child)]
<1>1. a \in Nat \cup {S!None} /\ b \in Nat \cup {S!None} BY DEF S!Roles
<1>2. /\ a # S!None => k.sent /\ "source" \notin k.working /\ k.fill["source"] = a
      /\ b # S!None => k.sent /\ "receiver" \notin k.working /\ k.fill["receiver"] = b
  BY DEF Tells, S!Roles
<1>3. SeriesType /\ Records /\ "source" \in S!Roles /\ "receiver" \in S!Roles BY DEF SeriesInv, S!Roles
<1>. HIDE DEF a, b
<1>4. /\ s \in Nat \cup {S!None} /\ (s # S!None <=> a # S!None)
      /\ a # S!None => s = S!Filled("source") /\ "source" \notin k.working
  BY <1>1, <1>2, <1>3, Reckoned DEF a
<1>5. /\ r \in Nat \cup {S!None} /\ (r # S!None <=> b # S!None)
      /\ b # S!None => r = S!Filled("receiver") /\ "receiver" \notin k.working
  BY <1>1, <1>2, <1>3, Reckoned DEF b
<1>6. /\ p \in Nat \cup {S!None} /\ (p # S!None => p <= S!Filled("source")' /\ p <= S!Filled("receiver")')
  BY <1>3, <1>4, <1>5, PairIsLess
<1>7. (s # S!None => LegTold("source", s)') /\ (r # S!None => LegTold("receiver", r)')
  BY <1>3, <1>4, <1>5 DEF LegTold
<1>8. S!Stored \in Nat /\ S!Stored <= S!Stored' BY <1>3 DEF Records, SeriesSums
<1>. QED BY <1>4, <1>5, <1>6, <1>7, <1>8, Answering

LEMMA JudgeStep == ASSUME SeriesInv, S!Judge PROVE SeriesInv'
<1>. DEFINE x == S!Said("CHILD_RESULT", Len(child))
            s == S!Plus(S!Stored, x.legs["source"])
            r == S!Plus(S!Stored, x.legs["receiver"])
            n == Len(child)
<1>1. /\ at = "result" /\ Under /\ child[n].n = slice /\ S!At("CHILD_RESULT", n) # {} /\ memory.done = S!Stored
      /\ UNCHANGED <<child, pos, slice, life>> /\ SeriesType /\ Records /\ ~S!Happened("SERIES_COMPLETE")
      /\ \A i \in DOMAIN child : child[i].by = life
  BY DEF S!Judge, SeriesInv, Flow, Loop
<1>2. n \in DOMAIN child /\ child[n] \in Kids /\ n \in Nat BY <1>1, LastChild
<1>3. x \in Findings /\ Tells(x.legs, child[n]) /\ x.legs \in [S!Roles -> Nat \cup {S!None}]
  BY <1>1, <1>2, OnRecord DEF Findings
<1>4. CASE x.out = "SUCCESS" /\ S!Valid(x)
    <2>1. /\ S!Written("CHILD_COMPLETE", n, slice) /\ at' = "next" /\ UNCHANGED report
          /\ memory'.done = memory.done + slice
      BY <1>4 DEF S!Judge, S!Current
    <2>2. Whole(child[n])
        <3>1. slice \in Nat /\ \A y \in S!Roles : x.legs[y] = slice BY <1>1, <1>4 DEF S!Valid, SeriesType
        <3>2. \A y \in S!Roles : child[n].sent /\ y \notin child[n].working /\ child[n].fill[y] = child[n].n
          BY <1>1, <1>3, <3>1 DEF Tells, S!None
        <3>3. child[n].working \in SUBSET S!Roles BY <1>2 DEF Kids
        <3>. QED BY <3>2, <3>3 DEF Whole, S!Roles
    <2>3. /\ Records' /\ Idle' /\ S!Stored' = S!Stored + slice /\ parent' \in Seq(Entries)
          /\ S!Happened("SERIES_COMPLETE")' => S!Happened("SERIES_COMPLETE")
      BY <1>1, <2>1, <2>2, Completing
    <2>4. SeriesType' BY <1>1, <2>1, <2>3 DEF SeriesType, Loop
    <2>5. Flow' BY <1>1, <2>1, <2>3 DEF Flow, Loop
    <2>6. Answer' BY <2>1 DEF Answer
    <2>. QED BY <2>3, <2>4, <2>5, <2>6 DEF SeriesInv
<1>5. CASE ~(x.out = "SUCCESS" /\ S!Valid(x))
    <2>1. /\ S!Noted("SERIES_STOPPED")
          /\ S!Report(IF x.out = "SUCCESS" THEN S!Unsaid(S!Stored) ELSE S!Full(S!Stored, s, r, S!Paired(s, r)))
      BY <1>1, <1>5 DEF S!Judge, S!Current
    <2>2. S!Stored \in Nat /\ S!Stored <= S!Stored /\ "SERIES_STOPPED" \in SeriesEvents
      BY <1>1 DEF Records, SeriesSums, SeriesEvents
    <2>3. CASE x.out = "SUCCESS" BY <2>1, <2>3, Silences, <1>1, <2>2, Silent
    <2>4. CASE x.out # "SUCCESS"
        <3>. HIDE DEF x
        <3>1. report' = S!Full(S!Stored, s, r, S!Paired(s, r)) /\ at' = "over" BY <2>1, <2>4 DEF S!Report
        <3>2. S!Stored' = S!Stored /\ Under' = Under /\ \A y : S!Filled(y)' = S!Filled(y)
          BY <1>1, <2>1, <2>2, Noting
        <3>3. S!Paired(s, r) # S!None => s # S!None /\ r # S!None BY DEF S!Paired, S!None
        <3>4. Answer' /\ report' \in Reports BY <1>1, <1>3, <3>1, <3>2, <3>3, Reckoning
        <3>. QED BY <1>1, <2>1, <2>2, <3>1, <3>4, Ending
    <2>. QED BY <2>3, <2>4
<1>. QED BY <1>4, <1>5


LEMMA ChildOpensStep == ASSUME SeriesInv, S!ChildOpens PROVE SeriesInv'
<1>1. /\ at = "child" /\ Asked /\ slice > 0 /\ S!Stored + slice <= Target /\ memory.done = S!Stored
      /\ SeriesType /\ Records /\ \A i \in DOMAIN child : child[i].by = life
  BY DEF S!ChildOpens, SeriesInv, Flow, Loop
<1>. DEFINE k == [n |-> slice, sent |-> FALSE, settled |-> FALSE, by |-> life,
                  working |-> {}, base |-> pos, fill |-> [r \in S!Roles |-> 0]]
<1>2. /\ child' = Append(child, k) /\ at' = "running"
      /\ UNCHANGED <<parent, pos, memory, slice, report, life>>
  BY DEF S!ChildOpens
<1>3. k \in Kids BY <1>1 DEF Kids, SeriesType
<1>4. k.n = slice /\ k.by = life /\ ~k.sent /\ k.working = {} /\ \A r \in S!Roles : k.fill[r] = 0 OBVIOUS
<1>. HIDE DEF k
<1>5. /\ Records' /\ Under' /\ S!Stored' = S!Stored /\ child' \in Seq(Kids)
      /\ child'[Len(child')] = k /\ \A i \in DOMAIN child' : child'[i].by = k.by
  BY <1>1, <1>2, <1>3, <1>4, Opening
<1>6. ~S!Happened("SERIES_COMPLETE")' BY <1>1, <1>2 DEF SeriesInv, Flow, S!Happened, S!At
<1>7. SeriesType' /\ Flow' /\ Answer' BY <1>1, <1>2, <1>4, <1>5, <1>6 DEF SeriesType, Flow, Answer, Loop
<1>. QED BY <1>5, <1>7 DEF SeriesInv

\* What changes of a child, field by field.
LEMMA KidExcept ==
    ASSUME child \in Seq(Kids), NEW i \in DOMAIN child, NEW k \in Kids, child' = [child EXCEPT ![i] = k]
    PROVE  /\ child' \in Seq(Kids) /\ Len(child') = Len(child) /\ DOMAIN child' = DOMAIN child
           /\ child'[i] = k /\ \A j \in DOMAIN child : j # i => child'[j] = child[j]
OBVIOUS

LEMMA ChildSendsStep == ASSUME SeriesInv, S!ChildSends PROVE SeriesInv'
<1>. DEFINE n == Len(child)
            k == [child[n] EXCEPT !.sent = TRUE, !.working = S!Roles]
<1>1. /\ at = "running" /\ Under /\ child[n].n = slice /\ memory.done = S!Stored
      /\ SeriesType /\ Records /\ \A i \in DOMAIN child : child[i].by = life
  BY DEF S!ChildSends, SeriesInv, Flow, Loop
<1>2. n \in DOMAIN child /\ child[n] \in Kids /\ n \notin S!Of("CHILD_COMPLETE") /\ child \in Seq(Kids)
  BY <1>1, LastChild DEF SeriesType
<1>3. /\ child' = [child EXCEPT ![n] = k] /\ ~child[n].sent
      /\ UNCHANGED <<parent, pos, at, memory, slice, report, life>>
  BY <1>2 DEF S!ChildSends, S!Current
<1>4. k \in Kids /\ k.n = child[n].n /\ k.by = child[n].by /\ k.fill = child[n].fill BY <1>2 DEF Kids
<1>. HIDE DEF k
<1>5. /\ child' \in Seq(Kids) /\ Len(child') = Len(child) /\ child'[n] = k /\ DOMAIN child' = DOMAIN child
      /\ \A j \in DOMAIN child : j # n => child'[j] = child[j]
  BY <1>2, <1>3, <1>4, KidExcept
<1>6. \A legs : Tells(legs, child[n]) => Tells(legs, child'[n]) BY <1>3 DEF Tells
<1>7. \A r \in S!Roles : child'[n].fill[r] <= child'[n].n /\ child[n].fill[r] <= child'[n].fill[r]
  BY <1>2, KidNumbers, <1>1, <1>4, <1>5 DEF Records, SeriesFacts
<1>8. /\ Records' /\ S!Stored' = S!Stored /\ Under'
      /\ S!Happened("SERIES_COMPLETE")' => S!Happened("SERIES_COMPLETE")
    <2>1. child'[n].n = child[n].n /\ child'[n].by = child[n].by BY <1>4, <1>5
    <2>. HIDE DEF n
    <2>. QED BY <1>1, <1>2, <1>3, <1>5, <1>6, <1>7, <2>1, Moving
<1>9. \A i \in DOMAIN child' : child'[i].by = life' BY <1>1, <1>3, <1>4, <1>5
<1>10. ~S!Happened("SERIES_COMPLETE") BY <1>1 DEF SeriesInv, Flow
<1>11. SeriesType' BY <1>1, <1>3, <1>5 DEF SeriesType
<1>12. Flow' /\ Answer' BY <1>1, <1>3, <1>4, <1>5, <1>8, <1>9, <1>10 DEF Flow, Answer, Loop
<1>. QED BY <1>8, <1>11, <1>12 DEF SeriesInv

\* What a child that has its last word leaves as it was.
LEMMA Settling ==
    ASSUME SeriesType, Records, Under, NEW x, S!Reconciled(x)
    PROVE  /\ x \in Findings /\ Tells(x.legs, child[Len(child)]) /\ Tells(x.legs, child'[Len(child)])
           /\ child' \in Seq(Kids) /\ Len(child') = Len(child) /\ DOMAIN child' = DOMAIN child
           /\ \A j \in DOMAIN child :
                /\ j # Len(child) => child'[j] = child[j]
                /\ child'[j].n = child[j].n /\ child'[j].by = child[j].by /\ child'[j].fill = child[j].fill
                /\ child'[j].working = child[j].working /\ child'[j].sent = child[j].sent
           /\ \A legs : Tells(legs, child[Len(child)]) => Tells(legs, child'[Len(child)])
<1>. DEFINE n == Len(child)
            k == [child[n] EXCEPT !.settled = x.out # "UNKNOWN"]
<1>1. n \in DOMAIN child /\ child[n] \in Kids /\ child \in Seq(Kids) BY LastChild DEF SeriesType
<1>2. child' = [child EXCEPT ![n] = k] /\ x \in S!Results(child[n]) BY <1>1 DEF S!Reconciled, S!Current
<1>3. /\ k \in Kids /\ k.n = child[n].n /\ k.by = child[n].by /\ k.fill = child[n].fill
      /\ k.working = child[n].working /\ k.sent = child[n].sent
  BY <1>1 DEF Kids
<1>. HIDE DEF k
<1>4. /\ child' \in Seq(Kids) /\ Len(child') = Len(child) /\ child'[n] = k /\ DOMAIN child' = DOMAIN child
      /\ \A j \in DOMAIN child : j # n => child'[j] = child[j]
  BY <1>1, <1>2, <1>3, KidExcept
<1>5. x \in Findings /\ Tells(x.legs, child[n]) BY <1>1, <1>2, ResultsTell DEF SeriesType
<1>6. \A legs : Tells(legs, child[n]) => Tells(legs, child'[n]) BY <1>3, <1>4 DEF Tells
<1>. QED BY <1>3, <1>4, <1>5, <1>6

\* It is recorded, or not.
LEMMA Settled ==
    ASSUME SeriesInv, Under, NEW x, S!Reconciled(x),
           \/ UNCHANGED parent
           \/ \E ev \in {"CHILD_RESULT", "SERIES_RECONCILED_CHILD"} : S!Written(ev, Len(child), x)
    PROVE  /\ Records' /\ S!Stored' = S!Stored /\ parent' \in Seq(Entries) /\ Under'
           /\ \A r \in S!Roles : S!Filled(r)' = S!Filled(r)
           /\ S!Happened("SERIES_COMPLETE")' => S!Happened("SERIES_COMPLETE")
<1>. DEFINE n == Len(child)
<1>1. SeriesType /\ Records BY DEF SeriesInv
<1>2. /\ n \in DOMAIN child /\ n \notin S!Of("CHILD_COMPLETE") /\ child[n] \in Kids
      /\ \A r \in S!Roles : child[n].fill[r] \in Nat
  BY <1>1, LastChild, KidNumbers
<1>3. /\ x \in Findings /\ Tells(x.legs, child'[n])
      /\ child' \in Seq(Kids) /\ Len(child') = Len(child)
      /\ \A j \in DOMAIN child : j # n => child'[j] = child[j]
      /\ child'[n].n = child[n].n /\ child'[n].by = child[n].by /\ child'[n].fill = child[n].fill
      /\ \A legs : Tells(legs, child[n]) => Tells(legs, child'[n])
  BY <1>1, <1>2, Settling
<1>4. \A r \in S!Roles : child'[n].fill[r] <= child'[n].n /\ child[n].fill[r] <= child'[n].fill[r]
  BY <1>1, <1>2, <1>3 DEF Records, SeriesFacts
<1>5. \/ UNCHANGED parent
      \/ \E ev \in {"CHILD_RESULT", "SERIES_RECONCILED_CHILD"}, y \in Findings :
           S!Written(ev, Len(child), y) /\ Tells(y.legs, child'[n])
  BY <1>3
<1>6. /\ Records' /\ S!Stored' = S!Stored /\ parent' \in Seq(Entries) /\ Under'
      /\ \A r \in S!Roles : S!Filled(r)' = S!Filled(r) + (child'[n].fill[r] - child[n].fill[r])
      /\ S!Happened("SERIES_COMPLETE")' => S!Happened("SERIES_COMPLETE")
    <2>. HIDE DEF n
    <2>. QED BY <1>1, <1>2, <1>3, <1>4, <1>5, Moving
<1>7. ASSUME NEW r \in S!Roles PROVE S!Filled(r)' = S!Filled(r)
    <2>1. S!Filled(r) \in Int /\ child[n].fill[r] \in Int BY <1>1, <1>2, SumsAreNumbers DEF SeriesType
    <2>2. S!Filled(r)' = S!Filled(r) + (child[n].fill[r] - child[n].fill[r]) BY <1>3, <1>6
    <2>. QED BY <2>1, <2>2
<1>. QED BY <1>6, <1>7

LEMMA ChildReturnsStep == ASSUME SeriesInv, S!ChildReturns PROVE SeriesInv'
<1>1. /\ at = "running" /\ Under /\ child[Len(child)].n = slice /\ memory.done = S!Stored
      /\ SeriesType /\ Records /\ (\A i \in DOMAIN child : child[i].by = life)
      /\ ~S!Happened("SERIES_COMPLETE") /\ UNCHANGED <<pos, memory, slice, report, life>>
  BY DEF S!ChildReturns, SeriesInv, Flow, Loop
<1>2. PICK x : /\ S!Reconciled(x)
               /\ \/ S!Written("CHILD_RESULT", Len(child), x) /\ at' = "result"
                  \/ at' = "down" /\ UNCHANGED parent
  BY DEF S!ChildReturns, S!Current
<1>3. /\ Records' /\ S!Stored' = S!Stored /\ parent' \in Seq(Entries) /\ Under'
      /\ S!Happened("SERIES_COMPLETE")' => S!Happened("SERIES_COMPLETE")
  BY <1>1, <1>2, Settled
<1>4. /\ x \in Findings /\ child' \in Seq(Kids) /\ Len(child') = Len(child) /\ DOMAIN child' = DOMAIN child
      /\ \A j \in DOMAIN child : child'[j].n = child[j].n /\ child'[j].by = child[j].by
  BY <1>1, <1>2, Settling
<1>5. Len(child) \in DOMAIN child /\ Len(child) \in Nat BY <1>1, LastChild
<1>6. SeriesType' BY <1>1, <1>2, <1>3, <1>4 DEF SeriesType, Loop
<1>7. ASSUME NEW n, n = Len(child'), at' = "result" PROVE S!At("CHILD_RESULT", n)' # {}
    <2>1. S!Written("CHILD_RESULT", Len(child), x) BY <1>2, <1>7
    <2>2. Grown("CHILD_RESULT", Len(child), x) /\ n = Len(child)
      BY <1>1, <1>4, <1>5, <1>7, <2>1, Wrote DEF ChildEvents, SeriesType
    <2>. QED BY <2>2 DEF Grown
<1>8. Flow' /\ Answer' BY <1>1, <1>2, <1>3, <1>4, <1>5, <1>7 DEF Flow, Answer, Loop
<1>. QED BY <1>3, <1>6, <1>8 DEF SeriesInv


LEMMA RecordedAfter == \A ev, i : (i \in S!Of(ev))' <=> S!At(ev, i)' # {}
BY DEF S!Of, S!At

\* Receipts that do not fit stay with a note that is added.
LEMMA Conflicting ==
    ASSUME SeriesType, Records, S!Noted("SERIES_RESTART_BLOCKED"), UNCHANGED child,
           NEW i \in S!Pending, Len(child) = i, S!Malformed(i)
    PROVE  S!ReceiptsConflict'
<1>1. "SERIES_RESTART_BLOCKED" \in SeriesEvents BY DEF SeriesEvents
<1>2. /\ parent' # <<>> /\ parent'[Len(parent')].ev = "SERIES_RESTART_BLOCKED"
      /\ \A e \in ChildEvents : \A j : S!At(e, j)' = S!At(e, j)
      /\ \A k \in DOMAIN parent : k \in DOMAIN parent' /\ parent'[k] = parent[k]
  BY <1>1, Noting
<1>3. \A e \in ChildEvents : \A j : (j \in S!Of(e))' <=> j \in S!Of(e) BY <1>2, Recorded, RecordedAfter
<1>4. i \in S!Pending' BY <1>3 DEF S!Pending, ChildEvents
<1>5. ASSUME NEW e \in ChildEvents, i \in S!Of(e) PROVE S!Said(e, i)' = S!Said(e, i)
    <2>1. S!At(e, i)' = S!At(e, i) /\ S!At(e, i) # {} /\ S!At(e, i) \subseteq DOMAIN parent
        <3>1. S!At(e, i)' = S!At(e, i) /\ S!At(e, i) # {} BY <1>2, <1>5, Recorded
        <3>. QED BY <3>1 DEF S!At
    <2>2. (CHOOSE k \in S!At(e, i) : TRUE) \in S!At(e, i) BY <2>1
    <2>. QED BY <1>2, <2>1, <2>2 DEF S!Said
<1>6. S!Malformed(i)'
    <2>1. CASE \E j, k \in S!At("SERIES_RECONCILED_CHILD", i) : j # k BY <1>2, <2>1 DEF S!Malformed, ChildEvents
    <2>2. CASE ~\E j, k \in S!At("SERIES_RECONCILED_CHILD", i) : j # k
      BY <2>2, <1>3, <1>5 DEF S!Malformed, ChildEvents, S!Unresolved
    <2>. QED BY <2>1, <2>2
<1>. QED BY <1>2, <1>4, <1>6 DEF S!ReceiptsConflict

\* A child under way does not change what a conflict of receipts is.
LEMMA ConflictStays ==
    ASSUME UNCHANGED parent, Records, child \in Seq(Kids), Len(child') = Len(child), S!ReceiptsConflict,
           \A i \in DOMAIN child : child'[i].sent = child[i].sent /\ child'[i].settled = child[i].settled
    PROVE  S!ReceiptsConflict'
<1>1. PICK i \in S!Pending : Len(child) = i /\ S!Malformed(i) BY DEF S!ReceiptsConflict
<1>2. /\ (\A e, j : S!At(e, j)' = S!At(e, j)) /\ (\A e : S!Of(e)' = S!Of(e)) /\ S!Pending' = S!Pending
      /\ \A e, j : S!Said(e, j)' = S!Said(e, j)
  BY DEF S!At, S!Of, S!Pending, S!Said
<1>3. i \in DOMAIN child BY <1>1 DEF S!Pending, Records, Idle, Asked, Under
<1>4. S!Unresolved(child[i])' <=> S!Unresolved(child[i]) BY <1>3 DEF S!Unresolved
<1>. QED BY <1>1, <1>2, <1>4 DEF S!ReceiptsConflict, S!Malformed


\* What the venue may do to a child with a working order.
VenueMoves(i, r, k) ==
    /\ i \in DOMAIN child /\ r \in S!Roles /\ r \in child[i].working /\ child' = [child EXCEPT ![i] = k]
    /\ k \in Kids /\ k.n = child[i].n /\ k.by = child[i].by /\ k.sent = child[i].sent
    /\ k.settled = child[i].settled /\ k.working \subseteq child[i].working
    /\ child[i].fill[r] <= k.fill[r] /\ k.fill[r] <= k.n
    /\ \A q \in S!Roles : q # r => k.fill[q] = child[i].fill[q]

\* An order that fills or ends is one of the last child; what was answered stays true.
LEMMA VenueKeeps ==
    ASSUME SeriesInv, NEW i, NEW r, NEW k, VenueMoves(i, r, k),
           pos' \in [S!Roles -> Int], UNCHANGED <<parent, at, memory, slice, report, life>>
    PROVE  SeriesInv'
<1>0. /\ i \in DOMAIN child /\ r \in S!Roles /\ r \in child[i].working /\ child' = [child EXCEPT ![i] = k]
      /\ k \in Kids /\ k.n = child[i].n /\ k.by = child[i].by /\ k.sent = child[i].sent
      /\ k.settled = child[i].settled /\ k.working \subseteq child[i].working
      /\ child[i].fill[r] <= k.fill[r] /\ k.fill[r] <= k.n
      /\ \A q \in S!Roles : q # r => k.fill[q] = child[i].fill[q]
  BY DEF VenueMoves
<1>1. SeriesType /\ Records /\ Flow /\ Answer /\ child \in Seq(Kids) BY DEF SeriesInv, SeriesType
<1>2. /\ child' \in Seq(Kids) /\ Len(child') = Len(child) /\ DOMAIN child' = DOMAIN child
      /\ child'[i] = k /\ \A j \in DOMAIN child : j # i => child'[j] = child[j]
  BY <1>0, <1>1, KidExcept
<1>3. i \notin S!Of("CHILD_COMPLETE") BY <1>0, <1>1 DEF Records, SeriesFacts, Whole
<1>4. child[i] \in Kids /\ \A q \in S!Roles : child[i].fill[q] \in Nat /\ k.fill[q] \in Nat
  BY <1>0, <1>1, KidNumbers
<1>5. \A q \in S!Roles : child'[i].fill[q] <= child'[i].n /\ child[i].fill[q] <= child'[i].fill[q]
    <2>1. \A q \in S!Roles : child[i].fill[q] <= child[i].n BY <1>0, <1>1 DEF Records, SeriesFacts
    <2>2. \A q \in S!Roles : q # r => k.fill[q] <= k.n /\ child[i].fill[q] <= k.fill[q] BY <1>0, <1>4, <2>1
    <2>. QED BY <1>0, <1>2, <2>2
<1>6. \A legs : Tells(legs, child[i]) => Tells(legs, child'[i]) BY <1>0, <1>2 DEF Tells
<1>7. /\ Records' /\ S!Stored' = S!Stored /\ Under /\ i = Len(child) /\ Under' /\ ~Idle
      /\ \A q \in S!Roles : S!Filled(q)' = S!Filled(q) + (k.fill[q] - child[i].fill[q])
      /\ S!Happened("SERIES_COMPLETE")' => S!Happened("SERIES_COMPLETE")
  BY <1>0, <1>2, <1>1, <1>3, <1>5, <1>6, Moving
<1>8. SeriesType' BY <1>1, <1>2 DEF SeriesType
<1>9. ~S!Happened("SERIES_COMPLETE")' BY <1>1, <1>7 DEF Flow
<1>10. \A j \in DOMAIN child' : child'[j].by = child[j].by BY <1>0, <1>2
<1>11. S!At("CHILD_RESULT", Len(child))' = S!At("CHILD_RESULT", Len(child)) BY <1>2 DEF S!At
<1>12. at \notin {"next", "child"} BY <1>1, <1>7, UpTo DEF Asked, Under, SeriesType, Flow
<1>13. at' = "preflight" => parent' = <<>> BY <1>1 DEF Flow
<1>14. at' \in {"running", "result"} => Under' /\ child'[Len(child')].n = slice' BY <1>0, <1>1, <1>2, <1>7 DEF Flow
<1>15. Flow' BY <1>1, <1>2, <1>7, <1>10, <1>11, <1>9, <1>12, <1>13, <1>14 DEF Flow
<1>16. Answer'
    <2>1. \A q \in S!Roles : S!Filled(q) \in Int /\ S!Filled(q) <= S!Filled(q)' /\ (q # r => S!Filled(q)' = S!Filled(q))
        <3>1. ASSUME NEW q \in S!Roles
              PROVE  S!Filled(q) \in Int /\ S!Filled(q) <= S!Filled(q)' /\ (q # r => S!Filled(q)' = S!Filled(q))
            <4>1. S!Filled(q) \in Int /\ child[i].fill[q] \in Int /\ k.fill[q] \in Int BY <1>1, <1>4, SumsAreNumbers
            <4>2. child[i].fill[q] <= k.fill[q] /\ (q # r => k.fill[q] = child[i].fill[q]) BY <1>0, <1>2, <1>5
            <4>3. S!Filled(q)' = S!Filled(q) + (k.fill[q] - child[i].fill[q]) BY <1>7
            <4>. QED BY <4>1, <4>2, <4>3
        <3>. QED BY <3>1
    <2>2. SUFFICES ASSUME at = "over" PROVE Answer' BY DEF Answer
    <2>3. S!ReceiptsConflict => S!ReceiptsConflict' BY <1>0, <1>1, <1>2, ConflictStays
    <2>4. ASSUME NEW q \in S!Roles, report[q] # S!None
          PROVE  \/ report[q] = S!Filled(q)' /\ q \notin child'[Len(child)].working
                 \/ report[q] = S!Stored' /\ S!ReceiptsConflict'
      BY <1>0, <1>2, <1>7, <2>1, <2>3, <1>1, <2>2, <2>4 DEF Answer
    <2>5. ASSUME NEW q \in S!Roles, report.pair # S!None PROVE report.pair <= S!Filled(q)'
        <3>1. report.pair <= S!Filled(q) /\ report.pair \in Int BY <1>1, <2>2, <2>5 DEF Answer, SeriesType, S!None
        <3>2. S!Filled(q) \in Int /\ S!Filled(q) <= S!Filled(q)' /\ S!Filled(q)' \in Int
          BY <2>1, Numbers, TotalType, <1>2 DEF S!Filled
        <3>. QED BY <3>1, <3>2
    <2>6. report.done <= S!Stored' BY <1>1, <1>7, <2>2 DEF Answer
    <2>. QED BY <1>2, <2>4, <2>5, <2>6 DEF Answer
<1>. QED BY <1>7, <1>8, <1>15, <1>16 DEF SeriesInv

LEMMA FillStep == ASSUME SeriesInv, S!Fill PROVE SeriesInv'
<1>1. PICK i \in DOMAIN child, r \in S!Roles :
        /\ r \in child[i].working /\ child[i].fill[r] < child[i].n
        /\ child' = [child EXCEPT ![i].fill[r] = @ + 1] /\ pos' = [pos EXCEPT ![r] = @ + S!Sign(r)]
  BY DEF S!Fill
<1>2. SeriesType /\ child \in Seq(Kids) /\ child[i] \in Kids /\ child[i].fill \in [S!Roles -> Nat]
      /\ child[i].n \in Nat
    <2>1. SeriesType /\ child \in Seq(Kids) BY DEF SeriesInv, SeriesType
    <2>2. child[i] \in Kids BY <2>1
    <2>. QED BY <2>1, <2>2 DEF Kids
<1>. DEFINE f == [child[i].fill EXCEPT ![r] = @ + 1]
            k == [child[i] EXCEPT !.fill = f]
<1>3. f \in [S!Roles -> Nat] /\ f[r] = child[i].fill[r] + 1 /\ \A q \in S!Roles : q # r => f[q] = child[i].fill[q]
  BY <1>2
<1>4. child' = [child EXCEPT ![i] = k] BY <1>1, <1>2
<1>. HIDE DEF f
<1>5. k \in Kids BY <1>2, <1>3 DEF Kids
<1>6. /\ k.n = child[i].n /\ k.by = child[i].by /\ k.sent = child[i].sent /\ k.settled = child[i].settled
      /\ k.working = child[i].working /\ k.fill = f
  BY <1>2 DEF Kids
<1>. HIDE DEF k
<1>7. child[i].fill[r] <= f[r] /\ f[r] <= child[i].n BY <1>2, <1>1, <1>3
<1>8. pos' \in [S!Roles -> Int]
    <2>1. pos \in [S!Roles -> Int] /\ S!Sign(r) \in Int BY <1>2 DEF SeriesType, S!Sign
    <2>2. pos[r] + S!Sign(r) \in Int BY <2>1
    <2>. QED BY <1>1, <2>1, <2>2
<1>9. UNCHANGED <<parent, at, memory, slice, report, life>> BY DEF S!Fill
<1>10. /\ i \in DOMAIN child /\ r \in S!Roles /\ r \in child[i].working /\ k.working \subseteq child[i].working
       /\ child[i].fill[r] <= k.fill[r] /\ k.fill[r] <= k.n
       /\ \A q \in S!Roles : q # r => k.fill[q] = child[i].fill[q]
  BY <1>1, <1>3, <1>6, <1>7
<1>11. k.n = child[i].n /\ k.by = child[i].by /\ k.sent = child[i].sent /\ k.settled = child[i].settled BY <1>6
<1>12. VenueMoves(i, r, k) BY <1>4, <1>5, <1>10, <1>11 DEF VenueMoves
<1>. QED BY <1>8, <1>9, <1>12, VenueKeeps

LEMMA OrderEndsStep == ASSUME SeriesInv, S!OrderEnds PROVE SeriesInv'
<1>1. PICK i \in DOMAIN child : \E r \in child[i].working : child' = [child EXCEPT ![i].working = @ \ {r}]
  BY DEF S!OrderEnds
<1>2. PICK r \in child[i].working : child' = [child EXCEPT ![i].working = @ \ {r}] BY <1>1
<1>3. /\ SeriesType /\ child \in Seq(Kids) /\ child[i] \in Kids /\ child[i].working \in SUBSET S!Roles
      /\ child[i].fill \in [S!Roles -> Nat]
    <2>1. SeriesType /\ child \in Seq(Kids) BY DEF SeriesInv, SeriesType
    <2>2. child[i] \in Kids BY <2>1
    <2>. QED BY <2>1, <2>2 DEF Kids
<1>. DEFINE k == [child[i] EXCEPT !.working = @ \ {r}]
<1>4. child' = [child EXCEPT ![i] = k] /\ r \in S!Roles BY <1>2, <1>3
<1>5. k \in Kids BY <1>3 DEF Kids
<1>6. /\ k.n = child[i].n /\ k.by = child[i].by /\ k.sent = child[i].sent /\ k.settled = child[i].settled
      /\ k.working \subseteq child[i].working /\ k.fill = child[i].fill
  BY <1>3 DEF Kids
<1>. HIDE DEF k
<1>7. child[i].fill[r] <= k.fill[r] /\ k.fill[r] <= k.n BY <1>3, <1>4, <1>6 DEF SeriesInv, Records, SeriesFacts
<1>8. pos' \in [S!Roles -> Int] /\ UNCHANGED <<parent, at, memory, slice, report, life>>
  BY <1>3 DEF S!OrderEnds, SeriesType
<1>9. VenueMoves(i, r, k) BY <1>2, <1>4, <1>5, <1>6, <1>7 DEF VenueMoves
<1>. QED BY <1>8, <1>9, VenueKeeps


\* A pending child is the last one, begun or only asked for.
LEMMA PendingIsLast ==
    ASSUME SeriesType, Records
    PROVE  /\ S!Pending = {} => ~Under
           /\ \A i \in S!Pending : (Len(child) = i => Under) /\ (Len(child) < i => ~Under)
<1>. DEFINE n == Len(child)
<1>1. n \in Nat BY DEF SeriesType
<1>2. CASE Idle
    <2>1. S!Pending = {} BY <1>2 DEF Idle, S!Pending
    <2>2. ~Under
        <3>1. SUFFICES ASSUME Under, n > 0 PROVE FALSE BY DEF Under
        <3>2. n \in S!Of("CHILD_COMPLETE") /\ n \notin S!Of("CHILD_COMPLETE") BY <1>1, <1>2, <3>1 DEF Idle, Under
        <3>. QED BY <3>2
    <2>. QED BY <2>1, <2>2
<1>3. CASE Asked
    <2>1. 1..(n + 1) = (1..n) \cup {n + 1} /\ 1..(n + 1) # 1..n BY <1>1, UpTo
    <2>2. S!Pending \subseteq {n + 1} /\ ~Under BY <1>3, <2>1 DEF Asked, Under, S!Pending
    <2>3. n + 1 \in S!Pending BY <1>1, <1>3 DEF Asked, S!Pending
    <2>4. n # n + 1 BY <1>1
    <2>. QED BY <2>2, <2>3, <2>4
<1>4. CASE Under
    <2>1. n \in 1..n /\ n \notin 1..(n - 1) /\ \A j \in 1..n : j \notin 1..(n - 1) => j = n BY <1>1, <1>4 DEF Under
    <2>2. n \in S!Pending /\ \A j \in S!Pending : j = n BY <1>4, <2>1 DEF Under, S!Pending
    <2>. QED BY <1>1, <1>4, <2>2
<1>. QED BY <1>2, <1>3, <1>4 DEF Records

\* When every child is completed, or the last was only asked for, the answer is
\* the completed ones.
LEMMA NothingOpenStep ==
    ASSUME SeriesInv, UNCHANGED <<child, pos, memory, slice, life>>, at = "restart", ~Under,
           S!Blocked(S!NoReport) \/ S!Blocked(S!AllOf(S!Stored))
    PROVE  SeriesInv'
<1>1. /\ S!Noted("SERIES_RESTART_BLOCKED") /\ "SERIES_RESTART_BLOCKED" \in SeriesEvents
      /\ S!Stored \in Nat /\ 0 <= S!Stored
  BY DEF S!Blocked, SeriesEvents, SeriesInv, Records, SeriesSums
<1>2. CASE S!Report(S!AllOf(S!Stored)) BY <1>1, <1>2, Complete
<1>3. CASE S!Report(S!NoReport) BY <1>3, Silences, <1>1, Silent
<1>. QED BY <1>2, <1>3 DEF S!Blocked

\* Receipts that do not fit are answered with the completed children.
LEMMA CannotTellStep ==
    ASSUME SeriesInv, UNCHANGED <<child, pos, memory, slice, life>>, at = "restart",
           NEW i \in S!Pending, S!CannotTell(i)
    PROVE  SeriesInv'
<1>1. /\ S!Noted("SERIES_RESTART_BLOCKED") /\ report' = S!AllOf(S!Stored) /\ at' = "over"
      /\ Len(child) = i /\ S!Malformed(i)
  BY DEF S!CannotTell, S!Blocked, S!Report
<1>2. "SERIES_RESTART_BLOCKED" \in SeriesEvents /\ SeriesType /\ Records BY DEF SeriesEvents, SeriesInv
<1>3. S!ReceiptsConflict' BY <1>1, <1>2, Conflicting
<1>4. S!Stored \in Nat /\ Under /\ Len(child) \in DOMAIN child /\ child[Len(child)] \in Kids
  BY <1>1, <1>2, PendingIsLast, LastChild DEF Records, SeriesSums
<1>5. S!Stored' = S!Stored /\ \A x : S!Filled(x)' = S!Filled(x) BY <1>1, <1>2, Noting
<1>6. \A x \in S!Roles : S!Filled(x) = S!Stored + child[Len(child)].fill[x] /\ child[Len(child)].fill[x] \in Nat
  BY <1>2, <1>4 DEF Records, SeriesSums, Kids
<1>7. \A x \in S!Roles : S!Stored <= S!Filled(x)' BY <1>4, <1>5, <1>6
<1>. DEFINE p == S!Paired(S!Stored, S!Stored)
<1>8. S!Stored # S!None /\ p \in Nat \cup {S!None} /\ (p # S!None => p <= S!Stored)
  BY <1>4 DEF S!Paired, S!Lesser, S!None
<1>9. p # S!None => p <= S!Filled("source")' /\ p <= S!Filled("receiver")'
    <2>1. \A x \in S!Roles : S!Filled(x)' \in Nat BY <1>4, <1>5, <1>6
    <2>2. ASSUME NEW x \in S!Roles, p # S!None PROVE p <= S!Filled(x)' BY <1>7, <1>8, <2>1, <2>2, <1>4
    <2>. QED BY <2>2 DEF S!Roles
<1>10. report' = S!Full(S!Stored, S!Stored, S!Stored, p) BY <1>1 DEF S!AllOf
<1>11. LegTold("source", S!Stored)' /\ LegTold("receiver", S!Stored)' BY <1>3, <1>5 DEF LegTold
<1>. HIDE DEF p
<1>12. Answer' /\ report' \in Reports BY <1>5, <1>4, <1>8, <1>9, <1>10, <1>11, Answering
<1>. QED BY <1>1, <1>2, <1>12, Ending

\* A child that is over is answered from its record.
LEMMA FromRecordStep ==
    ASSUME SeriesInv, UNCHANGED <<child, pos, memory, slice, life>>, at = "restart",
           NEW i \in S!Pending, S!FromRecord(i)
    PROVE  SeriesInv'
<1>. DEFINE legs == S!LegsOf(i)
            s == S!Plus(S!Stored, legs["source"])
            r == S!Plus(S!Stored, legs["receiver"])
            p == S!PairOnRecord(i, s, r)
<1>1. /\ S!Noted("SERIES_RESTART_BLOCKED") /\ report' = S!Full(S!Stored, s, r, p) /\ at' = "over" /\ Len(child) = i
  BY DEF S!FromRecord, S!Blocked, S!Report
<1>2. "SERIES_RESTART_BLOCKED" \in SeriesEvents /\ SeriesType /\ Records BY DEF SeriesEvents, SeriesInv
<1>3. Under /\ i \in Nat BY <1>1, <1>2, PendingIsLast, LastChild
<1>4. legs \in [S!Roles -> Nat \cup {S!None}] /\ Tells(legs, child[i])
    <2>1. CASE i \in S!Of("SERIES_RECONCILED_CHILD")
      BY <2>1, Recorded, <1>2, <1>3, OnRecord DEF S!LegsOf, Findings
    <2>2. CASE i \notin S!Of("SERIES_RECONCILED_CHILD") /\ i \in S!Of("CHILD_RESULT")
      BY <2>2, Recorded, <1>2, <1>3, OnRecord DEF S!LegsOf, Findings
    <2>3. CASE i \notin S!Of("SERIES_RECONCILED_CHILD") /\ i \notin S!Of("CHILD_RESULT")
      BY <2>3 DEF S!LegsOf, Tells
    <2>. QED BY <2>1, <2>2, <2>3
<1>5. p # S!None => s # S!None /\ r # S!None /\ p = S!Paired(s, r) BY DEF S!PairOnRecord
<1>6. S!Stored' = S!Stored /\ Under' = Under /\ \A x : S!Filled(x)' = S!Filled(x) BY <1>1, <1>2, Noting
<1>. HIDE DEF legs, p
<1>7. Answer' /\ report' \in Reports BY <1>1, <1>3, <1>4, <1>5, <1>6, Reckoning
<1>. QED BY <1>1, <1>2, <1>7, Ending

\* A child that may have live orders is reconciled, and recorded or not.
LEMMA ReconcileChildStep ==
    ASSUME SeriesInv, UNCHANGED <<pos, memory, slice, life>>, at = "restart",
           NEW i \in S!Pending, S!ReconcileChild(i)
    PROVE  SeriesInv'
<1>1. SeriesType /\ Records /\ Len(child) = i /\ ~S!Happened("SERIES_COMPLETE")
  BY DEF S!ReconcileChild, SeriesInv, Flow
<1>2. Under /\ i \in Nat BY <1>1, PendingIsLast, LastChild
<1>3. PICK x \in S!Results(child[i]) :
        LET s == S!Plus(S!Stored, x.legs["source"])
            r == S!Plus(S!Stored, x.legs["receiver"])
        IN  /\ S!Reconciled(x)
            /\ \/ /\ S!Written("SERIES_RECONCILED_CHILD", i, x)
                  /\ S!Report(S!Full(S!Stored, s, r, IF x.out = "SUCCESS" /\ s = r THEN S!Paired(s, r) ELSE S!None))
               \/ at' = "down" /\ UNCHANGED <<parent, report>>
  BY DEF S!ReconcileChild
<1>. DEFINE s == S!Plus(S!Stored, x.legs["source"])
            r == S!Plus(S!Stored, x.legs["receiver"])
            p == IF x.out = "SUCCESS" /\ s = r THEN S!Paired(s, r) ELSE S!None
<1>4. /\ Records' /\ S!Stored' = S!Stored /\ parent' \in Seq(Entries) /\ Under'
      /\ \A q \in S!Roles : S!Filled(q)' = S!Filled(q)
      /\ ~S!Happened("SERIES_COMPLETE")'
  BY <1>1, <1>2, <1>3, Settled
<1>5. /\ x \in Findings /\ Tells(x.legs, child[i]) /\ child' \in Seq(Kids) /\ Len(child') = Len(child)
      /\ child'[i].working = child[i].working
  BY <1>1, <1>2, <1>3, Settling, LastChild
<1>6. at' \in {"over", "down"} BY <1>3 DEF S!Report
<1>7. Flow' BY <1>4, <1>6 DEF Flow, Loop
<1>8. CASE at' = "over" /\ report' = S!Full(S!Stored, s, r, p)
    <2>1. x.legs \in [S!Roles -> Nat \cup {S!None}] BY <1>5 DEF Findings
    <2>2. p # S!None => s # S!None /\ r # S!None /\ p = S!Paired(s, r) BY DEF S!Paired, S!None
    <2>. HIDE DEF p
    <2>3. Answer' /\ report' \in Reports BY <1>1, <1>2, <1>4, <1>5, <1>8, <2>1, <2>2, Reckoning
    <2>4. SeriesType' BY <1>1, <1>4, <1>5, <1>6, <2>3 DEF SeriesType, Reports
    <2>. QED BY <1>4, <1>7, <2>3, <2>4 DEF SeriesInv
<1>9. CASE at' = "down" /\ UNCHANGED report BY <1>1, <1>4, <1>5, <1>9, <1>7 DEF SeriesType, SeriesInv, Answer
<1>. QED BY <1>3, <1>8, <1>9 DEF S!Report

LEMMA RestartStep == ASSUME SeriesInv, S!Restart PROVE SeriesInv'
<1>1. SeriesType /\ Records /\ at = "restart" /\ UNCHANGED <<pos, memory, slice, life>> BY DEF SeriesInv, S!Restart
<1>2. CASE S!NothingPending BY <1>1, <1>2, PendingIsLast, NothingOpenStep DEF S!NothingPending
<1>3. ASSUME NEW i \in S!Pending, S!NeverBegan(i) PROVE SeriesInv'
  BY <1>1, <1>3, PendingIsLast, NothingOpenStep DEF S!NeverBegan
<1>4. ASSUME NEW i \in S!Pending, S!CannotTell(i) PROVE SeriesInv' BY <1>1, <1>4, CannotTellStep DEF S!CannotTell
<1>5. ASSUME NEW i \in S!Pending, S!FromRecord(i) PROVE SeriesInv' BY <1>1, <1>5, FromRecordStep DEF S!FromRecord
<1>6. ASSUME NEW i \in S!Pending, S!ReconcileChild(i) PROVE SeriesInv' BY <1>1, <1>6, ReconcileChildStep
<1>. QED BY <1>2, <1>3, <1>4, <1>5, <1>6 DEF S!Restart

LEMMA SeriesInit == ASSUME S!Init PROVE SeriesInv
<1>1. /\ parent = <<>> /\ child = <<>> /\ report = S!NoReport /\ pos = [r \in S!Roles |-> 0]
      /\ at = "start" /\ slice = 0 /\ life = 1
  BY DEF S!Init
<1>2. SeriesType BY <1>1 DEF SeriesType, S!NoReport, S!None, Loop
<1>3. \A e : S!Of(e) = {} /\ ~S!Happened(e) BY <1>1 DEF S!Of, S!Happened, S!At
<1>4. S!Stored = 0 /\ S!Planned = 0 /\ \A r : S!Filled(r) = 0
  BY <1>1, TotalEmpty DEF S!Stored, S!Planned, S!Filled
<1>5. Idle /\ ~Under BY <1>1, <1>3 DEF Idle, Under
<1>6. SeriesFacts BY <1>1 DEF SeriesFacts
<1>7. SeriesSums BY <1>4, <1>5, SeriesAssumption DEF SeriesSums
<1>8. Flow /\ Answer BY <1>1, <1>3, <1>5 DEF Flow, Answer, Loop
<1>. QED BY <1>2, <1>5, <1>6, <1>7, <1>8 DEF SeriesInv, Records

LEMMA SeriesStep == ASSUME SeriesInv, [S!Next]_S!vars PROVE SeriesInv'
<1>1. CASE UNCHANGED S!vars BY <1>1, StillRecords, SeriesStill DEF S!vars, SeriesInv, SeriesType, Flow, Answer
<1>2. CASE S!Process
  BY <1>2, BeginStep, RefusedStep, StartStep, NextSliceStep, NoBookStep, ChildOpensStep, ChildSendsStep,
    ChildReturnsStep, JudgeStep, RestartStep DEF S!Process
<1>. QED BY <1>1, <1>2, FillStep, OrderEndsStep, ForeignStep, CrashStep, RelaunchStep DEF S!Next

\* The invariant says what the property says.
LEMMA InvIsTrue == ASSUME SeriesInv PROVE S!SeriesIsTrue
<1>1. /\ SeriesType /\ Records /\ Flow /\ Answer /\ child \in Seq(Kids) /\ S!Stored \in Nat
  BY DEF SeriesInv, SeriesType, Records, SeriesSums
<1>2. \A r \in S!Roles : S!Filled(r) \in Nat /\ S!Stored <= S!Filled(r)
    <2>1. CASE Under BY <1>1, <2>1, LastChild DEF Kids, Records, SeriesSums
    <2>2. CASE ~Under BY <1>1, <2>2 DEF Records, SeriesSums
    <2>. QED BY <2>1, <2>2
<1>3. S!SaysWhatTraded
    <2>1. SUFFICES ASSUME at = "over", NEW r \in S!Roles
                   PROVE  /\ report[r] # S!None => report[r] = S!Filled(r) \/ (S!ReceiptsConflict /\ report[r] < S!Filled(r))
                          /\ report.pair # S!None => report.pair <= S!Filled(r)
                          /\ report.done <= S!Filled(r)
      BY DEF S!SaysWhatTraded
    <2>2. report.done \in Nat /\ report.done <= S!Stored BY <1>1, <2>1 DEF SeriesType, Answer
    <2>3. report[r] # S!None => report[r] = S!Filled(r) \/ (S!ReceiptsConflict /\ report[r] = S!Stored)
      BY <1>1, <2>1 DEF Answer
    <2>4. S!Stored = S!Filled(r) \/ S!Stored < S!Filled(r) BY <1>1, <1>2
    <2>5. report.pair # S!None => report.pair <= S!Filled(r) BY <1>1, <2>1 DEF Answer
    <2>6. report.done <= S!Filled(r) BY <1>1, <1>2, <2>2
    <2>. QED BY <2>3, <2>4, <2>5, <2>6
<1>4. S!OneSliceAtATime
    <2>1. \A i \in 1..Len(child) - 1 : i \in DOMAIN child /\ i \in S!Of("CHILD_COMPLETE")
      BY <1>1 DEF Records, Idle, Asked, Under
    <2>. QED BY <1>1, <2>1 DEF S!OneSliceAtATime, Records, SeriesFacts, SeriesSums, Whole
<1>. QED BY <1>3, <1>4 DEF S!SeriesIsTrue

-----------------------------------------------------------------------------
(* The series of the model that is checked.                                *)

\* What runs there as a series is a series at every step.
LEMMA SeriesSteps == MCSpec => S!Spec
<1>1. MCInit => S!Init BY DEF MCInit
<1>2. [MCNext]_<<vars, fanout, series, which>> => [S!Next]_(S!vars) BY DEF series, S!vars, MCNext
<1>. QED BY <1>1, <1>2, PTL DEF MCSpec, S!Spec

\* After any number of interruptions a series says of each leg what its orders
\* traded, or nothing, and no slice begins before the one before it is a full
\* pair (_execute_locked, _handle_restart).
THEOREM SeriesSayTheTruth == MCSpec => []SeriesIsTrue
<1>1. S!Init => SeriesInv BY SeriesInit
<1>2. SeriesInv /\ [S!Next]_(S!vars) => SeriesInv' BY SeriesStep
<1>3. SeriesInv => SeriesIsTrue BY InvIsTrue DEF SeriesIsTrue
<1>. QED BY <1>1, <1>2, <1>3, SeriesSteps, PTL DEF S!Spec
=============================================================================
