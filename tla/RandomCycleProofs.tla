-------------------------- MODULE RandomCycleProofs --------------------------
(***************************************************************************)
(* Theorems about RandomCycle, for every quantity and every budget of      *)
(* attempts.                                                               *)
(***************************************************************************)
EXTENDS RandomCycle, SequenceTheorems, TLAPS

\* Where residual orders may be under way.
Recovering == {"loop", "sleep", "attempt", "sent", "after"}

Quiet == \A a \in Accounts : ~residual[a].live

PairInv ==
    /\ open \subseteq exposed
    /\ \A a \in Accounts : a \notin exposed => fills[a] = 0
    /\ report.state = "final" => open = {}

\* Before the recovery no residual order exists, and nothing is reported
\* before the end.
OrderInv ==
    /\ pc # "done" => result = NoResult
    /\ pc \notin Recovering \cup {"done"} => fallbacks = {}
    /\ pc \notin {"sent", "after", "done"} => Quiet
    /\ pc \in {"sent", "after"} => \A a \in Accounts : a # turn => ~residual[a].live
    /\ pc = "after" /\ verdict # "unknown" => Quiet

\* The opening: positions are what its attempt filled, nothing before it.
OpeningInv ==
    /\ pc \in {"preflight", "prepare", "opening"} => ~Closes /\ closing = NoPhase
    /\ pc \in {"preflight", "prepare"} => pos = Flat /\ open = {}
    /\ pc = "preflight" => First
    /\ pc = "prepare" /\ ~First =>
          report.state = "final" /\ opening.outcome = "PARTIAL" /\ opening.after = pos
    /\ pc = "opening" => pos = fills

\* An opening that is to be closed left full positions.
HeldInv == Closes => opening.resolved /\ opening.after = Full

\* The closing: both accounts were full before its attempt.
ClosingInv ==
    /\ pc \in {"hold", "close", "closing"} => Closes /\ closing = NoPhase
    /\ pc \in {"hold", "close"} => pos = Full /\ report.state = "final"
    /\ pc = "closing" =>
          report.state = "none" /\ \A a \in Accounts : pos[a] + fills[a] = Q

\* What is known of the attempts when the recovery begins.
RecoverInv ==
    pc = "recover" =>
        /\ ~Closes =>
              /\ closing = NoPhase /\ opening.outcome # "none"
              /\ opening.resolved => open = {} /\ opening.after = pos
              /\ opening.outcome = "PARTIAL" => report.state = "final"
        /\ Closes /\ closing = NoPhase =>
              \/ report.state = "none"
              \/ report.state = "final" /\ pos = Full
        /\ closing # NoPhase =>
              /\ closing.resolved => open = {} /\ closing.after = pos
              /\ closing.outcome \in {"SUCCESS", "PARTIAL", "FAILED_PREFLIGHT_BLOCKED"}
                    => report.state = "final"
              /\ closing.outcome = "FAILED_PREFLIGHT_BLOCKED" => pos = Full
              /\ closing.outcome = "SUCCESS" => closing.resolved /\ pos = Flat
              /\ closing.outcome # "none"

\* Filled by the order under way.
Filled(a) == IF pc = "sent" /\ a = turn THEN residual[a].fill ELSE 0

\* The recovery: its proved positions bound the real ones, and are the real
\* ones when the last attempt reported.
KnownInv ==
    pc \in Recovering =>
        /\ \/ report.state = "none" /\ Closes /\ closing = NoPhase
           \/ report.state = "final"
        /\ closing.outcome = "SUCCESS" => pos = Flat /\ report.state = "final"
        /\ ~(pc = "after" /\ verdict = "unknown") =>
              \A a \in Accounts :
                 /\ pos[a] + Filled(a) <= known[a]
                 /\ report.state = "final" => pos[a] + Filled(a) = known[a]

\* What a finished cycle reports.
DoneInv ==
    pc = "done" =>
        /\ result.inventory = "CONFIRMED_FLAT" => pos = Flat /\ Quiet /\ (~Closes => open = {})
        /\ result.outcome = "SUCCESS" => pos = Flat /\ Quiet /\ open = {} /\ Closes

Safe ==
    /\ PairInv /\ OrderInv /\ OpeningInv /\ HeldInv /\ ClosingInv
    /\ RecoverInv /\ KnownInv /\ DoneInv

IInv == TypeOK /\ Safe

-----------------------------------------------------------------------------
(* The initial state. *)

LEMMA QueueType == ASSUME NEW at PROVE Queue(at) \in Seq(Accounts)
<1>. DEFINE s == IF at["source"] > 0 THEN <<"source">> ELSE <<>>
            r == IF at["receiver"] > 0 THEN <<"receiver">> ELSE <<>>
<1>1. <<"source">> \in Seq(Accounts) /\ <<"receiver">> \in Seq(Accounts) BY DEF Accounts
<1>2. << >> \in Seq(Accounts) OBVIOUS
<1>3. s \in Seq(Accounts) /\ r \in Seq(Accounts) BY <1>1, <1>2
<1>4. s \o r \in Seq(Accounts) BY <1>3, ConcatProperties
<1>. QED BY <1>4 DEF Queue

LEMMA Values ==
    /\ Flat \in Positions /\ Full \in Positions
    /\ NoPhase \in Phases /\ NoOrder \in Orders
    /\ NoResult \in [outcome : Outcomes \cup {"none"}, inventory : Inventories]
BY CycleAssumption DEF Flat, Full, Positions, NoPhase, Phases, NoOrder, Orders, NoResult, Outcomes, Inventories

LEMMA InitInv == Init => IInv
<1>. SUFFICES ASSUME Init PROVE IInv OBVIOUS
<1>. USE CycleAssumption DEF Init, Attempt!Init, Attempt!Nothing
<1>1. TypeOK
  <2>1. report \in Attempt!Reports /\ fills \in Positions BY Values DEF Attempt!Reports, Flat, Positions
  <2>2. residual \in [Accounts -> Orders] /\ ready \in [Accounts -> BOOLEAN] BY Values
  <2>3. pending \in Seq(Accounts) OBVIOUS
  <2>4. pos \in Positions /\ known \in Positions /\ opening \in Phases /\ closing \in Phases BY Values
  <2>5. result \in [outcome : Outcomes \cup {"none"}, inventory : Inventories] BY Values
  <2>6. barrier \in BOOLEAN /\ stop \in BOOLEAN OBVIOUS
  <2>. QED BY <2>1, <2>2, <2>3, <2>4, <2>5, <2>6 DEF TypeOK, Places, Kinds, Verdicts
<1>2. PairInv /\ OrderInv BY DEF PairInv, OrderInv, Quiet, Recovering, NoOrder, Flat
<1>3. OpeningInv /\ HeldInv /\ ClosingInv /\ RecoverInv /\ KnownInv /\ DoneInv
  BY DEF OpeningInv, HeldInv, ClosingInv, RecoverInv, KnownInv, DoneInv, Closes, NoPhase, First, Recovering
<1>. QED BY <1>1, <1>2, <1>3 DEF IInv, Safe

-----------------------------------------------------------------------------
(* Types. *)

\* What a cycle that has ended leaves.
LEMMA EndsType ==
    ASSUME TypeOK, Forgets, pc' = "done",
           result' \in [outcome : Outcomes \cup {"none"}, inventory : Inventories],
           fallbacks' \subseteq Kinds, barrier' \in BOOLEAN,
           UNCHANGED <<venue, pair, used, stop, phases>>
    PROVE  TypeOK'
BY Values DEF Forgets, Verdicts, TypeOK, venue, pair, phases, Places

LEMMA EndsInv ==
    ASSUME NEW outcome \in Outcomes, TypeOK, Ends(outcome)
    PROVE  TypeOK'
BY EndsType DEF Ends, Inventories, TypeOK, phases

LEMMA ConcludeType ==
    ASSUME NEW seen \in BOOLEAN, NEW at, NEW kinds \in SUBSET Kinds, NEW barred \in BOOLEAN,
           TypeOK, Conclude(seen, at, kinds, barred)
    PROVE  TypeOK'
BY EndsType DEF Outcome, Outcomes, TypeOK, Phases, Inventory, Inventories, Conclude

\* The cycle ends in one way or the other.
Concludes(kinds) ==
    \E seen \in BOOLEAN, at \in Positions, barred \in BOOLEAN : Conclude(seen, at, kinds, barred)

LEMMA ConcludesType ==
    ASSUME NEW kinds, kinds \subseteq Kinds, TypeOK, Concludes(kinds)
    PROVE  TypeOK'
<1>1. PICK seen \in BOOLEAN, at \in Positions, barred \in BOOLEAN :
          Conclude(seen, at, kinds, barred)
  BY DEF Concludes
<1>2. kinds \in SUBSET Kinds OBVIOUS
<1>. QED BY <1>1, <1>2, ConcludeType

LEMMA ConcludesCases ==
    ASSUME TypeOK, NEW kinds
    PROVE  /\ ConcludeUnread(kinds) => Concludes(kinds)
           /\ ConcludeRead(kinds) => Concludes(kinds)
           /\ \A at \in Positions :
                 /\ Conclude(TRUE, at, kinds, barrier) => Concludes(kinds)
                 /\ Conclude(TRUE, at, kinds, TRUE) => Concludes(kinds)
<1>1. barrier \in BOOLEAN BY DEF TypeOK
<1>2. ConcludeUnread(kinds) => Concludes(kinds) BY <1>1, Values DEF ConcludeUnread, Concludes
<1>3. ConcludeRead(kinds) => Concludes(kinds) BY <1>1 DEF ConcludeRead, Concludes
<1>4. ASSUME NEW at \in Positions
      PROVE  /\ Conclude(TRUE, at, kinds, barrier) => Concludes(kinds)
             /\ Conclude(TRUE, at, kinds, TRUE) => Concludes(kinds)
  BY <1>1 DEF Concludes
<1>. QED BY <1>2, <1>3, <1>4

LEMMA ReturnsType ==
    ASSUME TypeOK, NEW p \in Attempted, Returns(p)
    PROVE  p \in Phases /\ report' \in Attempt!Reports /\ UNCHANGED <<exposed, open, fills>>
BY DEF Returns, Attempt!Report, Attempt!Reports, TypeOK, Positions, Attempted

LEMMA NewPairType == NewPair => exposed' = {} /\ open' = {} /\ fills' \in Positions
                                /\ report' \in Attempt!Reports
BY Values DEF NewPair, Attempt!Reports, Positions

LEMMA ClosingStarts ==
    PrepareClosing => \/ pc' = "closing" /\ NewPair
                      \/ pc' \in {"close", "recover"} /\ UNCHANGED pair
BY DEF PrepareClosing

LEMMA TypeStep == ASSUME TypeOK, [Next]_vars PROVE TypeOK'
<1>. USE CycleAssumption DEF TypeOK, venue, pair, control, phases, recovery
<1>1. CASE PairTrades BY <1>1 DEF PairTrades, Attempt!Trade, Positions
<1>2. ASSUME NEW a \in Accounts, ResidualTrades(a) PROVE TypeOK'
  <2>1. PICK n \in 0..residual[a].left, live \in BOOLEAN :
             /\ n <= pos[a]
             /\ pos' = [pos EXCEPT ![a] = @ - n]
             /\ residual' = [residual EXCEPT ![a] = [live |-> live, left |-> @.left - n,
                                                     fill |-> @.fill + n]]
    BY <1>2 DEF ResidualTrades
  <2>2. pos' \in Positions BY <2>1 DEF Positions
  <2>3. [live |-> live, left |-> residual[a].left - n, fill |-> residual[a].fill + n] \in Orders BY <2>1 DEF Orders
  <2>4. residual' \in [Accounts -> Orders] BY <2>1, <2>3
  <2>. QED BY <1>2, <2>2, <2>4 DEF ResidualTrades
<1>3. ASSUME NEW a \in Accounts, PollElapses(a) PROVE TypeOK' BY <1>3 DEF PollElapses
<1>4. CASE OwnerStops BY <1>4 DEF OwnerStops
<1>5. CASE Fails
  <2>1. PICK outcome \in Outcomes : Ends(outcome) BY <1>5 DEF Fails, Outcomes
  <2>. QED BY <2>1, EndsInv
<1>6. CASE Preflight BY EndsInv, <1>6 DEF Outcomes, Preflight, Places
<1>7. CASE PrepareOpening
  <2>1. CASE Ends("FAILED_PREFLIGHT_BLOCKED") BY <2>1, EndsInv DEF Outcomes
  <2>2. CASE pc' = "opening" /\ used' = used + 1 /\ NewPair
              /\ UNCHANGED <<venue, barrier, stop, phases, recovery, result>>
    BY <1>7, <2>2, NewPairType DEF PrepareOpening, Places
  <2>3. CASE /\ \/ used + 1 < MAX_OPENING_ATTEMPTS /\ pc' = "prepare"
                \/ ~First /\ pc' = "recover"
             /\ used' = used + 1
             /\ UNCHANGED <<venue, pair, barrier, stop, phases, recovery, result>>
    BY <1>7, <2>3 DEF PrepareOpening, Places
  <2>. QED BY <1>7, <2>1, <2>2, <2>3 DEF PrepareOpening
<1>8. ASSUME NEW a \in Accounts, Exposes(a) PROVE TypeOK' BY <1>8 DEF Exposes, Attempt!Expose
<1>9. CASE OpeningReturns
  <2>1. PICK p \in Attempted : Returns(p) /\ opening' = p
              /\ pc' = IF Again(p, MAX_OPENING_ATTEMPTS) /\ ~stop THEN "prepare"
                       ELSE IF p.outcome = "SUCCESS" THEN "hold" ELSE "recover"
    BY <1>9 DEF OpeningReturns
  <2>2. p \in Phases /\ report' \in Attempt!Reports /\ UNCHANGED <<exposed, open, fills>> BY <2>1, ReturnsType
  <2>. QED BY <1>9, <2>1, <2>2 DEF OpeningReturns, Again, Places
<1>10. CASE HoldEnds BY <1>10 DEF HoldEnds, Places
<1>11. CASE PrepareClosing
  <2>1. \/ pc' = "closing" /\ NewPair
        \/ pc' \in {"close", "recover"} /\ UNCHANGED pair
    BY <1>11, ClosingStarts
  <2>2. exposed' \subseteq Accounts /\ open' \subseteq Accounts /\ fills' \in Positions
        /\ report' \in Attempt!Reports
    BY <2>1, NewPairType
  <2>3. barrier' \in {barrier, TRUE} BY <1>11, Zenon DEF PrepareClosing
  <2>4. barrier' \in BOOLEAN BY <2>3
  <2>. QED BY <1>11, <2>1, <2>2, <2>4 DEF PrepareClosing, Places
<1>12. CASE ClosingReturns
  <2>1. PICK p \in Attempted : Returns(p)
              /\ IF Again(p, MAX_CLOSING_ATTEMPTS)
                 THEN pc' = "close" /\ UNCHANGED closing
                 ELSE pc' = "recover" /\ closing' = p
    BY <1>12 DEF ClosingReturns
  <2>2. p \in Phases /\ report' \in Attempt!Reports /\ UNCHANGED <<exposed, open, fills>> BY <2>1, ReturnsType
  <2>. QED BY <1>12, <2>1, <2>2 DEF ClosingReturns, Places
<1>13. CASE ClosingRaises BY <1>13 DEF ClosingRaises, Places
<1>14. CASE Recover
  <2>1. CASE /\ StartRecovery
             /\ UNCHANGED <<venue, pair, used, barrier, stop, phases, ready, turn, verdict,
                            fallbacks, result>>
    BY <2>1, QueueType DEF StartRecovery, Bound, Phases, Places
  <2>2. CASE Concludes(fallbacks) BY <2>2, ConcludesType
  <2>. QED BY <1>14, <2>1, <2>2, ConcludesCases DEF Recover
<1>15. CASE Rotate BY <1>15, HeadTailProperties, AppendProperties DEF Rotate, Places
<1>16. CASE Wakes BY <1>16 DEF Wakes, Places
<1>17. CASE Take BY <1>17, HeadTailProperties DEF Take, Places
<1>18. CASE NotSent BY <1>18 DEF NotSent, Places, Verdicts
<1>19. CASE SendResidual
  <2>1. [live |-> TRUE, left |-> known[turn], fill |-> 0] \in Orders BY <1>19 DEF SendResidual, Orders, Positions
  <2>2. residual' \in [Accounts -> Orders] BY <1>19, <2>1 DEF SendResidual
  <2>. QED BY <1>19, <2>2 DEF SendResidual, Places
<1>20. CASE Rejected
  <2>1. [residual[turn] EXCEPT !.live = FALSE] \in Orders
    <3>1. residual[turn] \in Orders BY <1>20 DEF Rejected
    <3>2. \A o \in Orders : [o EXCEPT !.live = FALSE] \in Orders BY DEF Orders
    <3>. QED BY <3>1, <3>2
  <2>2. residual' \in [Accounts -> Orders] BY <1>20, <2>1 DEF Rejected
  <2>. QED BY <1>20, <2>2 DEF Rejected, Places, Verdicts
<1>21. CASE Unproved BY <1>21 DEF Unproved, Places, Verdicts
<1>22. CASE Reconciled
  <2>1. known' \in Positions BY <1>22 DEF Reconciled, Positions, Proved, Orders
  <2>. QED BY <1>22, <2>1 DEF Reconciled, Places, Verdicts
<1>23. CASE AfterOrder
  <2>. DEFINE kind == IF verdict = "unknown" THEN "unknown"
                      ELSE IF verdict = "reconciled" THEN "known" ELSE "unbound"
  <2>1. With(kind) \in SUBSET Kinds /\ With("known") \in SUBSET Kinds BY DEF With, Kinds
  <2>2. CASE Concludes(With(kind)) BY <2>1, <2>2, ConcludesType
  <2>3. CASE /\ fallbacks' = With(IF verdict = "rejected" THEN "known" ELSE kind)
             /\ Requeue
             /\ residual' = [residual EXCEPT ![turn] = NoOrder]
             /\ turn' = "none" /\ verdict' = "none"
             /\ pc' = "loop"
             /\ UNCHANGED <<pos, pair, used, barrier, stop, phases, known, result>>
    <3>0. turn \in Accounts BY <1>23 DEF AfterOrder
    <3>1. \/ UNCHANGED <<pending, ready>>
          \/ /\ pending' = Append(pending, turn)
             /\ ready' = [ready EXCEPT ![turn] = residual[turn].fill > 0]
      BY <2>3 DEF Requeue
    <3>3. (residual[turn].fill > 0) \in BOOLEAN OBVIOUS
    <3>4. pending' \in Seq(Accounts) BY <3>0, <3>1, AppendProperties
    <3>5. ready' \in [Accounts -> BOOLEAN] BY <3>0, <3>1, <3>3
    <3>2. residual' \in [Accounts -> Orders] BY <2>3, Values
    <3>. QED BY <2>1, <2>3, <3>2, <3>4, <3>5 DEF Places, Verdicts
  <2>. QED BY <1>23, <2>2, <2>3, ConcludesCases DEF AfterOrder
<1>24. CASE Settle BY <1>24, ConcludesCases, ConcludesType DEF Settle
<1>25. CASE UNCHANGED vars BY <1>25 DEF vars
<1>. QED BY <1>1, <1>2, <1>3, <1>4, <1>5, <1>6, <1>7, <1>8, <1>9, <1>10, <1>11, <1>12, <1>13,
     <1>14, <1>15, <1>16, <1>17, <1>18, <1>19, <1>20, <1>21, <1>22, <1>23, <1>24, <1>25
     DEF Next, Venue, Cycle, Time
-----------------------------------------------------------------------------
(* The venue. *)

LEMMA FlatIs == \A p \in Positions : (\A a \in Accounts : p[a] = 0) => p = Flat
BY DEF Positions, Flat

LEMMA PairTradesSafe == ASSUME IInv, TypeOK', PairTrades PROVE Safe'
<1>. USE CycleAssumption DEF IInv, Safe, TypeOK, Positions
<1>1. /\ open' \subseteq open
      /\ UNCHANGED <<exposed, report, residual, pc, barrier, used, stop, opening, closing,
                     known, pending, ready, turn, verdict, fallbacks, result>>
      /\ \A a \in Accounts : fills'[a] >= fills[a] /\ (a \notin open => fills'[a] = fills[a])
  BY DEF PairTrades, Attempt!Trade, control, phases, recovery
<1>2. \A a \in Accounts : IF Closes THEN pos[a] = pos'[a] + (fills'[a] - fills[a])
                                    ELSE pos'[a] = pos[a] + (fills'[a] - fills[a])
  BY DEF PairTrades
<1>3. open = {} => open' = {} /\ fills' = fills /\ pos' = pos
  <2>. SUFFICES ASSUME open = {} PROVE open' = {} /\ fills' = fills /\ pos' = pos OBVIOUS
  <2>1. \A a \in Accounts : fills'[a] = fills[a] BY <1>1
  <2>2. ASSUME NEW a \in Accounts PROVE pos'[a] = pos[a]
    <3>1. fills[a] \in Nat /\ pos[a] \in Nat /\ pos'[a] \in Nat OBVIOUS
    <3>2. CASE Closes BY <1>2, <2>1, <3>1, <3>2
    <3>3. CASE ~Closes BY <1>2, <2>1, <3>1, <3>3
    <3>. QED BY <3>2, <3>3
  <2>. QED BY <1>1, <2>1, <2>2
<1>4. Closes => \A a \in Accounts : pos'[a] <= pos[a] /\ pos'[a] + fills'[a] = pos[a] + fills[a] BY <1>1, <1>2
<1>5. Closes /\ pos = Flat => pos' = Flat BY <1>4, FlatIs DEF Flat
<1>6. PairInv' BY <1>1 DEF PairInv
<1>7. OrderInv' /\ HeldInv' BY <1>1 DEF OrderInv, HeldInv, Quiet, Closes
<1>8. OpeningInv'
  <2>1. pc = "opening" => pos' = fills'
    <3>. SUFFICES ASSUME pc = "opening" PROVE \A a \in Accounts : pos'[a] = fills'[a] OBVIOUS
    <3>1. ~Closes /\ pos = fills BY DEF OpeningInv
    <3>. QED BY <1>2, <3>1
  <2>. QED BY <1>1, <1>3, <2>1 DEF OpeningInv, Closes, First
<1>9. ClosingInv' BY <1>1, <1>3, <1>4 DEF ClosingInv, PairInv, Closes
<1>10. RecoverInv' BY <1>1, <1>3 DEF RecoverInv, PairInv, Closes
<1>11. KnownInv'
  <2>. SUFFICES ASSUME pc \in Recovering PROVE KnownInv' BY <1>1 DEF KnownInv
  <2>1. CASE report.state = "final" BY <1>1, <1>3, <2>1 DEF KnownInv, PairInv, Closes, Filled
  <2>2. CASE report.state = "none" /\ Closes /\ closing = NoPhase
    <3>1. closing.outcome # "SUCCESS" BY <2>2 DEF NoPhase
    <3>2. ASSUME NEW a \in Accounts, ~(pc = "after" /\ verdict = "unknown")
          PROVE  pos'[a] + Filled(a)' <= known'[a]
      <4>1. pos[a] + Filled(a) <= known[a] BY <3>2 DEF KnownInv
      <4>2. Filled(a)' = Filled(a) /\ Filled(a) \in Nat BY <1>1 DEF Filled, Orders
      <4>. QED BY <1>1, <1>4, <2>2, <4>1, <4>2
    <3>. QED BY <1>1, <2>2, <3>1, <3>2 DEF KnownInv, Closes
  <2>. QED BY <2>1, <2>2 DEF KnownInv
<1>12. DoneInv' BY <1>1, <1>3, <1>5 DEF DoneInv, Quiet, Closes
<1>. QED BY <1>6, <1>7, <1>8, <1>9, <1>10, <1>11, <1>12

LEMMA ResidualSafe ==
    ASSUME IInv, TypeOK', NEW a \in Accounts, ResidualTrades(a) PROVE Safe'
<1>. USE CycleAssumption DEF IInv, Safe, TypeOK, Positions
<1>1. PICK n \in 0..residual[a].left, live \in BOOLEAN :
           /\ n <= pos[a]
           /\ pos' = [pos EXCEPT ![a] = @ - n]
           /\ residual' = [residual EXCEPT ![a] = [live |-> live, left |-> @.left - n,
                                                   fill |-> @.fill + n]]
  BY DEF ResidualTrades
<1>2. /\ residual[a].live
      /\ UNCHANGED <<exposed, open, fills, report, pc, barrier, used, stop, opening, closing,
                     known, pending, ready, turn, verdict, fallbacks, result>>
  BY DEF ResidualTrades, pair, control, phases, recovery
<1>3. \A b \in Accounts : b # a => residual'[b] = residual[b] /\ pos'[b] = pos[b] BY <1>1
<1>4. pos'[a] + residual'[a].fill = pos[a] + residual[a].fill BY <1>1 DEF Orders
<1>5. pos = Flat => pos' = Flat BY <1>1 DEF Flat
<1>6. ~Quiet /\ pc \in {"sent", "after", "done"} BY <1>2 DEF OrderInv, Quiet
<1>7. pc \in {"sent", "after"} => a = turn BY <1>2 DEF OrderInv
<1>8. pc = "after" => verdict = "unknown" BY <1>6 DEF OrderInv
<1>9. PairInv' /\ OpeningInv' /\ HeldInv' /\ ClosingInv' /\ RecoverInv'
  BY <1>2, <1>6 DEF PairInv, OpeningInv, HeldInv, ClosingInv, RecoverInv, Closes
<1>10. OrderInv' BY <1>2, <1>3, <1>6, <1>7, <1>8 DEF OrderInv, Quiet, Recovering
<1>11. KnownInv'
  <2>1. ASSUME pc = "sent", NEW b \in Accounts
        PROVE  pos'[b] + Filled(b)' = pos[b] + Filled(b)
    BY <1>2, <1>3, <1>4, <1>7, <2>1 DEF Filled
  <2>. QED BY <1>2, <1>5, <1>6, <1>8, <2>1 DEF KnownInv, Closes, Recovering
<1>12. DoneInv' BY <1>2, <1>6 DEF DoneInv
<1>. QED BY <1>9, <1>10, <1>11, <1>12

-----------------------------------------------------------------------------
(* Ends. *)

\* A cycle that ends only has to report the truth.
LEMMA EndedSafe ==
    ASSUME IInv, pc' = "done", UNCHANGED <<pos, residual, exposed, open, fills, report, opening, closing>>,
           result'.inventory = "CONFIRMED_FLAT" => pos = Flat /\ Quiet /\ (~Closes => open = {}),
           result'.outcome = "SUCCESS" => pos = Flat /\ Quiet /\ open = {} /\ Closes
    PROVE  Safe'
<1>1. PairInv' /\ HeldInv' BY DEF IInv, Safe, PairInv, HeldInv, Closes
<1>2. OrderInv' /\ OpeningInv' /\ ClosingInv' /\ RecoverInv' /\ KnownInv'
  BY DEF OrderInv, OpeningInv, ClosingInv, RecoverInv, KnownInv, Recovering
<1>3. DoneInv' BY DEF DoneInv, Closes, Quiet
<1>. QED BY <1>1, <1>2, <1>3 DEF Safe

LEMMA EndsSafe ==
    ASSUME IInv, NEW outcome \in {"FAILED_PREFLIGHT_BLOCKED", "UNKNOWN"}, Ends(outcome)
    PROVE  Safe'
BY EndedSafe DEF Ends, venue, pair, phases

\* What the reports need.
LEMMA Reported ==
    ASSUME NEW seen, NEW at, NEW kinds, NEW barred
    PROVE  /\ Inventory(seen, at, kinds) = "CONFIRMED_FLAT" =>
                 seen /\ at = Flat /\ Resolved /\ kinds \subseteq {"known"} /\ at = Chain(kinds)
           /\ Outcome(seen, at, kinds, barred) = "SUCCESS" =>
                 seen /\ at = Flat /\ Closes /\ closing.outcome = "SUCCESS" /\ kinds = {}
BY DEF Inventory, Outcome, Closes

\* A cycle that concludes with no order under way.
LEMMA ConcludeSafe ==
    ASSUME IInv, NEW seen, NEW at, NEW kinds, NEW barred,
           Conclude(seen, at, kinds, barred),
           seen /\ at = Flat /\ kinds \subseteq {"known"} /\ Resolved /\ at = Chain(kinds)
              => pos = Flat /\ Quiet /\ (~Closes => open = {}),
           seen /\ kinds = {} /\ Closes /\ closing.outcome = "SUCCESS"
              => pos = Flat /\ Quiet /\ open = {}
    PROVE  Safe'
BY Reported, EndedSafe DEF Conclude, venue, pair, phases

LEMMA UnreadSafe == ASSUME IInv, NEW kinds, ConcludeUnread(kinds) PROVE Safe'
<1>1. PICK barred : Conclude(FALSE, Flat, kinds, barred) BY DEF ConcludeUnread
<1>. QED BY <1>1, ConcludeSafe

-----------------------------------------------------------------------------
(* The paired phases. *)

LEMMA FailsSafe == ASSUME IInv, Fails PROVE Safe'
<1>1. PICK outcome \in {"FAILED_PREFLIGHT_BLOCKED", "UNKNOWN"} : Ends(outcome) BY DEF Fails
<1>. QED BY <1>1, EndsSafe

LEMMA PreflightSafe == ASSUME IInv, Preflight PROVE Safe'
<1>1. CASE Ends("FAILED_PREFLIGHT_BLOCKED") BY <1>1, EndsSafe
<1>2. CASE /\ pc = "preflight" /\ pc' = "prepare"
           /\ UNCHANGED <<venue, pair, used, barrier, stop, phases, recovery, result>>
  BY <1>2 DEF IInv, Safe, PairInv, OrderInv, OpeningInv, HeldInv, ClosingInv, RecoverInv, KnownInv, DoneInv,
    Quiet, Closes, First, Recovering, venue, pair, phases, recovery
<1>. QED BY <1>1, <1>2 DEF Preflight

LEMMA PrepareOpeningSafe == ASSUME IInv, PrepareOpening PROVE Safe'
<1>. USE DEF IInv, Safe
<1>1. CASE Ends("FAILED_PREFLIGHT_BLOCKED") BY <1>1, EndsSafe
<1>2. CASE /\ pc = "prepare" /\ pc' = "opening" /\ NewPair
           /\ UNCHANGED <<venue, barrier, stop, phases, recovery, result>>
  <2>1. PairInv' BY <1>2 DEF NewPair, PairInv, Flat
  <2>2. OpeningInv' BY <1>2 DEF NewPair, OpeningInv, venue, phases, Closes
  <2>. QED
    BY <1>2, <2>1, <2>2 DEF OrderInv, HeldInv, ClosingInv, RecoverInv, KnownInv, DoneInv, Quiet, Closes,
      Recovering, venue, phases, recovery
<1>3. CASE /\ pc = "prepare"
           /\ pc' = "prepare" \/ (~First /\ pc' = "recover")
           /\ UNCHANGED <<venue, pair, barrier, stop, phases, recovery, result>>
  BY <1>3 DEF PairInv, OrderInv, OpeningInv, HeldInv, ClosingInv, RecoverInv, KnownInv, DoneInv, Quiet,
    Closes, First, Recovering, venue, pair, phases, recovery
<1>. QED BY <1>1, <1>2, <1>3 DEF PrepareOpening

LEMMA ExposesSafe == ASSUME IInv, NEW a \in Accounts, Exposes(a) PROVE Safe'
<1>1. /\ pc \in {"opening", "closing"} /\ report.state = "none"
      /\ exposed' = exposed \cup {a} /\ open' = open \cup {a}
      /\ UNCHANGED <<fills, report, pos, residual, pc, opening, closing, known, turn, verdict,
                     fallbacks, result>>
  BY DEF Exposes, Attempt!Expose, venue, control, phases, recovery
<1>. QED
  BY <1>1 DEF IInv, Safe, PairInv, OrderInv, OpeningInv, HeldInv, ClosingInv, RecoverInv, KnownInv, DoneInv,
    Quiet, Closes, First, Recovering

\* What an attempt tells the cycle.
LEMMA ReturnsTell ==
    ASSUME IInv, NEW p \in Attempted, Returns(p)
    PROVE  /\ UNCHANGED <<exposed, open, fills>> /\ p.outcome # "none"
           /\ report'.state = "final" => open = {}
           /\ p.resolved => open = {} /\ p.after = pos
           /\ p.outcome # "UNKNOWN" => report'.state = "final"
           /\ p.retry => p.outcome = "PARTIAL" /\ p.resolved /\ fills = Flat
           /\ p.outcome = "SUCCESS" => p.resolved /\ fills = Full
           /\ p.outcome = "FAILED_PREFLIGHT_BLOCKED" => fills = Flat
<1>. USE DEF Returns, Attempt!Report
<1>1. /\ UNCHANGED <<exposed, open, fills>> /\ p.outcome # "none"
      /\ report'.state = "unknown" \/ (report'.state = "final" /\ open = {})
  BY DEF Attempted
<1>2. p.resolved => open = {} /\ p.after = pos OBVIOUS
<1>3. p.retry => p.outcome = "PARTIAL" /\ p.resolved /\ fills = Flat OBVIOUS
<1>4. report'.state = "unknown" => p.outcome = "UNKNOWN" OBVIOUS
<1>5. p.outcome = "SUCCESS" => p.resolved /\ fills = Full BY <1>4
<1>6. p.outcome = "FAILED_PREFLIGHT_BLOCKED" => fills = Flat
  <2>. SUFFICES ASSUME p.outcome = "FAILED_PREFLIGHT_BLOCKED" PROVE fills = Flat OBVIOUS
  <2>1. exposed = {} BY <1>4
  <2>2. \A a \in Accounts : fills[a] = 0 BY <2>1 DEF IInv, Safe, PairInv
  <2>. QED BY <2>2, FlatIs DEF IInv, TypeOK
<1>. QED BY <1>1, <1>2, <1>3, <1>4, <1>5, <1>6

LEMMA OpeningReturnsSafe == ASSUME IInv, OpeningReturns PROVE Safe'
<1>. USE DEF IInv, Safe
<1>1. PICK p \in Attempted :
          /\ Returns(p)
          /\ opening' = p
          /\ pc' = IF Again(p, MAX_OPENING_ATTEMPTS) /\ ~stop THEN "prepare"
                   ELSE IF p.outcome = "SUCCESS" THEN "hold" ELSE "recover"
  BY DEF OpeningReturns
<1>2. /\ pc = "opening" /\ pos = fills /\ closing = NoPhase
      /\ UNCHANGED <<pos, residual, closing, known, turn, verdict, fallbacks, result>>
  BY DEF OpeningReturns, OpeningInv, venue, recovery
<1>3. /\ UNCHANGED <<exposed, open, fills>> /\ p.outcome # "none"
      /\ report'.state = "final" => open = {}
      /\ p.resolved => open = {} /\ p.after = pos
      /\ p.outcome # "UNKNOWN" => report'.state = "final"
      /\ p.retry => p.outcome = "PARTIAL" /\ p.resolved /\ fills = Flat
      /\ p.outcome = "SUCCESS" => p.resolved /\ fills = Full
  BY <1>1, ReturnsTell
<1>4. CASE p.outcome = "SUCCESS"
  <2>1. pc' = "hold" /\ Closes' BY <1>1, <1>3, <1>4 DEF Again, Closes
  <2>. QED
    BY <1>1, <1>2, <1>3, <1>4, <2>1 DEF PairInv, OrderInv, OpeningInv, HeldInv, ClosingInv, RecoverInv,
      KnownInv, DoneInv, Quiet, Closes, First, Recovering
<1>5. CASE p.outcome # "SUCCESS"
  <2>1. (pc' = "prepare" /\ p.retry) \/ pc' = "recover" BY <1>1, <1>5 DEF Again
  <2>2. ~Closes' BY <1>1, <1>5 DEF Closes
  <2>. QED
    BY <1>1, <1>2, <1>3, <2>1, <2>2 DEF PairInv, OrderInv, OpeningInv, HeldInv, ClosingInv, RecoverInv,
      KnownInv, DoneInv, Quiet, Closes, First, Recovering
<1>. QED BY <1>4, <1>5

LEMMA HoldEndsSafe == ASSUME IInv, HoldEnds PROVE Safe'
BY DEF HoldEnds, IInv, Safe, PairInv, OrderInv, OpeningInv, HeldInv, ClosingInv, RecoverInv, KnownInv,
  DoneInv, Quiet, Closes, First, Recovering, venue, pair, phases, recovery

LEMMA PrepareClosingSafe == ASSUME IInv, PrepareClosing PROVE Safe'
<1>. USE DEF IInv, Safe
<1>1. /\ pc = "close" /\ pos = Full /\ report.state = "final" /\ Closes /\ closing = NoPhase
      /\ UNCHANGED <<pos, residual, opening, closing, known, turn, verdict, fallbacks, result>>
  BY DEF PrepareClosing, ClosingInv, venue, phases, recovery
<1>2. CASE pc' = "closing" /\ NewPair
  <2>1. PairInv' BY <1>2 DEF NewPair, PairInv, Flat
  <2>2. \A a \in Accounts : pos'[a] + fills'[a] = Q BY <1>1, <1>2, CycleAssumption DEF NewPair, Flat, Full
  <2>. QED
    BY <1>1, <1>2, <2>1, <2>2 DEF NewPair, OrderInv, OpeningInv, HeldInv, ClosingInv, RecoverInv, KnownInv,
      DoneInv, Quiet, Closes, First, Recovering
<1>3. CASE pc' \in {"close", "recover"} /\ UNCHANGED pair
  BY <1>1, <1>3 DEF PairInv, OrderInv, OpeningInv, HeldInv, ClosingInv, RecoverInv, KnownInv, DoneInv, Quiet,
    Closes, First, Recovering, pair
<1>. QED BY <1>2, <1>3, ClosingStarts

LEMMA ClosingReturnsSafe == ASSUME IInv, ClosingReturns PROVE Safe'
<1>. USE DEF IInv, Safe
<1>1. PICK p \in Attempted :
          /\ Returns(p)
          /\ IF Again(p, MAX_CLOSING_ATTEMPTS)
             THEN pc' = "close" /\ UNCHANGED closing
             ELSE pc' = "recover" /\ closing' = p
  BY DEF ClosingReturns
<1>2. /\ pc = "closing" /\ Closes /\ closing = NoPhase
      /\ \A a \in Accounts : pos[a] + fills[a] = Q
      /\ UNCHANGED <<pos, residual, opening, known, turn, verdict, fallbacks, result>>
  BY DEF ClosingReturns, ClosingInv, venue, recovery
<1>3. /\ UNCHANGED <<exposed, open, fills>> /\ p.outcome # "none"
      /\ report'.state = "final" => open = {}
      /\ p.resolved => open = {} /\ p.after = pos
      /\ p.outcome # "UNKNOWN" => report'.state = "final"
      /\ p.retry => p.outcome = "PARTIAL" /\ p.resolved /\ fills = Flat
      /\ p.outcome = "SUCCESS" => p.resolved /\ fills = Full
      /\ p.outcome = "FAILED_PREFLIGHT_BLOCKED" => fills = Flat
  BY <1>1, ReturnsTell
<1>4. fills = Flat => pos = Full BY <1>2, CycleAssumption DEF TypeOK, Positions, Flat, Full
<1>5. fills = Full => pos = Flat
  <2>1. fills = Full => \A a \in Accounts : pos[a] = 0 BY <1>2, CycleAssumption DEF TypeOK, Positions, Full
  <2>. QED BY <2>1, FlatIs DEF TypeOK
<1>6. CASE p.retry /\ pc' = "close" /\ UNCHANGED closing
  BY <1>2, <1>3, <1>4, <1>6 DEF PairInv, OrderInv, OpeningInv, HeldInv, ClosingInv, RecoverInv, KnownInv,
    DoneInv, Quiet, Closes, First, Recovering
<1>7. CASE pc' = "recover" /\ closing' = p
  <2>1. RecoverInv' BY <1>2, <1>3, <1>4, <1>5, <1>7 DEF RecoverInv, NoPhase, Closes
  <2>. QED
    BY <1>2, <1>3, <1>7, <2>1 DEF PairInv, OrderInv, OpeningInv, HeldInv, ClosingInv, KnownInv, DoneInv,
      Quiet, Closes, First, Recovering
<1>. QED BY <1>1, <1>6, <1>7 DEF Again

LEMMA ClosingRaisesSafe == ASSUME IInv, ClosingRaises PROVE Safe'
BY DEF ClosingRaises, IInv, Safe, PairInv, OrderInv, OpeningInv, HeldInv, ClosingInv, RecoverInv, KnownInv,
  DoneInv, Quiet, Closes, First, Recovering, venue, pair, phases, recovery

-----------------------------------------------------------------------------
(* The recovery. *)

LEMMA RecoverSafe == ASSUME IInv, TypeOK', Recover PROVE Safe'
<1>. USE DEF IInv, Safe
<1>1. pc = "recover" /\ Quiet /\ fallbacks = {} /\ result = NoResult BY DEF Recover, OrderInv, Recovering
<1>2. ASSUME NEW at, NEW barred, Conclude(TRUE, at, fallbacks, barred)
      PROVE  Safe'
  <2>1. ASSUME at = Flat, Resolved, at = Chain(fallbacks)
        PROVE  pos = Flat /\ (~Closes => open = {})
    <3>1. Latest.after = Flat BY <1>1, <2>1 DEF Chain
    <3>2. CASE ~Closes BY <1>1, <3>2, <2>1, <3>1 DEF RecoverInv, NoPhase, Resolved, Latest
    <3>3. CASE Closes /\ closing = NoPhase
      BY <3>1, <3>3, CycleAssumption DEF Latest, HeldInv, Full, Flat, Accounts
    <3>4. CASE Closes /\ closing # NoPhase BY <2>1, <3>4, <1>1, <3>1 DEF Resolved, RecoverInv, Latest
    <3>. QED BY <3>2, <3>3, <3>4
  <2>2. Closes /\ closing.outcome = "SUCCESS" => pos = Flat /\ open = {} BY <1>1 DEF RecoverInv, NoPhase
  <2>. QED BY <1>1, <1>2, <2>1, <2>2, ConcludeSafe
<1>3. CASE ConcludeUnread(fallbacks) BY <1>3, UnreadSafe
<1>4. CASE /\ StartRecovery
           /\ UNCHANGED <<venue, pair, used, barrier, stop, phases, ready, turn, verdict,
                          fallbacks, result>>
  <2>1. /\ pc' = "loop" /\ known' = Bound.after /\ Bound.resolved /\ Recoverable
        /\ UNCHANGED <<pos, residual, exposed, open, fills, report, opening, closing, turn, verdict,
                       fallbacks, result>>
    BY <1>4 DEF StartRecovery, venue, pair, phases
  <2>2. Bound.outcome # "UNKNOWN" /\ opening.outcome \in {"PARTIAL", "SUCCESS"} BY <2>1 DEF Recoverable
  <2>3. \/ report.state = "none" /\ Closes /\ closing = NoPhase /\ known' = Full
        \/ report.state = "final" /\ known' = pos
    <3>1. CASE ~Closes BY <1>1, <2>2, <3>1, <2>1 DEF RecoverInv, NoPhase, Bound, Closes
    <3>2. CASE Closes /\ closing = NoPhase BY <3>2, <1>1, <2>1 DEF Bound, NoPhase, RecoverInv, HeldInv
    <3>3. CASE Closes /\ closing # NoPhase /\ closing.outcome = "FAILED_PREFLIGHT_BLOCKED"
      BY <3>3, <1>1, <2>1 DEF Bound, RecoverInv, HeldInv
    <3>4. CASE Closes /\ closing # NoPhase /\ closing.outcome # "FAILED_PREFLIGHT_BLOCKED"
      BY <1>1, <2>2, <3>4, <2>1 DEF RecoverInv, Bound, TypeOK, Phases, Outcomes
    <3>. QED BY <3>1, <3>2, <3>3, <3>4
  <2>4. KnownInv'
    <3>1. closing.outcome = "SUCCESS" => pos = Flat /\ report.state = "final" BY <1>1 DEF RecoverInv, NoPhase
    <3>2. ASSUME NEW a \in Accounts
          PROVE  /\ pos[a] <= known'[a]
                 /\ report.state = "final" => pos[a] = known'[a]
                 /\ pos[a] \in Nat
      <4>1. pos[a] \in 0..Q BY DEF TypeOK, Positions
      <4>2. CASE known' = pos BY <4>1, <4>2
      <4>3. CASE report.state = "none" /\ known' = Full BY <4>1, <4>3 DEF Full
      <4>. QED BY <2>3, <4>2, <4>3
    <3>3. \A a \in Accounts : Filled(a)' = 0 BY <2>1 DEF Filled
    <3>. QED BY <2>1, <2>3, <3>1, <3>2, <3>3 DEF KnownInv, Closes
  <2>. QED
    BY <1>1, <2>1, <2>4 DEF PairInv, OrderInv, OpeningInv, HeldInv, ClosingInv, RecoverInv, DoneInv, Quiet,
      Closes, Recovering
<1>. QED BY <1>2, <1>3, <1>4 DEF Recover

\* Steps of the loop that send nothing and settle nothing.
LEMMA LoopSafe == ASSUME IInv, Rotate \/ Wakes \/ Take PROVE Safe'
<1>1. /\ pc \in {"loop", "sleep"} /\ pc' \in {"loop", "sleep", "attempt"}
      /\ UNCHANGED <<pos, residual, exposed, open, fills, report, opening, closing, known,
                     fallbacks, result>>
  BY DEF Rotate, Wakes, Take, venue, pair, phases, recovery
<1>2. \A a \in Accounts : Filled(a)' = 0 /\ Filled(a) = 0 BY <1>1 DEF Filled
<1>. QED
  BY <1>1, <1>2 DEF IInv, Safe, PairInv, OrderInv, OpeningInv, HeldInv, ClosingInv, RecoverInv, KnownInv,
    DoneInv, Quiet, Closes, Recovering

LEMMA NotSentSafe == ASSUME IInv, NotSent PROVE Safe'
<1>1. /\ pc = "attempt" /\ pc' = "after"
      /\ UNCHANGED <<pos, residual, exposed, open, fills, report, opening, closing, known, turn,
                     fallbacks, result>>
  BY DEF NotSent, venue, pair, phases
<1>2. \A a \in Accounts : Filled(a)' = 0 /\ Filled(a) = 0 BY <1>1 DEF Filled
<1>. QED
  BY <1>1, <1>2 DEF IInv, Safe, PairInv, OrderInv, OpeningInv, HeldInv, ClosingInv, RecoverInv, KnownInv,
    DoneInv, Quiet, Closes, Recovering

LEMMA SendResidualSafe == ASSUME IInv, SendResidual PROVE Safe'
<1>. USE DEF IInv, Safe
<1>1. /\ pc = "attempt" /\ pc' = "sent" /\ turn \in Accounts
      /\ residual' = [residual EXCEPT ![turn] =
                         [live |-> TRUE, left |-> known[turn], fill |-> 0]]
      /\ UNCHANGED <<pos, exposed, open, fills, report, opening, closing, known, turn, verdict,
                     fallbacks, result>>
  BY DEF SendResidual, pair, phases, recovery, TypeOK
<1>2. /\ residual'[turn].fill = 0
      /\ \A a \in Accounts : a # turn => residual'[a] = residual[a]
  BY <1>1 DEF TypeOK
<1>3. \A a \in Accounts : Filled(a)' = 0 /\ Filled(a) = 0 BY <1>1, <1>2 DEF Filled
<1>4. OrderInv' BY <1>1, <1>2 DEF OrderInv, Quiet, Recovering
<1>. QED
  BY <1>1, <1>3, <1>4 DEF PairInv, OpeningInv, HeldInv, ClosingInv, RecoverInv, KnownInv, DoneInv, Closes,
    Recovering

LEMMA RejectedSafe == ASSUME IInv, Rejected PROVE Safe'
<1>. USE DEF IInv, Safe
<1>1. /\ pc = "sent" /\ pc' = "after" /\ turn \in Accounts /\ residual[turn].fill = 0
      /\ residual' = [residual EXCEPT ![turn].live = FALSE]
      /\ UNCHANGED <<pos, exposed, open, fills, report, opening, closing, known, turn,
                     fallbacks, result>>
  BY DEF Rejected, pair, phases, TypeOK
<1>2. \A a \in Accounts : ~residual'[a].live BY <1>1 DEF OrderInv, TypeOK, Orders
<1>3. \A a \in Accounts : Filled(a)' = 0 /\ Filled(a) = 0 BY <1>1 DEF Filled
<1>. QED
  BY <1>1, <1>2, <1>3 DEF PairInv, OrderInv, OpeningInv, HeldInv, ClosingInv, RecoverInv, KnownInv, DoneInv,
    Quiet, Closes, Recovering

LEMMA UnprovedSafe == ASSUME IInv, Unproved PROVE Safe'
<1>1. /\ pc = "sent" /\ pc' = "after" /\ verdict' = "unknown"
      /\ UNCHANGED <<pos, residual, exposed, open, fills, report, opening, closing, known, turn,
                     fallbacks, result>>
  BY DEF Unproved, venue, pair, phases
<1>. QED
  BY <1>1 DEF IInv, Safe, PairInv, OrderInv, OpeningInv, HeldInv, ClosingInv, RecoverInv, KnownInv, DoneInv,
    Quiet, Closes, Recovering

LEMMA ReconciledSafe == ASSUME IInv, Reconciled PROVE Safe'
<1>. USE DEF IInv, Safe
<1>1. /\ pc = "sent" /\ pc' = "after" /\ turn \in Accounts /\ ~residual[turn].live
      /\ residual[turn].fill <= known[turn]
      /\ known' = [known EXCEPT ![turn] = @ - residual[turn].fill]
      /\ UNCHANGED <<pos, residual, exposed, open, fills, report, opening, closing, turn,
                     fallbacks, result>>
  BY DEF Reconciled, Proved, venue, pair, phases, TypeOK
<1>2. ASSUME NEW a \in Accounts
      PROVE  known'[a] = known[a] - Filled(a) /\ Filled(a)' = 0 /\ Filled(a) \in Nat
             /\ known[a] \in Nat /\ pos[a] \in Nat
  BY <1>1 DEF Filled, TypeOK, Positions, Orders
<1>3. KnownInv' BY <1>1, <1>2 DEF KnownInv, Recovering, Closes
<1>4. OrderInv' BY <1>1 DEF OrderInv, Quiet, Recovering
<1>. QED BY <1>1, <1>3, <1>4 DEF PairInv, OpeningInv, HeldInv, ClosingInv, RecoverInv, DoneInv, Closes, Recovering

\* Proved positions of zero are zero, when nothing is unproved.
LEMMA KnownFlat ==
    ASSUME IInv, pc \in Recovering, ~(pc = "after" /\ verdict = "unknown"), known = Flat
    PROVE  pos = Flat /\ (~Closes => open = {})
<1>. USE DEF IInv, Safe
<1>1. ASSUME NEW a \in Accounts PROVE pos[a] = 0 BY DEF TypeOK, Positions, Filled, Orders, KnownInv, Flat
<1>2. pos = Flat BY <1>1, FlatIs DEF TypeOK
<1>. QED BY <1>2 DEF KnownInv, PairInv

LEMMA SettleSafe == ASSUME IInv, Settle PROVE Safe'
<1>1. pc = "loop" /\ Quiet /\ pc \in Recovering BY DEF Settle, IInv, Safe, OrderInv, Recovering
<1>2. CASE ConcludeUnread(fallbacks) BY <1>2, UnreadSafe
<1>3. CASE Conclude(TRUE, known, fallbacks, barrier)
  BY <1>1, KnownFlat, <1>3, ConcludeSafe DEF IInv, Safe, KnownInv, PairInv
<1>. QED BY <1>2, <1>3 DEF Settle

LEMMA AfterOrderSafe == ASSUME IInv, AfterOrder PROVE Safe'
<1>. DEFINE kind == IF verdict = "unknown" THEN "unknown"
                    ELSE IF verdict = "reconciled" THEN "known" ELSE "unbound"
<1>1. pc = "after" /\ turn \in Accounts BY DEF AfterOrder, IInv, TypeOK
<1>2. CASE ConcludeUnread(With(kind)) BY <1>2, UnreadSafe
<1>3. CASE ConcludeRead(With(kind))
  <2>1. PICK at \in Positions : Conclude(TRUE, at, With(kind), barrier) BY <1>3 DEF ConcludeRead
  <2>2. kind \in With(kind) BY DEF With
  <2>3. ASSUME at = Flat, With(kind) \subseteq {"known"}, at = Chain(With(kind))
        PROVE  pos = Flat /\ Quiet /\ (~Closes => open = {})
    BY <2>2, <2>3, <1>1, KnownFlat DEF Chain, IInv, Safe, OrderInv, Recovering
  <2>. QED BY <2>1, <2>2, <2>3, ConcludeSafe
<1>4. CASE /\ verdict # "unknown" /\ ~barrier
           /\ fallbacks' = With(IF verdict = "rejected" THEN "known" ELSE kind)
           /\ Requeue
           /\ residual' = [residual EXCEPT ![turn] = NoOrder]
           /\ turn' = "none" /\ verdict' = "none"
           /\ pc' = "loop"
           /\ UNCHANGED <<pos, pair, used, barrier, stop, phases, known, result>>
  <2>1. /\ UNCHANGED <<pos, exposed, open, fills, report, opening, closing, known, result>> BY <1>4 DEF pair, phases
  <2>2. \A a \in Accounts : ~residual'[a].live BY <1>1, <1>4 DEF IInv, Safe, TypeOK, OrderInv, Quiet, NoOrder
  <2>3. \A a \in Accounts : Filled(a)' = 0 /\ Filled(a) = 0 BY <1>1, <1>4 DEF Filled
  <2>. QED
    BY <1>1, <1>4, <2>1, <2>2, <2>3 DEF IInv, Safe, PairInv, OrderInv, OpeningInv, HeldInv, ClosingInv,
      RecoverInv, KnownInv, DoneInv, Quiet, Closes, Recovering
<1>. QED BY <1>2, <1>3, <1>4 DEF AfterOrder

-----------------------------------------------------------------------------
(* The theorems. *)

\* What nothing of the cycle or the venue touches stays proved.
LEMMA UntouchedSafe ==
    ASSUME IInv,
           UNCHANGED <<pos, residual, exposed, open, fills, report, pc, opening, closing, known,
                       turn, verdict, fallbacks, result>>
    PROVE  Safe'
<1>1. (PairInv /\ OrderInv /\ OpeningInv /\ HeldInv /\ ClosingInv /\ RecoverInv /\ DoneInv)'
  BY DEF IInv, Safe, PairInv, OrderInv, OpeningInv, HeldInv, ClosingInv, RecoverInv, DoneInv, Quiet, Closes,
    First
<1>2. KnownInv' BY DEF IInv, Safe, KnownInv, Filled, Closes
<1>. QED BY <1>1, <1>2 DEF Safe

LEMMA InvStep == IInv /\ [Next]_vars => IInv'
<1>. SUFFICES ASSUME IInv, [Next]_vars PROVE IInv' OBVIOUS
<1>1. TypeOK' BY TypeStep DEF IInv
<1>. SUFFICES Safe' BY <1>1 DEF IInv
<1>2. ASSUME NEW a \in Accounts, PollElapses(a) PROVE Safe'
  BY <1>2, UntouchedSafe DEF PollElapses, venue, pair, control, phases
<1>3. CASE OwnerStops BY <1>3, UntouchedSafe DEF OwnerStops, venue, pair, control, phases, recovery
<1>4. CASE UNCHANGED vars BY <1>4, UntouchedSafe DEF vars, venue, pair, control, phases, recovery
<1>5. CASE Venue BY <1>1, <1>5, PairTradesSafe, ResidualSafe DEF Venue
<1>6. CASE Cycle
  <2>1. CASE Fails \/ Preflight \/ PrepareOpening \/ OpeningReturns \/ HoldEnds
    BY <2>1, FailsSafe, PreflightSafe, PrepareOpeningSafe, OpeningReturnsSafe, HoldEndsSafe
  <2>2. CASE PrepareClosing \/ ClosingReturns \/ ClosingRaises \/ \E a \in Accounts : Exposes(a)
    BY <2>2, PrepareClosingSafe, ClosingReturnsSafe, ClosingRaisesSafe, ExposesSafe
  <2>3. CASE Recover \/ Rotate \/ Wakes \/ Take \/ NotSent \/ SendResidual
    BY <1>1, <2>3, RecoverSafe, LoopSafe, NotSentSafe, SendResidualSafe
  <2>4. CASE Rejected \/ Unproved \/ Reconciled \/ AfterOrder \/ Settle
    BY <2>4, RejectedSafe, UnprovedSafe, ReconciledSafe, AfterOrderSafe, SettleSafe
  <2>. QED BY <1>6, <2>1, <2>2, <2>3, <2>4 DEF Cycle
<1>. QED BY <1>2, <1>3, <1>4, <1>5, <1>6 DEF Next, Time

\* Every variable keeps its values, budgets are not exceeded and positions do
\* not pass the selected quantity (_PairAttemptBudget).
THEOREM TypeCorrect == Spec => []TypeOK
<1>1. IInv => TypeOK BY DEF IInv
<1>. QED BY <1>1, InitInv, InvStep, PTL DEF Spec

\* A cycle that reports CONFIRMED_FLAT is flat, and stays so
\* (_cycle_classifications).
THEOREM ConfirmedCyclesAreFlat == Spec => []ConfirmedIsFlat
<1>1. IInv => ConfirmedIsFlat
  <2>. SUFFICES ASSUME IInv, result.inventory = "CONFIRMED_FLAT" PROVE pos = Flat /\ Quiet
    BY DEF ConfirmedIsFlat, Quiet
  <2>1. pc = "done" BY DEF IInv, Safe, OrderInv, NoResult
  <2>. QED BY <2>1 DEF IInv, Safe, DoneInv
<1>. QED BY <1>1, InitInv, InvStep, PTL DEF Spec

\* A cycle that reports SUCCESS has closed both positions and left nothing
\* behind (_execute_locked).
THEOREM SuccessesAreFlat == Spec => []SuccessIsFlat
<1>1. IInv => SuccessIsFlat
  <2>. SUFFICES ASSUME IInv, result.outcome = "SUCCESS" PROVE pos = Flat /\ open = {} /\ Quiet
    BY DEF SuccessIsFlat, Quiet
  <2>1. pc = "done" BY DEF IInv, Safe, OrderInv, NoResult
  <2>. QED BY <2>1 DEF IInv, Safe, DoneInv
<1>. QED BY <1>1, InitInv, InvStep, PTL DEF Spec

\* Neither of the two ways a cycle has of calling itself flat is mistaken.
THEOREM FlatIsTrue == Spec => []FlatIsFlat
<1>1. ConfirmedIsFlat /\ SuccessIsFlat => FlatIsFlat BY DEF FlatIsFlat
<1>. QED BY ConfirmedCyclesAreFlat, SuccessesAreFlat, <1>1, PTL

\* Only these steps make an order live.
LEMMA OnlySends ==
    ASSUME IInv, [Next]_vars, NEW a \in Accounts, Sends(a)
    PROVE  SendResidual
<1>. USE DEF Sends
<1>1. UNCHANGED residual => FALSE OBVIOUS
<1>2. ~PairTrades /\ ~OwnerStops /\ ~(\E b \in Accounts : PollElapses(b)) /\ ~UNCHANGED vars
  BY <1>1 DEF PairTrades, OwnerStops, PollElapses, vars, venue
<1>3. ~\E b \in Accounts : ResidualTrades(b) BY DEF ResidualTrades, IInv, TypeOK
<1>4. ~Fails /\ ~Preflight /\ ~PrepareOpening /\ ~OpeningReturns /\ ~HoldEnds
  BY <1>1 DEF Fails, Ends, Preflight, PrepareOpening, OpeningReturns, HoldEnds, venue
<1>5. ~PrepareClosing /\ ~ClosingReturns /\ ~ClosingRaises /\ ~\E b \in Accounts : Exposes(b)
  BY <1>1 DEF PrepareClosing, ClosingReturns, ClosingRaises, Exposes, venue
<1>6. /\ ~\E seen, at, kinds, barred : Conclude(seen, at, kinds, barred)
      /\ ~\E kinds : ConcludeUnread(kinds) \/ ConcludeRead(kinds)
  BY <1>1 DEF Conclude, ConcludeUnread, ConcludeRead, venue
<1>7. ~Recover /\ ~Rotate /\ ~Wakes /\ ~Take /\ ~NotSent
  BY <1>1, <1>6 DEF Recover, Rotate, Wakes, Take, NotSent, venue
<1>8. ~Unproved /\ ~Reconciled /\ ~Settle BY <1>1, <1>6 DEF Unproved, Reconciled, Settle, venue
<1>9. ~Rejected BY DEF Rejected, IInv, TypeOK, Orders
<1>10. ~AfterOrder
  <2>. SUFFICES ASSUME AfterOrder PROVE FALSE OBVIOUS
  <2>1. residual' = [residual EXCEPT ![turn] = NoOrder] BY <1>6 DEF AfterOrder
  <2>. QED BY <2>1 DEF NoOrder, IInv, TypeOK
<1>. QED BY <1>2, <1>3, <1>4, <1>5, <1>7, <1>8, <1>9, <1>10 DEF Next, Venue, Cycle, Time

\* A residual order is never sent behind an unresolved attempt nor beside
\* another one; when the last attempt reported at all, it is the exact
\* position and nothing of the attempt can fill (close_reconciled_positions).
THEOREM ResidualsAreExact == Spec => ResidualIsExact
<1>1. ASSUME IInv, [Next]_vars, NEW a \in Accounts, Sends(a)
      PROVE  /\ report.state # "unknown"
             /\ \A b \in Accounts : ~residual[b].live
             /\ report.state = "final" => open = {} /\ residual'[a].left = pos[a]
  <2>1. SendResidual BY <1>1, OnlySends
  <2>2. pc = "attempt" /\ turn \in Accounts BY <1>1, <2>1 DEF SendResidual, IInv, TypeOK
  <2>3. Quiet /\ (report.state = "none" \/ report.state = "final")
    BY <1>1, <2>2 DEF IInv, Safe, OrderInv, KnownInv, Recovering
  <2>4. a = turn /\ residual'[a].left = known[a] BY <1>1, <2>1, <2>2 DEF SendResidual, Sends, IInv, TypeOK
  <2>5. report.state = "final" => open = {} /\ known[a] = pos[a]
    BY <1>1, <2>2 DEF Filled, IInv, TypeOK, Positions, Safe, PairInv, KnownInv, Recovering
  <2>. QED BY <2>3, <2>4, <2>5 DEF Quiet
<1>2. IInv /\ [Next]_vars =>
         [\A a \in Accounts : Sends(a) =>
            /\ report.state # "unknown"
            /\ \A b \in Accounts : ~residual[b].live
            /\ report.state = "final" => open = {} /\ residual'[a].left = pos[a]]_vars
  BY <1>1
<1>. QED BY <1>2, InitInv, InvStep, PTL DEF Spec, ResidualIsExact

\* A paired attempt only starts when nothing of the one before can still fill
\* (_run_paired_close, the opening loop of _execute_locked).
THEOREM AttemptsAreApart == Spec => AttemptsDoNotOverlap
<1>1. ASSUME IInv, Next, pc' \in {"opening", "closing"}, pc' # pc
      PROVE  open = {}
  <2>1. ~PairTrades /\ ~OwnerStops /\ (\A b \in Accounts : ~PollElapses(b) /\ ~ResidualTrades(b))
    BY <1>1 DEF PairTrades, OwnerStops, PollElapses, ResidualTrades, control
  <2>2. ~Fails /\ ~Preflight /\ ~OpeningReturns /\ ~HoldEnds /\ ~ClosingReturns /\ ~ClosingRaises
    BY <1>1 DEF Fails, Ends, Preflight, OpeningReturns, HoldEnds, ClosingReturns, ClosingRaises
  <2>3. /\ \A seen, at, kinds, barred : ~Conclude(seen, at, kinds, barred)
        /\ \A kinds : ~ConcludeUnread(kinds) /\ ~ConcludeRead(kinds)
    BY <1>1 DEF Conclude, ConcludeUnread, ConcludeRead
  <2>4. ~Recover /\ ~Rotate /\ ~Wakes /\ ~Take /\ ~NotSent /\ ~SendResidual
    BY <1>1, <2>3 DEF Recover, StartRecovery, Rotate, Wakes, Take, NotSent, SendResidual
  <2>5. ~Rejected /\ ~Unproved /\ ~Reconciled /\ ~AfterOrder /\ ~Settle
    BY <1>1, <2>3 DEF Rejected, Unproved, Reconciled, AfterOrder, Settle
  <2>6. \A b \in Accounts : ~Exposes(b) BY <1>1 DEF Exposes, control
  <2>7. PrepareOpening \/ PrepareClosing BY <1>1, <2>1, <2>2, <2>4, <2>5, <2>6 DEF Next, Venue, Cycle, Time
  <2>. QED BY <1>1, <2>7 DEF PrepareOpening, PrepareClosing, IInv, Safe, OpeningInv, ClosingInv, PairInv
<1>2. IInv /\ [Next]_vars => [pc' \in {"opening", "closing"} /\ pc' # pc => open = {}]_vars BY <1>1
<1>. QED BY <1>2, InitInv, InvStep, PTL DEF Spec, AttemptsDoNotOverlap
=============================================================================
