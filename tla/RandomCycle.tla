----------------------------- MODULE RandomCycle -----------------------------
(***************************************************************************)
(* One trading cycle (hood_handoff/random_cycle.py): paired opening        *)
(* attempts within a shared budget, the hold, paired closing attempts,     *)
(* and the reduce-only closure of what is left on either account, each     *)
(* trusted only as far as the evidence of the step before it; then the     *)
(* outcome and the inventory the cycle reports.  An attempt is what        *)
(* PairedAttempt promises.  Reads of an account may lag, fail or show a    *)
(* stranger's identity; positions are counted in the cycle's direction.    *)
(***************************************************************************)
EXTENDS Naturals, Sequences

CONSTANTS
    Q,                    \* the selected quantity
    MAX_OPENING_ATTEMPTS, \* preparations and attempts of the opening
    MAX_CLOSING_ATTEMPTS  \* ... of the closing

ASSUME CycleAssumption ==
    /\ Q \in Nat \ {0}
    /\ MAX_OPENING_ATTEMPTS \in Nat \ {0}
    /\ MAX_CLOSING_ATTEMPTS \in Nat \ {0}

Accounts  == {"source", "receiver"}
Positions == [Accounts -> 0..Q]
Flat      == [a \in Accounts |-> 0]
Full      == [a \in Accounts |-> Q]

VARIABLES
    pos,       \* the position each account really has
    residual,  \* the reduce-only order under way of each account
    exposed, open, fills, report, \* the paired attempt (PairedAttempt)
    pc,        \* where the cycle is
    stop,      \* the owner asked for a stop
    used,      \* attempts used of the current budget
    barrier,   \* an account showed another identity (_identity_barrier)
    opening, closing, \* results of the last opening and closing attempts
    known,     \* the proved positions (current, expected_positions)
    pending,   \* accounts waiting for a residual order
    ready,     \* accounts whose poll interval is over (ready_at)
    turn,      \* the account being worked on
    verdict,   \* what became of its order
    fallbacks, \* kinds of residual results so far
    result     \* what the cycle reports

venue    == <<pos, residual>>
pair     == <<exposed, open, fills, report>>
control  == <<pc, used, barrier>>
phases   == <<opening, closing>>
recovery == <<known, pending, ready, turn, verdict, fallbacks>>
vars     == <<venue, pair, control, stop, phases, recovery, result>>

Attempt == INSTANCE PairedAttempt WITH Legs <- Accounts

-----------------------------------------------------------------------------
(* Results of attempts and residual orders.                                *)

Outcomes == {"SUCCESS", "PARTIAL", "UNKNOWN", "FAILED_PREFLIGHT_BLOCKED"}

\* resolved: both legs are reconciled, position_after included.
Phases  == [outcome : Outcomes \cup {"none"}, retry : BOOLEAN,
            resolved : BOOLEAN, after : Positions]
NoPhase == [outcome |-> "none", retry |-> FALSE, resolved |-> FALSE, after |-> Flat]

\* live: the order can still fill; left: how much.
Orders  == {o \in [live : BOOLEAN, left : 0..Q, fill : 0..Q] : o.left + o.fill <= Q}
NoOrder == [live |-> FALSE, left |-> 0, fill |-> 0]

\* A residual result names the position after it, or does not, or is UNKNOWN.
Kinds    == {"known", "unbound", "unknown"}
Verdicts == {"none", "reconciled", "rejected", "unsent", "unknown"}

Inventories == {"none", "CONFIRMED_FLAT", "KNOWN_RESIDUAL", "UNKNOWN"}
NoResult    == [outcome |-> "none", inventory |-> "none"]

Init ==
    /\ pos = Flat /\ residual = [a \in Accounts |-> NoOrder]
    /\ Attempt!Init
    /\ pc = "preflight" /\ used = 0 /\ barrier = FALSE /\ stop = FALSE
    /\ opening = NoPhase /\ closing = NoPhase
    /\ known = Flat /\ pending = <<>> /\ ready = [a \in Accounts |-> TRUE]
    /\ turn = "none" /\ verdict = "none" /\ fallbacks = {}
    /\ result = NoResult

-----------------------------------------------------------------------------
(* The venue.  Opening orders add to the positions; closing and residual   *)
(* orders are reduce-only.                                                 *)

Closes == opening.outcome = "SUCCESS"

PairTrades ==
    /\ Attempt!Trade
    /\ pos' \in Positions
    /\ \A a \in Accounts :
          IF Closes THEN pos[a] = pos'[a] + (fills'[a] - fills[a])
                    ELSE pos'[a] = pos[a] + (fills'[a] - fills[a])
    /\ UNCHANGED <<residual, control, stop, phases, recovery, result>>

ResidualTrades(a) ==
    /\ residual[a].live
    /\ \E n \in 0..residual[a].left, live \in BOOLEAN :
          /\ n <= pos[a]
          /\ pos' = [pos EXCEPT ![a] = @ - n]
          /\ residual' = [residual EXCEPT ![a] = [live |-> live, left |-> @.left - n,
                                                  fill |-> @.fill + n]]
    /\ UNCHANGED <<pair, control, stop, phases, recovery, result>>

PollElapses(a) ==
    /\ ~ready[a]
    /\ ready' = [ready EXCEPT ![a] = TRUE]
    /\ UNCHANGED <<venue, pair, control, stop, phases, known, pending, turn, verdict,
                   fallbacks, result>>

OwnerStops ==
    /\ ~stop /\ stop' = TRUE
    /\ UNCHANGED <<venue, pair, control, phases, recovery, result>>

-----------------------------------------------------------------------------
(* The report.                                                             *)

Latest == IF closing = NoPhase THEN opening ELSE closing

\* The last positions the results establish (_inventory_chain_matches_final).
Chain(kinds) == IF kinds = {} THEN Latest.after ELSE known

Resolved == \A p \in {opening, closing} \ {NoPhase} : p.resolved

\* Mutant of Inventory: the final reads are not compared with the chain.
InventoryUnchained(seen, at, kinds) ==
    IF ~seen THEN "UNKNOWN"
    ELSE IF at # Flat THEN "KNOWN_RESIDUAL"
    ELSE IF Resolved /\ kinds \subseteq {"known"} THEN "CONFIRMED_FLAT"
    ELSE "UNKNOWN"

\* _cycle_classifications, the inventory.
Inventory(seen, at, kinds) ==
    IF ~seen THEN "UNKNOWN"
    ELSE IF at # Flat THEN "KNOWN_RESIDUAL"
    ELSE IF Resolved /\ kinds \subseteq {"known"} /\ at = Chain(kinds)
    THEN "CONFIRMED_FLAT"
    ELSE "UNKNOWN"

\* _execute_locked: what is not proved stays UNKNOWN.
Outcome(seen, at, kinds, barred) ==
    LET flat == seen /\ at = Flat IN
    IF ~Closes THEN IF seen /\ "unknown" \notin kinds THEN opening.outcome ELSE "UNKNOWN"
    ELSE IF barred THEN "UNKNOWN"
    ELSE IF closing.outcome = "SUCCESS" /\ kinds = {} /\ flat THEN "SUCCESS"
    ELSE IF kinds = {"known"} /\ flat THEN "PARTIAL"
    ELSE IF seen /\ "unknown" \notin kinds /\ closing.outcome \in {"SUCCESS", "PARTIAL"}
    THEN "PARTIAL"
    ELSE "UNKNOWN"

\* The locals of the residual closure are gone when the cycle ends.
Forgets ==
    /\ known' = Flat /\ pending' = <<>> /\ ready' = [a \in Accounts |-> TRUE]
    /\ turn' = "none" /\ verdict' = "none"

\* The cycle ends on the positions read last, or on none.
Conclude(seen, at, kinds, barred) ==
    /\ result' = [outcome   |-> Outcome(seen, at, kinds, barred),
                  inventory |-> Inventory(seen, at, kinds)]
    /\ fallbacks' = kinds /\ barrier' = barred
    /\ pc' = "done" /\ Forgets
    /\ UNCHANGED <<venue, pair, used, stop, phases>>

\* A last read: positions, a failure, or another identity.
ConcludeUnread(kinds) == \E barred \in {barrier, TRUE} : Conclude(FALSE, Flat, kinds, barred)
ConcludeRead(kinds)   == \E at \in Positions : Conclude(TRUE, at, kinds, barrier)

-----------------------------------------------------------------------------
(* The paired phases.                                                      *)

\* Nothing of the cycle was sent, or an exception tells nothing.
Ends(outcome) ==
    /\ result' = [outcome |-> outcome, inventory |-> "UNKNOWN"]
    /\ pc' = "done" /\ Forgets
    /\ UNCHANGED <<venue, pair, used, barrier, stop, phases, fallbacks>>

First == opening = NoPhase

\* execute: before the first attempt an exception is a refusal, afterwards, the
\* cycle's own journal included, an unknown outcome.
Fails ==
    /\ pc # "done"
    /\ Ends(IF pc \in {"preflight", "prepare"} /\ First
            THEN "FAILED_PREFLIGHT_BLOCKED" ELSE "UNKNOWN")

Preflight ==
    /\ pc = "preflight"
    /\ IF stop THEN Ends("FAILED_PREFLIGHT_BLOCKED")
       ELSE /\ pc' = "prepare"
            /\ UNCHANGED <<venue, pair, used, barrier, stop, phases, recovery, result>>

NewPair ==
    /\ exposed' = {} /\ open' = {} /\ fills' = Flat
    /\ report' = [state |-> "none", fills |-> Flat]

\* _prepare_open_with_retries.  The stop is looked at after the first
\* preparation, and not after those of a retry.
PrepareOpening ==
    /\ pc = "prepare"
    /\ \/ /\ ~(First /\ stop)
          /\ pc' = "opening" /\ used' = used + 1
          /\ NewPair
          /\ UNCHANGED <<venue, barrier, stop, phases, recovery, result>>
       \/ First /\ stop /\ Ends("FAILED_PREFLIGHT_BLOCKED")
       \/ /\ \/ used + 1 < MAX_OPENING_ATTEMPTS /\ pc' = "prepare"
             \/ ~First /\ pc' = "recover"
          /\ used' = used + 1
          /\ UNCHANGED <<venue, pair, barrier, stop, phases, recovery, result>>
       \/ First /\ Ends("FAILED_PREFLIGHT_BLOCKED")

Exposes(a) ==
    /\ pc \in {"opening", "closing"}
    /\ Attempt!Expose(a)
    /\ UNCHANGED <<venue, control, stop, phases, recovery, result>>

\* What an attempt returns to the cycle: SUCCESS when both orders filled with
\* each other, a retry only when nothing filled.  A leg that is reconciled is
\* ended, whatever the outcome.
Returns(p) ==
    /\ Attempt!Report
    /\ p.after = IF p.resolved THEN pos ELSE Flat
    /\ p.resolved => open = {}
    /\ p.retry => p.outcome = "PARTIAL" /\ p.resolved /\ fills = Flat
    /\ IF report'.state = "unknown" THEN p.outcome = "UNKNOWN" /\ report'.fills = Flat
       ELSE \/ p.outcome = "SUCCESS" /\ p.resolved /\ fills = Full
            \/ p.outcome = "PARTIAL"
            \/ p.outcome = "FAILED_PREFLIGHT_BLOCKED" /\ exposed = {}

Attempted == {p \in Phases : p.outcome # "none"}

\* Mutant of Again: a partial outcome is enough for another attempt.
AgainPartial(p, limit) == p.outcome \in {"PARTIAL", "UNKNOWN"} /\ used < limit

Again(p, limit) == p.retry /\ used < limit

OpeningReturns ==
    /\ pc = "opening"
    /\ \E p \in Attempted :
          /\ Returns(p)
          /\ opening' = p
          /\ pc' = IF Again(p, MAX_OPENING_ATTEMPTS) /\ ~stop THEN "prepare"
                   ELSE IF p.outcome = "SUCCESS" THEN "hold" ELSE "recover"
    /\ barrier' \in {barrier, TRUE}
    /\ UNCHANGED <<venue, used, stop, closing, recovery, result>>

\* _wait_hold: the deadline, or the owner's stop.
HoldEnds ==
    /\ pc = "hold"
    /\ pc' = "close" /\ used' = 0
    /\ UNCHANGED <<venue, pair, barrier, stop, phases, recovery, result>>

\* _run_paired_close up to the attempt: positions and identities are those the
\* opening established, or the closing is blocked; a read or a price that may do
\* better next time is retried.
PrepareClosing ==
    /\ pc = "close" /\ used < MAX_CLOSING_ATTEMPTS
    /\ used' = used + 1
    /\ \/ pc' = "closing" /\ NewPair /\ UNCHANGED barrier
       \/ used' < MAX_CLOSING_ATTEMPTS /\ pc' = "close" /\ UNCHANGED <<pair, barrier>>
       \/ pc' = "recover" /\ barrier' \in {barrier, TRUE} /\ UNCHANGED pair
    /\ UNCHANGED <<venue, stop, phases, recovery, result>>

ClosingReturns ==
    /\ pc = "closing"
    /\ \E p \in Attempted :
          /\ Returns(p)
          /\ IF Again(p, MAX_CLOSING_ATTEMPTS)
             THEN pc' = "close" /\ UNCHANGED closing
             ELSE pc' = "recover" /\ closing' = p
    /\ barrier' \in {barrier, TRUE}
    /\ UNCHANGED <<venue, used, stop, opening, recovery, result>>

\* An exception out of the attempt, such as a journal of the child that cannot
\* be written, is taken for a closing that never began.
ClosingRaises ==
    /\ pc = "closing"
    /\ pc' = "recover"
    /\ UNCHANGED <<venue, pair, used, barrier, stop, phases, recovery, result>>

-----------------------------------------------------------------------------
(* Residual closure.                                                       *)

\* The attempt that binds the recovery: a closing that was refused binds nothing.
Bound == IF closing.outcome \in {"none", "FAILED_PREFLIGHT_BLOCKED"} THEN opening ELSE closing

Recoverable ==
    /\ ~barrier
    /\ opening.outcome \in {"PARTIAL", "SUCCESS"}
    /\ Bound.outcome # "UNKNOWN"

Queue(at) == (IF at["source"] > 0 THEN <<"source">> ELSE <<>>)
                \o (IF at["receiver"] > 0 THEN <<"receiver">> ELSE <<>>)

\* Mutant of StartRecovery: the fresh read is the new baseline.
StartRecoveryByRead ==
    /\ Recoverable /\ Bound.resolved
    /\ known' \in Positions /\ pending' = Queue(known')
    /\ pc' = "loop"

\* Fresh reads show the positions the bound attempt established.
StartRecovery ==
    /\ Recoverable /\ Bound.resolved
    /\ known' = Bound.after /\ pending' = Queue(known')
    /\ pc' = "loop"

\* _fallback_residuals: nothing is closed unless the reads, the identities and
\* the evidence agree.
Recover ==
    /\ pc = "recover"
    /\ \/ /\ StartRecovery
          /\ UNCHANGED <<venue, pair, used, barrier, stop, phases, ready, turn, verdict,
                         fallbacks, result>>
       \/ ConcludeUnread(fallbacks)
       \/ \E at \in Positions :
             \/ /\ Recoverable /\ Bound.resolved => at # Bound.after
                /\ Conclude(TRUE, at, fallbacks, barrier)
             \/ /\ Recoverable
                /\ Conclude(TRUE, at, fallbacks, TRUE)

Waiting == {pending[i] : i \in DOMAIN pending}

\* A delayed account goes behind the others; when all are delayed, the loop
\* sleeps until one is not.
Rotate ==
    /\ pc = "loop" /\ pending # <<>> /\ ~ready[Head(pending)]
    /\ pending' = Append(Tail(pending), Head(pending))
    /\ pc' = IF \E a \in Waiting : ready[a] THEN "loop" ELSE "sleep"
    /\ UNCHANGED <<venue, pair, used, barrier, stop, phases, known, ready, turn, verdict,
                   fallbacks, result>>

Wakes ==
    /\ pc = "sleep" /\ \E a \in Waiting : ready[a]
    /\ pc' = "loop"
    /\ UNCHANGED <<venue, pair, used, barrier, stop, phases, recovery, result>>

Take ==
    /\ pc = "loop" /\ pending # <<>> /\ ready[Head(pending)]
    /\ turn' = Head(pending) /\ pending' = Tail(pending)
    /\ pc' = "attempt"
    /\ UNCHANGED <<venue, pair, used, barrier, stop, phases, known, ready, verdict,
                   fallbacks, result>>

\* _fallback_one before the send: no nonce, a position that changed, a refused
\* or late order leave the account out; an unknown market stops all, and so does
\* another identity.
NotSent ==
    /\ pc = "attempt"
    /\ pc' = "after"
    /\ verdict' \in {"unsent", "unknown"}
    /\ barrier' \in {barrier, TRUE}
    /\ UNCHANGED <<venue, pair, used, stop, phases, known, pending, ready, turn,
                   fallbacks, result>>

\* A reduce-only MARKET of the exact residual, the account read once more.
SendResidual ==
    /\ pc = "attempt"
    /\ residual' = [residual EXCEPT ![turn] = [live |-> TRUE, left |-> known[turn], fill |-> 0]]
    /\ pc' = "sent"
    /\ UNCHANGED <<pos, pair, used, barrier, stop, phases, recovery, result>>

\* The venue rejects the order.
Rejected ==
    /\ pc = "sent" /\ residual[turn].live /\ residual[turn].fill = 0
    /\ residual' = [residual EXCEPT ![turn].live = FALSE]
    /\ verdict' = "rejected" /\ pc' = "after"
    /\ UNCHANGED <<pos, pair, used, barrier, stop, phases, known, pending, ready, turn,
                   fallbacks, result>>

\* The answer, the order, its receipts or the position stay unproved.
Unproved ==
    /\ pc = "sent"
    /\ verdict' = "unknown" /\ pc' = "after"
    /\ barrier' \in {barrier, TRUE}
    /\ UNCHANGED <<venue, pair, used, stop, phases, known, pending, ready, turn,
                   fallbacks, result>>

\* The terminal order, its receipts and the position agree.
Proved ==
    /\ ~residual[turn].live /\ residual[turn].fill <= known[turn]
    /\ known' = [known EXCEPT ![turn] = @ - residual[turn].fill]

Reconciled ==
    /\ pc = "sent"
    /\ Proved
    /\ verdict' = "reconciled" /\ pc' = "after"
    /\ UNCHANGED <<venue, pair, used, barrier, stop, phases, pending, ready, turn,
                   fallbacks, result>>

With(kind) == fallbacks \cup {kind}

\* Mutant of Requeue: at once and in front.
RequeueInFront ==
    IF verdict = "reconciled" /\ known[turn] > 0
    THEN pending' = <<turn>> \o pending /\ UNCHANGED ready
    ELSE UNCHANGED <<pending, ready>>

\* Mutant of Requeue: a rejected account is tried again.
RequeueRejected ==
    IF verdict # "unsent" /\ known[turn] > 0
    THEN /\ pending' = Append(pending, turn)
         /\ ready' = [ready EXCEPT ![turn] = residual[turn].fill > 0]
    ELSE UNCHANGED <<pending, ready>>

\* What is left is tried again behind the others, after a poll interval when
\* nothing filled; a refused account is left out.
Requeue ==
    IF verdict = "reconciled" /\ known[turn] > 0
    THEN /\ pending' = Append(pending, turn)
         /\ ready' = [ready EXCEPT ![turn] = residual[turn].fill > 0]
    ELSE UNCHANGED <<pending, ready>>

\* After every order both accounts are read again: an unknown result or another
\* identity stops everything, and so does a position that was not expected.
AfterOrder ==
    /\ pc = "after"
    /\ LET kind == IF verdict = "unknown" THEN "unknown"
                   ELSE IF verdict = "reconciled" THEN "known" ELSE "unbound"
       IN  \/ ConcludeUnread(With(kind))
           \/ (verdict = "unknown" \/ barrier) /\ ConcludeRead(With(kind))
           \/ /\ verdict # "unknown" /\ ~barrier
              /\ fallbacks' = With(IF verdict = "rejected" THEN "known" ELSE kind)
              /\ Requeue
              /\ residual' = [residual EXCEPT ![turn] = NoOrder]
              /\ turn' = "none" /\ verdict' = "none"
              /\ pc' = "loop"
              /\ UNCHANGED <<pos, pair, used, barrier, stop, phases, known, result>>

\* A last read shows what is known, or nothing is reported.
Settle ==
    /\ pc = "loop" /\ pending = <<>>
    /\ Conclude(TRUE, known, fallbacks, barrier) \/ ConcludeUnread(fallbacks)

-----------------------------------------------------------------------------
Venue == PairTrades \/ \E a \in Accounts : ResidualTrades(a)

Cycle ==
    \/ Fails \/ Preflight \/ PrepareOpening \/ OpeningReturns \/ HoldEnds
    \/ PrepareClosing \/ ClosingReturns \/ ClosingRaises
    \/ \E a \in Accounts : Exposes(a)
    \/ Recover \/ Rotate \/ Wakes \/ Take \/ NotSent \/ SendResidual
    \/ Rejected \/ Unproved \/ Reconciled \/ AfterOrder \/ Settle

Time == OwnerStops \/ \E a \in Accounts : PollElapses(a)

Next == Venue \/ Cycle \/ Time

Spec == Init /\ [][Next]_vars

\* Every await of the cycle is bounded, and a poll interval ends.
FairSpec == Spec /\ WF_vars(Cycle) /\ \A a \in Accounts : WF_vars(PollElapses(a))

-----------------------------------------------------------------------------
(* Properties.                                                             *)

Places == {"preflight", "prepare", "opening", "hold", "close", "closing", "recover",
           "loop", "sleep", "attempt", "sent", "after", "done"}

\* The values every variable can take; budgets are never exceeded and positions
\* never pass the selected quantity.
TypeOK ==
    /\ pos \in Positions /\ residual \in [Accounts -> Orders]
    /\ exposed \subseteq Accounts /\ open \subseteq Accounts
    /\ fills \in Positions /\ report \in Attempt!Reports
    /\ pc \in Places /\ stop \in BOOLEAN /\ barrier \in BOOLEAN
    /\ used \in Nat
    /\ pc \in {"preflight", "prepare"} => used < MAX_OPENING_ATTEMPTS
    /\ pc = "opening" => used <= MAX_OPENING_ATTEMPTS
    /\ pc \in {"close", "closing"} => used <= MAX_CLOSING_ATTEMPTS
    /\ opening \in Phases /\ closing \in Phases
    /\ known \in Positions /\ pending \in Seq(Accounts)
    /\ ready \in [Accounts -> BOOLEAN]
    /\ turn \in Accounts \cup {"none"} /\ verdict \in Verdicts
    /\ pc \in {"attempt", "sent", "after"} => turn \in Accounts
    /\ fallbacks \subseteq Kinds
    /\ result \in [outcome : Outcomes \cup {"none"}, inventory : Inventories]

\* A cycle that reports CONFIRMED_FLAT is flat and stays so, although every
\* read it made may have been stale and orders of a closing whose attempt
\* raised may still rest (_cycle_classifications).
ConfirmedIsFlat ==
    result.inventory = "CONFIRMED_FLAT" => pos = Flat /\ \A a \in Accounts : ~residual[a].live

\* A cycle that reports SUCCESS closed both positions with each other and left
\* no order behind (_execute_locked).
SuccessIsFlat ==
    result.outcome = "SUCCESS" =>
        pos = Flat /\ open = {} /\ \A a \in Accounts : ~residual[a].live

\* Neither way a cycle has of calling itself flat is ever mistaken
\* (_cycle_classifications, _execute_locked).
FlatIsFlat == ConfirmedIsFlat /\ SuccessIsFlat

\* A paired attempt only starts when nothing of the one before can still fill
\* (retryable_pair, _run_paired_close).
AttemptsDoNotOverlap ==
    [][pc' \in {"opening", "closing"} /\ pc' # pc => open = {}]_vars

Sends(a) == ~residual[a].live /\ residual'[a].live

\* A residual order is never sent behind an unresolved attempt, nor beside
\* another one, and when the last attempt reported at all, none of its orders
\* can fill any more and the quantity is exactly the position, however stale the
\* reads (_fallback_residuals, close_reconciled_positions).
ResidualIsExact ==
    [][\A a \in Accounts : Sends(a) =>
          /\ report.state # "unknown"
          /\ \A b \in Accounts : ~residual[b].live
          /\ report.state = "final" => open = {} /\ residual'[a].left = pos[a]]_vars

\* "Neither caller may overlap unresolved writes": no residual order is sent
\* while an order of a paired attempt may still fill (close_reconciled_positions).
NoOverlap == [][\A a \in Accounts : Sends(a) => open = {}]_vars

\* An illiquid account does not starve the other: one that waits for its
\* residual order gets its turn (the rotation of close_reconciled_positions).
NoStarvation == \A a \in Accounts : a \in Waiting ~> (turn = a \/ pc = "done")

\* The cycle ends, unless the venue answers residual orders without a fill for
\* ever: nothing else is retried without a bound.
EndsOrUnfilled ==
    <>(pc = "done") \/ []<>(pc = "after" /\ verdict = "reconciled" /\ residual[turn].fill = 0)
=============================================================================
