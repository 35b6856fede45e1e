------------------------------ MODULE MCTestnet -----------------------------
(***************************************************************************)
(* Model checking of the testnet lifecycles, side by side: the two-account *)
(* RISEx one, the one-account one, the Nado one, the Lighter one, the two  *)
(* of Extended, and the owner that runs a RISEx and a Nado one together.   *)
(* Each has its own process, venue and journal: which tells the one that   *)
(* runs.                                                                   *)
(***************************************************************************)
EXTENDS TwoAccount

CONSTANTS Amount, MAX_CLOSE_ATTEMPTS, Lots, Polls, Stores, MaxFaults, EntryMayOverrun,
    Processes, MAX_RECONCILE_READS

ASSUME AmountAssumption == Amount \in Nat \ {0}
ASSUME LotsAssumption == Lots \in Nat \ {0}
ASSUME MarginAssumption == EntryMayOverrun \in BOOLEAN

VARIABLES
    which,
    nOrder, late, intents, status, nPc, cur, task, nSeen, terminal, nOutcome, nRuns,
    tx, nonce, life, row, lPhase, step, mine, using, view, polled, result, started,
    main, call, settled, barrier, relay, gates, aborting, worker, progress, blocked, risex, loop,
    flags, reports, wrote, exposed, faults,
    orders, cancelling, expired, rIntents, cancels, rOutcome, stream, rSeen, evidence, rPc, rResult, rRuns,
    xOrders, xCancelling, xExpired, views, xIntents, known, signed, xLifecycle, journal, xReport, xPc,
    xCur, reads, acts, xPhase, xEvidence, xLate, sent

nado    == <<nOrder, late, intents, status, nPc, cur, task, nSeen, terminal, nOutcome, nRuns>>
lighter == <<tx, nonce, life, row, lPhase, step, mine, using, view, polled, result, started>>
funding == <<main, call, settled, barrier, relay, gates, aborting, worker, progress, blocked, risex,
             loop, flags, reports, wrote, exposed, faults>>
levelC  == <<orders, cancelling, expired, rIntents, cancels, rOutcome, stream, rSeen, evidence, rPc,
             rResult, rRuns>>
extended == <<xOrders, xCancelling, xExpired, views, xIntents, known, signed, xLifecycle, journal, xReport,
              xPc, xCur, reads, acts, xPhase, xEvidence, xLate, sent>>
runner   == <<xIntents, known, signed, xLifecycle, journal, xReport, xPc, xCur, reads>>
driven   == <<acts, xPhase, xEvidence, xLate, sent>>

N == INSTANCE NadoLifecycle WITH Q <- Amount, order <- nOrder, pc <- nPc, seen <- nSeen,
                                 outcome <- nOutcome, runs <- nRuns
L == INSTANCE LighterLevelC WITH phase <- lPhase
R == INSTANCE RisexLevelC WITH MaxRuns <- Processes, intents <- rIntents, outcome <- rOutcome,
                               seen <- rSeen, pc <- rPc, result <- rResult, runs <- rRuns
X == INSTANCE ExtendedLevelC WITH orders <- xOrders, cancelling <- xCancelling, expired <- xExpired,
        intents <- xIntents, lifecycle <- xLifecycle, report <- xReport, pc <- xPc, cur <- xCur
Y == INSTANCE ExtendedLifecycle WITH orders <- xOrders, cancelling <- xCancelling, expired <- xExpired,
        phase <- xPhase, evidence <- xEvidence, late <- xLate
F == INSTANCE FundingOwner WITH late <- settled, nado <- worker

TestnetInit ==
    /\ Init /\ N!Init /\ L!Init /\ F!Init /\ R!Init /\ X!Init /\ Y!Init
    /\ which \in {"two", "nado", "lighter", "funding", "level_C", "sealed", "driven"}

TestnetNext ==
    /\ \/ which = "two"     /\ Next   /\ UNCHANGED <<nado, lighter, funding, levelC, extended>>
       \/ which = "nado"    /\ N!Next /\ UNCHANGED <<vars, lighter, funding, levelC, extended>>
       \/ which = "lighter" /\ L!Next /\ UNCHANGED <<vars, nado, funding, levelC, extended>>
       \/ which = "funding" /\ F!Next /\ UNCHANGED <<vars, nado, lighter, levelC, extended>>
       \/ which = "level_C" /\ R!Next /\ UNCHANGED <<vars, nado, lighter, funding, extended>>
       \/ which = "sealed"  /\ X!Next /\ UNCHANGED <<vars, nado, lighter, funding, levelC, driven>>
       \/ which = "driven"  /\ Y!Next /\ UNCHANGED <<vars, nado, lighter, funding, levelC, runner>>
    /\ UNCHANGED which

TestnetSpec ==
    TestnetInit /\ [][TestnetNext]_<<which, vars, nado, lighter, funding, levelC, extended>>
                /\ (which = "funding" => F!Fairness)

\* What a lifecycle, or the owner of two of them, says at its end is true of
\* the venue and stays so, whatever earlier runs sent and whatever is delayed.
ReportsAreTrue == ReportIsTrue /\ N!CompleteIsFlat /\ L!CompleteIsFlat /\ F!OwnerIsTrue /\ R!CompleteIsFlat
                  /\ X!CompleteIsSettled /\ Y!CompleteIsSettled /\ Y!ExposedIsHeld

\* Two orders of one lifecycle that open or close a position can never both
\* trade: a crash, a lost answer or a delay does not make one of them two.
OneOrderAtATime == N!OneOrderAtATime /\ L!MarketStandsAlone /\ R!OneOrderAtATime /\ X!CloseStandsAlone

\* RISEx never waits with a position for a Nado that is gone.
PeerIsReleased == F!PeerIsReleased
=============================================================================
