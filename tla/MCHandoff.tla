----------------------------- MODULE MCHandoff -----------------------------
(***************************************************************************)
(* Model checking of the attempts and of the series that strings them      *)
(* together: a paired attempt over an order of two units, which can fill   *)
(* in part; a fan-out attempt over two receivers; a series of two lots, in *)
(* one slice or two.  They share no state: which tells the one that runs.  *)
(***************************************************************************)
EXTENDS Handoff, TLC

CONSTANTS
    FanoutReceivers, FanoutPart, FanoutRestarts, \* of the fan-out
    Target, Slice, SeriesRestarts, MaxForeign,   \* of the series
    r1, r2

\* One unit for each of the two receivers that TLC runs a fan-out over.
Parts == r1 :> 1 @@ r2 :> 1

VARIABLES
    which,
    fOrder, fMatched, fIntents, fSends, fPc, fDispatched, fRequest, fSeen, fFresh,
    fReasons, fEvidence, fResult, fRestarts,
    parent, child, pos, foreign, at, memory, slice, report, life

fanout == <<fOrder, fMatched, fIntents, fSends, fPc, fDispatched, fRequest, fSeen,
            fFresh, fReasons, fEvidence, fResult, fRestarts>>
series == <<parent, child, pos, foreign, at, memory, slice, report, life>>

F == INSTANCE Fanout WITH
    Receivers <- FanoutReceivers, Part <- FanoutPart, MaxRestarts <- FanoutRestarts,
    order <- fOrder, matched <- fMatched, intents <- fIntents, sends <- fSends,
    pc <- fPc, dispatched <- fDispatched, request <- fRequest, seen <- fSeen,
    fresh <- fFresh, reasons <- fReasons, evidence <- fEvidence,
    result <- fResult, restarts <- fRestarts

ASSUME FanoutAssumption == F!AccountsDiffer /\ F!PartsFit

\* The configuration of a series asks for positive quantities.
ASSUME SeriesAssumption == Target \in Nat \ {0} /\ Slice \in Nat \ {0}

S == INSTANCE Series WITH MaxRestarts <- SeriesRestarts, journal <- parent, pc <- at

MCInit ==
    /\ Init /\ F!Init /\ S!Init
    /\ \/ which = "pair"
       \/ which = "fanout" /\ mode = "ack"
       \/ which = "series" /\ mode = "ack"

MCNext ==
    /\ \/ which = "pair" /\ Next /\ UNCHANGED <<fanout, series>>
       \/ which = "fanout" /\ F!Next /\ UNCHANGED <<vars, series>>
       \/ which = "series" /\ S!Next /\ UNCHANGED <<vars, fanout>>
    /\ UNCHANGED which

\* Every await of an engine or of a series is bounded by a timeout, so the one
\* that runs goes on.
PairRuns == which = "pair" /\ Engine /\ UNCHANGED <<which, fanout, series>>
FanoutRuns == which = "fanout" /\ F!Engine /\ UNCHANGED <<which, vars, series>>
SeriesRuns == which = "series" /\ S!Process /\ UNCHANGED <<which, vars, fanout>>

MCSpec ==
    /\ MCInit /\ [][MCNext]_<<vars, fanout, series, which>>
    /\ WF_<<vars, fanout, series, which>>(PairRuns \/ FanoutRuns \/ SeriesRuns)

\* What a fan-out attempt says is true (_finish_fanout), and every order it sent
\* is on record (_execute_fanout).
FanoutIsTrue == F!FanoutIsTrue

\* However many legs it has, a fan-out attempt keeps the promise of a paired one.
FanoutKeepsPromise == F!FanoutKeepsPromise

\* A series says what its orders traded, after any interruption, and begins one
\* slice at a time (_execute_locked, _handle_restart).
SeriesIsTrue == S!SeriesIsTrue

\* What runs has not ended.
Busy ==
    CASE which = "pair" -> Running
      [] which = "fanout" -> F!Running
      [] which = "series" -> S!Busy

\* Whatever the venue does, an attempt ends, a fan-out ends, an execution of a
\* series ends: polls, rounds and waits are bounded.
AttemptsEnd == Busy ~> ~Busy
=============================================================================
