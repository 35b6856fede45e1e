----------------------------- MODULE CycleKernel -----------------------------
(***************************************************************************)
(* The replay kernel CycleKernel (cycle.py), one lane: quotes are admitted *)
(* one after another, each becomes a cycle (a maker entry on RISEX, its    *)
(* hedge on LIGHTER, a maker exit, its closes, and the forced unwinding),  *)
(* and every cycle that ended is kept and still audited against the trades *)
(* that come late.                                                         *)
(*                                                                         *)
(* The kernel is sequential: k is the state of a cycle, and a handler is an *)
(* operator on it.  It learns the time only from the events it is given, so *)
(* its clock (k.cur) lags behind now, and a trade has two instants: at, its *)
(* receipt, which says whether the quote was open, and the present, when it *)
(* is ready to be processed.  Quantities are lots; a book is its depth, and *)
(* prices only decide whether a quote crosses.                             *)
(***************************************************************************)
EXTENDS Integers, Sequences, FiniteSetsExt

CONSTANTS
    Target,         \* lots of an entry quote
    LighterLeast,   \* smallest operation on LIGHTER
    Lag,            \* activation, cancel and taker delays
    CancelAfter,    \* entry_cancel_after_activation_ns
    MaxHold,        \* max_hold_ns
    Retention,      \* terminal_retention_capacity
    Models,         \* fill models, "NONE" for the first kernel
    Rounds,         \* boundaries that one call of _run_due_until runs, at most
    LastInstant, Silence, FeedEvents   \* bounds of the feed

\* Every delay of CyclePolicy is positive, and so is a quote.
ASSUME CycleAssumption ==
    /\ {Target, Lag, CancelAfter, MaxHold, Retention, Silence} \subseteq Nat \ {0}
    /\ {LighterLeast, Rounds, LastInstant, FeedEvents} \subseteq Nat

Unset == 1000     \* an instant that is not set

Entering == {"ENTRY_WAIT", "ENTRY_ACTIVE", "ENTRY_HEDGE_WAIT"}
Exiting == {"EXIT_ACTIVE", "EXIT_CANCEL_WAIT"}
Ended == {"COMPLETE", "ABORTED", "UNRESOLVED"}

VARIABLES
    lane,     \* _KernelLane
    venue,    \* the newest usable book of each venue
    now, given,   \* the feed: the time, and the trades it brought
    model     \* fill_model, or "NONE"

vars == <<lane, venue, now, given, model>>

NoCycle == [phase |-> "NONE"]

NoExit == [q |-> 0, rem |-> 0, act |-> Unset, creq |-> Unset, ceff |-> Unset]

Admitted(at) ==
    [phase |-> "ENTRY_WAIT", obs |-> 0, rem |-> Target, act |-> at + Lag,
     sched |-> at + Lag + CancelAfter, creq |-> Unset, ceff |-> Unset, hdue |-> Unset,
     hold |-> Unset, pairR |-> 0, pairL |-> 0, unm |-> 0, exit |-> NoExit, acts |-> <<>>,
     risex |-> 0, lighter |-> 0, fills |-> {}, seen |-> {}, lastAt |-> 0,
     noEntry |-> FALSE, noExit |-> FALSE, spins |-> FALSE, cur |-> at, ended |-> Unset]

Init ==
    /\ lane = [active |-> NoCycle, kept |-> <<>>, halted |-> FALSE,
               lastTerminal |-> 0, lastDecision |-> -1]
    /\ venue = [r |-> [ok |-> TRUE, asks |-> Target, crosses |-> FALSE],
                l |-> [ok |-> TRUE, asks |-> Target, bids |-> Target], n |-> 0]
    /\ now = 0 /\ given = <<>>
    /\ model \in Models

-----------------------------------------------------------------------------
(* The state of one cycle.                                                 *)

Lesser(m, n) == IF m < n THEN m ELSE n
Greater(m, n) == IF m > n THEN m ELSE n

Halt(k) == [k EXCEPT !.phase = "UNRESOLVED", !.ended = k.cur]
Complete(k, at) == [k EXCEPT !.phase = "COMPLETE", !.ended = at]
Abort(k, at) == [k EXCEPT !.phase = "ABORTED", !.ended = at]

Unresolved(k) == k.phase = "UNRESOLVED"
IsOver(k) == k.phase \in Ended

Open(k) == {i \in 1..Len(k.acts) : k.acts[i].open}
Ever(k, kind) == \E i \in 1..Len(k.acts) : k.acts[i].kind = kind

\* _schedule_taker.
Schedule(k, kind, n, at) ==
    [k EXCEPT !.acts = Append(@, [kind |-> kind, qty |-> n, due |-> at + Lag, open |-> TRUE])]

NothingLeft(k) == k.pairR = 0 /\ k.pairL = 0 /\ k.unm = 0
PositionsZero(k) == k.risex = 0 /\ k.lighter = 0 /\ NothingLeft(k)

\* The instant from which the cancellation holds, as far as it is known.
EntryCutoff(k) ==
    IF k.ceff # Unset THEN k.ceff ELSE IF k.creq # Unset THEN k.creq + Lag ELSE k.sched + Lag

ExitCutoff(k) ==
    IF k.exit.ceff # Unset THEN k.exit.ceff
    ELSE IF k.exit.creq # Unset THEN k.exit.creq + Lag ELSE Unset

\* _entry_candidate_after_commit, _exit_candidate_after_commit: the trade may
\* have filled what was left of the quote.
EntryCandidate(k, t) ==
    /\ ~(k.phase = "ABORTED" /\ k.noEntry)
    /\ t.side = "BUY" /\ k.rem > 0
    /\ k.act <= t.at /\ t.at < EntryCutoff(k)

ExitCandidate(k, t) ==
    /\ ~(model # "NONE" /\ k.noExit)
    /\ t.side = "SELL" /\ k.exit.rem > 0
    /\ k.exit.act <= t.at /\ t.at < ExitCutoff(k)

-----------------------------------------------------------------------------
(* Takers, and what follows the entry.                                     *)

\* _schedule_forced_remaining: what is queued settles before the rest is
\* sized.
ForceRemaining(k, at) ==
    LET Unmatched(f) ==
            IF f.unm > 0 /\ ~Ever(f, "unmatched") THEN Schedule(f, "unmatched", f.unm, at) ELSE f
        Risex(f) ==
            IF f.pairR > 0 /\ ~Ever(f, "forcedR") THEN Schedule(f, "forcedR", f.pairR, at) ELSE f
        Lighter(f) ==
            IF f.pairL > 0 /\ ~Ever(f, "forcedL") THEN Schedule(f, "forcedL", f.pairL, at) ELSE f
        Ends(f) ==
            IF Open(f) # {} THEN f ELSE IF PositionsZero(f) THEN Complete(f, at) ELSE Halt(f)
    IN  IF Open(k) # {} THEN [k EXCEPT !.phase = "CLOSE_WAIT"]
        ELSE Ends(Lighter(Risex(Unmatched([k EXCEPT !.phase = "FORCE_WAIT"]))))

\* _prepare_exit.
PrepareExit(k, b, at) ==
    IF k.pairR = 0
    THEN IF k.pairL = 0 /\ k.unm = 0 THEN Complete(k, at) ELSE ForceRemaining(k, at)
    ELSE IF ~(b.r.ok /\ b.l.ok) THEN Halt(k)
    ELSE IF b.l.bids < k.pairR \/ k.pairR < LighterLeast \/ b.r.asks = 0
         THEN ForceRemaining([k EXCEPT !.noExit = TRUE], at)
    ELSE [k EXCEPT !.phase = "EXIT_WAIT",
                   !.exit = [NoExit EXCEPT !.q = k.pairR, !.rem = k.pairR, !.act = at + Lag]]

\* _record_entry_hedge.
Hedged(k, n) ==
    [k EXCEPT !.pairR = n, !.pairL = n, !.unm = Greater(0, k.obs - n), !.lighter = @ + n]

\* What n lots of a taker of that kind change.
Executed(k, kind, n) ==
    CASE kind = "hedge" -> Hedged(k, n)
      [] kind = "unmatched" -> [k EXCEPT !.unm = Greater(0, @ - n), !.risex = @ + n]
      [] kind = "forcedR" ->
            IF k.unm > 0 THEN [k EXCEPT !.unm = Greater(0, @ - n), !.risex = @ + n]
            ELSE [k EXCEPT !.pairR = Greater(0, @ - n), !.risex = @ + n]
      [] OTHER -> [k EXCEPT !.pairL = Greater(0, @ - n), !.lighter = @ - n]

Bound(k, a) ==
    CASE a.kind = "hedge" -> a.qty
      [] a.kind = "unmatched" -> k.unm
      [] a.kind = "forcedR" -> k.pairR
      [] OTHER -> k.pairL

\* _execute_taker and _apply_taker_residue: capped by what is left of the
\* position, and no residue of an unwinding is left without a halt.
Taker(k, i, b) ==
    LET a == k.acts[i]
        risex == a.kind \in {"unmatched", "forcedR"}
        shut == [k EXCEPT !.acts[i].open = FALSE]
        wanted == Lesser(a.qty, Bound(k, a))
        paired == ~risex \/ (a.kind = "forcedR" /\ k.pairR > 0 /\ k.pairL > 0)
        usable == IF paired THEN b.r.ok /\ b.l.ok ELSE b.r.ok
        depth == IF risex THEN b.r.asks ELSE IF a.kind = "hedge" THEN b.l.asks ELSE b.l.bids
        most == Lesser(wanted, depth)
        n == IF ~risex /\ most < LighterLeast THEN 0 ELSE most
    IN  IF a.kind # "hedge" /\ wanted = 0 THEN shut
        ELSE IF ~usable THEN Halt(shut)
        ELSE IF a.kind # "hedge" /\ n < wanted THEN Halt(Executed(shut, a.kind, n))
        ELSE Executed(shut, a.kind, n)

\* The open takers of S, in the order in which they were queued.
Takers(k, b, S) ==
    LET done[i \in 0..Len(k.acts)] ==
            IF i = 0 THEN k ELSE IF i \in S THEN Taker(done[i - 1], i, b) ELSE done[i - 1]
    IN  done[Len(k.acts)]

\* Those due exactly now.
DueTakers(k, b, at) == Takers(k, b, {i \in Open(k) : k.acts[i].due = at})

-----------------------------------------------------------------------------
(* _handle_boundary, by phase, and the clock of the cycle.                 *)

\* _activation_post_only_eligibility, where the fill model asks for it.
AtEntryWait(k, b, at) ==
    IF model # "NONE" /\ ~b.r.ok THEN Halt(k)
    ELSE IF model # "NONE" /\ b.r.crosses THEN Abort([k EXCEPT !.noEntry = TRUE], at)
    ELSE [k EXCEPT !.phase = "ENTRY_ACTIVE"]

AtEntryActive(k, b, at) ==
    IF k.creq = Unset THEN [k EXCEPT !.creq = at]
    ELSE IF k.obs = 0 THEN Abort([k EXCEPT !.ceff = at], at)
    ELSE [k EXCEPT !.ceff = at, !.hdue = at + Lag, !.phase = "ENTRY_HEDGE_WAIT"]

AtEntryHedge(k, b, at) ==
    LET s == Schedule(k, "hedge", k.obs, at - Lag)
        h == Taker(s, Len(s.acts), b)
    IN  IF Unresolved(h) THEN h
        ELSE IF h.unm > 0
             THEN [Schedule(h, "unmatched", h.unm, at) EXCEPT !.phase = "UNMATCHED_WAIT"]
        ELSE PrepareExit(h, b, at)

AtUnmatched(k, b, at) ==
    LET h == Takers(k, b, Open(k))
    IN  IF Unresolved(h) THEN h ELSE IF h.unm > 0 THEN Halt(h) ELSE PrepareExit(h, b, at)

AtExitWait(k, b, at) ==
    IF model # "NONE" /\ ~b.r.ok THEN Halt(k)
    ELSE IF model # "NONE" /\ b.r.crosses THEN ForceRemaining([k EXCEPT !.noExit = TRUE], at)
    ELSE [k EXCEPT !.phase = "EXIT_ACTIVE"]

AtExitActive(k, b, at) ==
    [k EXCEPT !.exit = [@ EXCEPT !.creq = at, !.ceff = at + Lag], !.phase = "EXIT_CANCEL_WAIT"]

AtExitCancel(k, b, at) ==
    LET h == DueTakers(k, b, at)
    IN  IF Unresolved(h) \/ at < ExitCutoff(h) THEN h
        ELSE ForceRemaining([h EXCEPT !.exit.ceff = ExitCutoff(h)], at)

AtCloseWait(k, b, at) ==
    LET h == DueTakers(k, b, at)
    IN  IF Unresolved(h) THEN h
        ELSE IF NothingLeft(h) /\ Open(h) = {} THEN Complete(h, at)
        ELSE IF Open(h) # {} THEN h
        ELSE ForceRemaining(h, at)

AtForceWait(k, b, at) ==
    LET h == DueTakers(k, b, at)
    IN  IF Unresolved(h) THEN h
        ELSE IF NothingLeft(h) /\ Open(h) = {} THEN Complete(h, at) ELSE Halt(h)

Boundary(k, b, at) ==
    CASE k.phase = "ENTRY_WAIT" -> AtEntryWait(k, b, at)
      [] k.phase = "ENTRY_ACTIVE" -> AtEntryActive(k, b, at)
      [] k.phase = "ENTRY_HEDGE_WAIT" -> AtEntryHedge(k, b, at)
      [] k.phase = "UNMATCHED_WAIT" -> AtUnmatched(k, b, at)
      [] k.phase = "EXIT_WAIT" -> AtExitWait(k, b, at)
      [] k.phase = "EXIT_ACTIVE" -> AtExitActive(k, b, at)
      [] k.phase = "EXIT_CANCEL_WAIT" -> AtExitCancel(k, b, at)
      [] k.phase = "CLOSE_WAIT" -> AtCloseWait(k, b, at)
      [] OTHER -> AtForceWait(k, b, at)

FirstDue(k) == Min({Unset} \cup {k.acts[i].due : i \in Open(k)})

\* _next_due.
NextDue(k) ==
    CASE k.phase = "ENTRY_WAIT" -> k.act
      [] k.phase = "ENTRY_ACTIVE" -> IF k.creq = Unset THEN k.sched ELSE k.creq + Lag
      [] k.phase = "ENTRY_HEDGE_WAIT" -> k.hdue
      [] k.phase = "EXIT_WAIT" -> k.exit.act
      [] k.phase = "EXIT_ACTIVE" -> k.hold
      [] k.phase = "EXIT_CANCEL_WAIT" -> Lesser(FirstDue(k), ExitCutoff(k))
      [] k.phase = "CLOSE_WAIT" ->
            IF Open(k) # {} THEN FirstDue(k) ELSE IF NothingLeft(k) THEN k.cur ELSE k.cur + Lag
      [] OTHER -> FirstDue(k)

Settled(k, target) == IsOver(k) \/ NextDue(k) > target

\* One round of the loop in _run_due_until.
Turned(k, b, target) ==
    LET at == Greater(NextDue(k), k.cur)
    IN  IF Settled(k, target) THEN k ELSE Boundary([k EXCEPT !.cur = at], b, at)

\* _run_due_until, which is called for later instants only.  A loop that is not
\* over after that many rounds is one that never comes back: spins.
RunUntil(k, b, target) ==
    LET turn[n \in 0..Rounds] == IF n = 0 THEN k ELSE Turned(turn[n - 1], b, target)
        Last(h) == IF Settled(h, target) THEN [h EXCEPT !.cur = Greater(@, target)]
                   ELSE [k EXCEPT !.spins = TRUE]
    IN  IF target <= k.cur THEN k ELSE Last(turn[Rounds])

-----------------------------------------------------------------------------
(* _handle_trade.                                                          *)

\* _trade_could_matter.
CouldMatter(k) == k.phase \in Entering \cup Exiting \cup {"UNMATCHED_WAIT", "EXIT_WAIT"}

\* A fill of the entry, known since ready.
EntryFill(k, t, ready) ==
    LET n == Lesser(t.n, k.rem)
        h == [k EXCEPT !.obs = @ + n, !.rem = @ - n, !.risex = @ - n, !.fills = @ \cup {t.id},
                       !.hold = IF @ = Unset THEN t.at + MaxHold ELSE @,
                       !.creq = IF k.rem > n /\ @ = Unset THEN ready ELSE @]
    IN  IF h.rem = 0
        THEN [h EXCEPT !.hdue = Greater(ready, k.cur) + Lag, !.phase = "ENTRY_HEDGE_WAIT"]
        ELSE [h EXCEPT !.phase = IF k.hdue # Unset THEN "ENTRY_HEDGE_WAIT" ELSE "ENTRY_ACTIVE"]

ExitFill(k, t, ready) ==
    LET n == Lesser(t.n, Lesser(k.exit.rem, k.pairR))
        h == Schedule([k EXCEPT !.exit.rem = @ - n, !.pairR = @ - n, !.risex = @ + n,
                                !.fills = @ \cup {t.id}], "close", n, ready)
    IN  IF n = 0 THEN k
        ELSE IF h.exit.rem = 0 THEN [h EXCEPT !.phase = "CLOSE_WAIT"]
        ELSE IF h.exit.creq = Unset
             THEN [h EXCEPT !.exit.creq = ready, !.phase = "EXIT_CANCEL_WAIT"]
        ELSE h

\* A trade at the very price of the quote.
Touched(k, h) ==
    CASE model = "TOUCH_ALLOWED" -> h
      [] model = "TRADE_THROUGH_ONLY" -> k
      [] OTHER -> Halt(k)

OnEntry(k, t, ready) ==
    LET h == IF k.rem = 0 THEN k ELSE EntryFill(k, t, ready)
    IN  IF t.at < k.act \/ t.at >= EntryCutoff(k) \/ t.side # "BUY" THEN k
        ELSE IF t.touch THEN Touched(k, h) ELSE h

OnExit(k, t, ready) ==
    LET h == IF k.exit.rem = 0 THEN k ELSE ExitFill(k, t, ready)
    IN  IF t.at < k.exit.act \/ t.at >= k.exit.ceff \/ t.side # "SELL" THEN k
        ELSE IF t.touch THEN Touched(k, h) ELSE h

HandleTrade(k, t, ready) ==
    IF ~t.whole THEN IF CouldMatter(k) THEN Halt(k) ELSE k
    ELSE IF k.phase \notin Entering /\ EntryCandidate(k, t) THEN Halt(k)
    ELSE IF k.phase \notin Exiting /\ ExitCandidate(k, t) THEN Halt(k)
    ELSE IF k.phase \in Entering THEN OnEntry(k, t, ready)
    ELSE IF k.phase \in Exiting THEN OnExit(k, t, ready)
    ELSE k

\* _accept_event, of a trade: the order of the stream, the boundaries before
\* its receipt, the trade, and the boundaries until it was ready.
AcceptTrade(k, t, b) ==
    LET seen == [k EXCEPT !.seen = IF t.whole THEN @ \cup {t} ELSE @, !.lastAt = t.at]
    IN  IF t.at < k.lastAt THEN Halt(k)
        ELSE RunUntil(HandleTrade(RunUntil(seen, b, t.at), t, now), b, now)

-----------------------------------------------------------------------------
(* The lane.                                                               *)

\* _latch_terminal.
Latched(ln, k) ==
    IF ~IsOver(k) THEN [ln EXCEPT !.active = k]
    ELSE [ln EXCEPT !.active = NoCycle, !.kept = Append(@, k), !.lastTerminal = k.ended,
                    !.halted = @ \/ Unresolved(k) \/ ~PositionsZero(k)]

Known(k, t) == t.whole /\ \E s \in k.seen : s.id = t.id

\* _accept_terminal_event, of the trades that match the cycle.
Audited(k, t) ==
    IF Known(k, t) THEN IF t \in k.seen THEN k ELSE Halt(k)
    ELSE Halt([k EXCEPT !.seen = IF t.whole THEN @ \cup {t} ELSE @])

Matching(t) ==
    {i \in 1..Len(lane.kept) :
        LET k == lane.kept[i]
        IN  ~Unresolved(k) /\ (Known(k, t) \/ EntryCandidate(k, t) \/ ExitCandidate(k, t))}

\* Mutant: a cycle that ended is not looked at again.
AuditNothing(t) == lane

\* _audit_terminal_cycles and _propagate_terminal_uncertainty.
Audit(t) ==
    LET after == [i \in 1..Len(lane.kept) |->
                    IF i \in Matching(t) THEN Audited(lane.kept[i], t) ELSE lane.kept[i]]
        bad == \E i \in Matching(t) : Unresolved(after[i])
        latest == [after[Len(after)] EXCEPT !.phase = "UNRESOLVED"]
    IN  IF bad THEN [lane EXCEPT !.kept = [after EXCEPT ![Len(after)] = latest], !.halted = TRUE]
        ELSE [lane EXCEPT !.kept = after]

\* advance, of a trade.
Advance(t) ==
    LET audited == Audit(t)
        k == lane.active
    IN  IF k = NoCycle THEN audited
        ELSE IF audited.halted THEN Latched(audited, Halt(k))
        ELSE IF \E i \in Matching(t) : Known(lane.kept[i], t) THEN audited
        ELSE IF Known(k, t) THEN IF t \in k.seen THEN audited ELSE Latched(audited, Halt(k))
        ELSE Latched(audited, AcceptTrade(k, t, venue))

Cycles ==
    {lane.kept[i] : i \in 1..Len(lane.kept)} \cup ({lane.active} \ {NoCycle})

\* admit: a quote decided now on the newest books.
Admit ==
    /\ ~lane.halted /\ lane.active = NoCycle
    /\ IF Len(lane.kept) >= Retention
       THEN lane' = [lane EXCEPT !.halted = TRUE]
       ELSE /\ now >= lane.lastTerminal /\ now > lane.lastDecision
            /\ lane' = IF venue.r.ok /\ venue.l.ok
                       THEN [lane EXCEPT !.active = Admitted(now), !.lastDecision = now]
                       ELSE [lane EXCEPT !.halted = TRUE]
    /\ UNCHANGED <<venue, now, given, model>>

\* A new trade, received now or an instant ago.  What no quote could have
\* met is left out of the feed; one of a doubtful identity or at the price
\* of the quote itself is whole and new otherwise.
Trade ==
    /\ venue.n + Len(given) < FeedEvents
    /\ \E side \in {"BUY", "SELL"}, n \in 1..Target, at \in {now, now - 1},
          touch \in BOOLEAN, whole \in BOOLEAN :
        LET t == [id |-> Len(given) + 1, side |-> side, n |-> n, at |-> at,
                  touch |-> touch, whole |-> whole]
        IN  /\ at >= 0 /\ \A i \in 1..Len(given) : given[i].at <= at
            /\ touch \/ ~whole => n = Target /\ at = now /\ touch = whole
            /\ \E k \in Cycles : at >= IF side = "BUY" THEN k.act ELSE k.exit.act
            /\ lane' = Advance(t)
            /\ given' = Append(given, t)
    /\ UNCHANGED <<venue, now, model>>

\* A trade comes again, as it was or with another quantity.
Repeat ==
    /\ \E i \in 1..Len(given) :
        /\ given[i].whole
        /\ \E n \in 1..Target : lane' = Advance([given[i] EXCEPT !.n = n])
    /\ UNCHANGED <<venue, now, given, model>>

\* advance_clock.
Clock ==
    /\ lane.active # NoCycle /\ now > lane.active.cur
    /\ lane' = Latched(lane, RunUntil(lane.active, venue, now))
    /\ UNCHANGED <<venue, now, given, model>>

\* What is due before now is settled on the books there were.
Rebooked(b) ==
    IF lane.active = NoCycle THEN lane
    ELSE Latched(lane, RunUntil(RunUntil(lane.active, venue, now - 1), b, now))

\* A book: usable or not (fresh, healthy, received with the other one),
\* deep or thin, and crossed by the quote or not.
Book ==
    /\ venue.n + Len(given) < FeedEvents /\ ~lane.halted
    /\ \E b \in {[venue EXCEPT !.r.ok = FALSE], [venue EXCEPT !.l.ok = FALSE],
                 [venue EXCEPT !.r.crosses = TRUE], [venue EXCEPT !.r.asks = @ - 1],
                 [venue EXCEPT !.l.asks = @ - 1], [venue EXCEPT !.l.bids = @ - 1]} :
        /\ b # venue /\ b.r.asks >= 0 /\ b.l.asks >= 0 /\ b.l.bids >= 0
        /\ venue' = [b EXCEPT !.n = @ + 1]
        /\ lane' = Rebooked(b)
    /\ UNCHANGED <<now, given, model>>

\* _gap_overlaps_live_cycle, of a gap that begins and ends now.
GapOverlaps(k) ==
    IF k.phase \in Entering \cup {"UNMATCHED_WAIT"}
    THEN /\ k.act <= now
         /\ now <= Max({k.cur} \cup {i \in {k.ceff, k.hdue} : i # Unset}
                          \cup {k.acts[i].due : i \in Open(k)})
    ELSE /\ (IF k.exit.act # Unset THEN k.exit.act ELSE k.cur) <= now
         /\ now <= Greater(k.cur, k.hold)

\* A gap in the stream of a venue: its book is no evidence any more.
Gap ==
    /\ venue.n + Len(given) < FeedEvents /\ ~lane.halted
    /\ \E b \in {[venue EXCEPT !.r.ok = FALSE], [venue EXCEPT !.l.ok = FALSE]} :
        /\ b # venue
        /\ venue' = [b EXCEPT !.n = @ + 1]
        /\ lane' = IF lane.active # NoCycle /\ GapOverlaps(lane.active)
                   THEN Latched(lane, Halt(lane.active)) ELSE Rebooked(b)
    /\ UNCHANGED <<now, given, model>>

\* Time passes from the first quote on, and the kernel is not left without
\* an event for long.
Tick ==
    /\ now < LastInstant /\ ~lane.halted /\ Cycles # {}
    /\ \A k \in Cycles : IsOver(k) \/ now - k.cur < Silence
    /\ now' = now + 1
    /\ UNCHANGED <<lane, venue, given, model>>

Next == Admit \/ Trade \/ Repeat \/ Clock \/ Book \/ Gap \/ Tick

Spec == Init /\ [][Next]_vars

-----------------------------------------------------------------------------
(* Properties.                                                             *)

\* A cycle reported as over without doubt is flat on both venues and has no
\* taker queued (CycleTerminalState NORMAL, FORCED and NO_FILL).
FlatIsFlat ==
    \A k \in Cycles : IsOver(k) /\ ~Unresolved(k) => PositionsZero(k) /\ Open(k) = {}

\* The paired and unmatched quantities, which decide what is unwound, are at
\* every instant the positions that the fills made.
Balanced ==
    \A k \in Cycles :
        IF Ever(k, "hedge")
        THEN Unresolved(k) \/ (k.risex = -(k.pairR + k.unm) /\ k.lighter = k.pairL)
        ELSE k.risex = -k.obs /\ k.lighter = 0

\* No trade is a fill of two cycles.
FillsOnce ==
    \A i \in 1..Len(lane.kept) :
        \A k \in Cycles \ {lane.kept[i]} : k.fills \cap lane.kept[i].fills = {}

\* A trade that reached an open quote was a fill of it, or the lane halted:
\* no result is final over a fill that was overlooked.
NoneOverlooked ==
    lane.halted \/
    \A k \in Cycles : \A i \in 1..Len(given) :
        LET t == given[i]
        IN  (EntryCandidate(k, t) \/ ExitCandidate(k, t)) /\ t.whole /\ ~t.touch
                => t.id \in k.fills

\* Doubt about one cycle is doubt about the lane: nothing is open, nothing
\* will be admitted, and the latest result says so.
DoubtHalts ==
    (\E k \in Cycles : Unresolved(k)) =>
        lane.halted /\ lane.active = NoCycle /\ Unresolved(lane.kept[Len(lane.kept)])

\* The kernel always comes back from the boundaries that are due.
NeverSpins == \A k \in Cycles : ~k.spins

\* What the kernel reports of its cycles is true, of those that ended long
\* ago as of the one that runs.
CyclesAreTrue == FlatIsFlat /\ Balanced /\ FillsOnce /\ DoubtHalts
LaneIsTrue == CyclesAreTrue /\ NoneOverlooked /\ NeverSpins
=============================================================================
