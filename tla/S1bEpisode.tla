----------------------------- MODULE S1bEpisode -----------------------------
(***************************************************************************)
(* One episode of the replay kernel Scv1S1bKernel (s1b.py, fixed exit): a  *)
(* maker order on RISEX, a taker hedge on LIGHTER for whatever it fills,   *)
(* the cancellation barrier, one maker exit, its closes, and the forced    *)
(* unwinding after the deadline.  The kernel is sequential: c is its       *)
(* state, and a handler is an operator on c.  What is not under its        *)
(* control is the feed: the order of books, gaps and trades, and trades    *)
(* that become ready later than they happened.                             *)
(*                                                                         *)
(* Quantities are lots.  A book is its executable depth, so two books of   *)
(* one depth are one book.  Prices only decide whether a quote crosses.    *)
(***************************************************************************)
EXTENDS Integers, Sequences, FiniteSetsExt

CONSTANTS
    Cap,          \* q_cap, lots of the first entry quote
    MinLighter,   \* smallest operation on LIGHTER
    Delay,        \* activation, cancel and taker delays
    Life,         \* entry_cancel_after_activation_ns
    Hold,         \* max_hold_ns
    Horizon,      \* last instant of the feed
    MaxQuotes,    \* entry versions
    MaxTrades, MaxBooks

Never == 1000     \* an instant that is not set

EntryPhases == {"ENTRY_WAIT", "ENTRY_ACTIVE", "ENTRY_REQUOTE_WAIT", "ENTRY_BARRIER"}
ExitPhases == {"EXIT_WAIT", "EXIT_ACTIVE", "EXIT_CANCEL_WAIT"}
Over == {"COMPLETE", "ABORTED", "UNRESOLVED"}

VARIABLES
    c,        \* _S1bCycle
    books,    \* the newest book of each venue
    now,      \* current_ns
    run,      \* target of a _run_due_until under way, or Never
    sold,     \* lots of LIGHTER asks taken since the book last changed
    left      \* trades and books still to come

vars == <<c, books, now, run, sold, left>>

Version(n, at) ==
    [target |-> n, rem |-> n, act |-> at + Delay, sched |-> at + Delay + Life,
     checked |-> FALSE, post |-> FALSE, canReq |-> Never, canEff |-> Never, open |-> TRUE]

NoExit == [target |-> 0, rem |-> 0, act |-> Never, checked |-> FALSE, post |-> FALSE,
           canReq |-> Never, canEff |-> Never, placed |-> FALSE, open |-> FALSE]

Init ==
    /\ c = [phase |-> "ENTRY_WAIT", vers |-> <<Version(Cap, 0)>>, active |-> 1,
            obs |-> 0, hedged |-> 0, pairR |-> 0, pairL |-> 0, unm |-> 0,
            exit |-> NoExit, acts |-> <<>>, deadline |-> Never,
            forced |-> FALSE, chosen |-> FALSE, unresolved |-> FALSE, blocked |-> FALSE,
            used |-> [hedge |-> 0, close |-> 0], sig |-> [hedge |-> -1, close |-> -1],
            risex |-> 0, lighter |-> 0]
    /\ books = [r |-> [st |-> "ok", asks |-> 2, crosses |-> FALSE],
                l |-> [st |-> "ok", asks |-> 2, bids |-> 2], skew |-> FALSE]
    /\ now = 0 /\ run = Never /\ sold = 0
    /\ left = [trades |-> MaxTrades, books |-> MaxBooks]

-----------------------------------------------------------------------------
(* Reservations.                                                           *)

Indices(s) == 1..Len(s)

Rem(a) == a.qty - a.ex

Pending(k, kind) == {i \in Indices(k.acts) : k.acts[i].open /\ k.acts[i].kind = kind}
AllPending(k) == {i \in Indices(k.acts) : k.acts[i].open}

Total(k, S) == MapThenSumSet(LAMBDA i : Rem(k.acts[i]), S)

\* _schedule_taker: an action of a forced kind exists once.
Schedule(k, kind, n, at) ==
    IF kind \notin {"hedge", "close"} /\ \E i \in Indices(k.acts) : k.acts[i].kind = kind
    THEN k
    ELSE [k EXCEPT !.acts = Append(@, [kind |-> kind, qty |-> n, ex |-> 0, req |-> at,
                                       due |-> at + Delay, data |-> FALSE, open |-> TRUE])]

Change(k, S, f(_)) ==
    [k EXCEPT !.acts = [i \in Indices(k.acts) |-> IF i \in S THEN f(@[i]) ELSE @[i]]]

Closed(k, S) == Change(k, S, LAMBDA a : [a EXCEPT !.open = FALSE])
Deferred(k, S) == Change(k, S, LAMBDA a : [a EXCEPT !.due = Never, !.data = FALSE])
\* Mutant: what finds no usable book is not marked for the next one.
WaitingUnmarked(k, S) == k

Waiting(k, S) == Change(k, S, LAMBDA a : [a EXCEPT !.data = TRUE])

Halt(k) == [k EXCEPT !.unresolved = TRUE, !.phase = "UNRESOLVED"]
PolicyBlock(k) == [k EXCEPT !.blocked = TRUE, !.phase = "UNRESOLVED"]
Complete(k) == [k EXCEPT !.phase = "COMPLETE"]

Stopped(k) == k.unresolved \/ k.blocked

IsZero(k) == k.risex = 0 /\ k.lighter = 0 /\ k.pairR = 0 /\ k.pairL = 0 /\ k.unm = 0

PosPart(n) == IF n > 0 THEN n ELSE 0
Least(m, n) == IF m < n THEN m ELSE n

\* n lots given to the reservations S in their order.
RECURSIVE Allotted(_, _, _)
Allotted(k, S, n) ==
    IF S = {} \/ n = 0 THEN k
    ELSE LET i == Min(S)
             q == Least(n, Rem(k.acts[i]))
         IN  Allotted([k EXCEPT !.acts[i].ex = @ + q, !.acts[i].data = FALSE], S \ {i}, n - q)

-----------------------------------------------------------------------------
(* The exit that the pair would be given, and the commitment to it.        *)

\* _exit_quote_candidate: a quote, none on this book, or no usable book.
ExitReady(k, b) ==
    LET n == Least(k.pairR, k.pairL)
    IN  IF k.pairR = 0 THEN "none"
        ELSE IF b.r.st # "ok" \/ b.l.st # "ok" THEN "data"
        ELSE IF b.skew THEN "skew"
        ELSE IF n >= MinLighter /\ b.l.bids >= n /\ b.r.asks > 0 THEN "ready" ELSE "invalid"

\* _s1b_request_entry_cancellation.
CancelEntries(k, at) ==
    LET Asked(v) == IF v.canEff # Never THEN v
                    ELSE [v EXCEPT !.canReq = at, !.canEff = IF v.rem = 0 THEN at ELSE at + Delay]
    IN  [k EXCEPT !.vers = [i \in Indices(@) |-> Asked(@[i])],
                  !.active = 0, !.phase = "ENTRY_BARRIER"]

PairFormed(k, b, at) ==
    IF ~k.chosen /\ ExitReady(k, b) = "ready"
    THEN CancelEntries([k EXCEPT !.chosen = TRUE], at)
    ELSE k

UpdateUnmatched(k) == [k EXCEPT !.unm = PosPart(k.obs - k.hedged)]

-----------------------------------------------------------------------------
(* Matured reservations become one operation on LIGHTER: hedges buy, closes *)
(* sell.  What the venue would not take is kept, or finalized.             *)

\* Mutant: every operation sees the whole depth.
RoomWhole(k, side, depth) == depth

\* The part of the book's depth this operation may take.
Room(k, side, depth) == depth - (IF k.sig[side] = depth THEN k.used[side] ELSE 0)

Touched(k, side, depth, n) ==
    [k EXCEPT !.used[side] = depth - Room(k, side, depth) + n, !.sig[side] = depth]

\* What is left of the reservations S once n lots were taken.
Kept(k, S, fin) ==
    LET done == {i \in S : Rem(k.acts[i]) = 0}
    IN  IF fin THEN Closed(k, S) ELSE Deferred(Closed(k, done), S \ done)

Taken(k, S, side, depth, n, fin) ==
    IF n < MinLighter
    THEN [k |-> IF fin THEN Closed(Touched(k, side, depth, 0), S)
                ELSE Deferred(Touched(k, side, depth, 0), S), n |-> 0]
    ELSE [k |-> Kept(Allotted(Touched(k, side, depth, n), S, n), S, fin), n |-> n]

Operation(k, S, side, wanted, depth, fin) ==
    Taken(k, S, side, depth, Least(wanted, Room(k, side, depth)), fin)

\* _s1b_execute_due_entry_hedges.
EntryHedges(k, b, at, finalize, wake) ==
    LET H == Pending(k, "hedge")
        due == {i \in H : k.acts[i].due <= at}
        fin == finalize /\ \A i \in H : k.acts[i].due <= at \/ k.acts[i].due = Never
        Hedged(o) ==
            IF o.n = 0 THEN o.k
            ELSE PairFormed(UpdateUnmatched([o.k EXCEPT !.hedged = @ + o.n, !.pairR = @ + o.n,
                                                        !.pairL = @ + o.n, !.lighter = @ + o.n]),
                            b, at)
        Of(S, wanted) ==
            IF S = {} THEN k
            ELSE IF (fin /\ due = {}) \/ wanted = 0 THEN Closed(k, S)
            ELSE IF b.l.st # "ok" THEN Waiting(k, S)
            ELSE Hedged(Operation(k, S, "hedge", wanted, b.l.asks, fin))
        All(S) == Of(S, Least(Total(k, S), PosPart(k.obs - k.hedged)))
    IN  All(due \cup {i \in H : k.acts[i].due = Never /\ (due # {} \/ wake \/ fin)})

\* _s1b_execute_due_exit_closes; what one operation leaves stays deferred,
\* even when finalizing.
ExitCloses(k, b, at, fin) ==
    LET Sold(o) == [o.k EXCEPT !.pairL = PosPart(@ - o.n), !.lighter = @ - o.n]
        Of(S, wanted) ==
            IF S = {} THEN k
            ELSE IF wanted = 0 THEN Closed(k, S)
            ELSE IF b.l.st # "ok" THEN Waiting(k, S)
            ELSE Sold(Operation(k, S, "close", wanted, b.l.bids,
                                fin /\ Least(wanted, Room(k, "close", b.l.bids)) < MinLighter))
        All(S) == Of(S, Least(Total(k, S), k.pairL))
    IN  All({i \in Pending(k, "close") : k.acts[i].due <= at \/ k.acts[i].due = Never})

-----------------------------------------------------------------------------
(* Unwinding by takers, and the exit.                                      *)

Coexists(k, a) == a.kind = "unmatched" /\ k.pairR > 0 /\ k.pairL > 0

\* _execute_taker, of the kinds that are tried once.
Taker(k, i, b, at) ==
    LET a == k.acts[i]
        risex == a.kind \in {"unmatched", "forcedR"}
        cap == CASE a.kind = "unmatched" -> k.unm
                 [] a.kind = "forcedR" -> k.pairR
                 [] OTHER -> PosPart(k.pairL - Total(k, Pending(k, "close")))
        shut == Closed(k, {i})
        Of(wanted, n) ==
            IF wanted = 0 THEN shut
            ELSE IF (IF risex THEN b.r.st ELSE b.l.st) # "ok" THEN Waiting(k, {i})
            ELSE IF n = 0 \/ (~risex /\ n < MinLighter)
                 THEN IF Coexists(k, a) THEN shut ELSE PolicyBlock(shut)
            ELSE CASE a.kind = "unmatched" ->
                        [shut EXCEPT !.acts[i].ex = n, !.unm = @ - n, !.risex = @ + n]
                   [] a.kind = "forcedR" ->
                        [shut EXCEPT !.acts[i].ex = n, !.pairR = @ - n, !.risex = @ + n]
                   [] OTHER ->
                        [shut EXCEPT !.acts[i].ex = n, !.pairL = @ - n, !.lighter = @ - n]
        Wanted(n) == Of(n, Least(n, IF risex THEN b.r.asks ELSE b.l.bids))
    IN  IF a.kind = "hedge" THEN EntryHedges(k, b, at, FALSE, FALSE)
        ELSE Wanted(Least(a.qty, cap))

RECURSIVE Takers(_, _, _, _)
Takers(k, S, b, at) ==
    IF S = {} THEN k ELSE Takers(Taker(k, Min(S), b, at), S \ {Min(S)}, b, at)

DueNow(k, at) == {i \in AllPending(k) : k.acts[i].kind # "close" /\ k.acts[i].due = at}

\* _schedule_forced_remaining.
ForceRemaining(k, at) ==
    LET WithUnmatched == IF k.unm > 0 THEN Schedule(k, "unmatched", k.unm, at) ELSE k
        Risex(f) == IF f.pairR > 0 THEN Schedule(f, "forcedR", f.pairR, at) ELSE f
        Lighter(f, n) == IF n > 0 THEN Schedule(f, "forcedL", n, at) ELSE f
        Ends(f) == IF AllPending(f) # {} THEN f ELSE IF IsZero(f) THEN Complete(f) ELSE PolicyBlock(f)
    IN  Ends([Lighter(Risex(WithUnmatched), k.pairL - Total(k, Pending(k, "close")))
                 EXCEPT !.phase = "FORCE_WAIT"])

\* _prepare_exit.
PrepareExit(k, b, at) ==
    LET n == Least(k.pairR, k.pairL)
    IN  CASE ExitReady(k, b) = "none" -> IF k.pairL = 0 /\ k.unm = 0 THEN Complete(k) ELSE k
          [] ExitReady(k, b) = "data" -> k
          [] ExitReady(k, b) = "skew" -> Halt(k)
          [] ExitReady(k, b) = "invalid" -> ForceRemaining(k, at)
          [] OTHER -> [k EXCEPT !.chosen = TRUE, !.phase = "EXIT_WAIT",
                                !.exit = [NoExit EXCEPT !.target = n, !.rem = n, !.act = at + Delay,
                                                        !.placed = TRUE, !.open = TRUE]]

\* _schedule_unmatched, _s1b_begin_exit_or_unmatched, _s1b_after_unmatched_attempt.
Unmatched(k, at) == [Schedule(k, "unmatched", k.unm, at) EXCEPT !.phase = "UNMATCHED_WAIT"]

PairOrForce(k, b, at) == IF k.forced THEN ForceRemaining(k, at) ELSE PrepareExit(k, b, at)

BeginExit(k0, b, at) ==
    LET Of(k) == IF k.unm > 0 THEN Unmatched(k, at)
                 ELSE IF k.pairR = 0 THEN Complete(k)
                 ELSE PairOrForce(k, b, at)
    IN  Of(UpdateUnmatched(k0))

AfterUnmatched(k, b, at) ==
    IF Stopped(k) THEN k
    ELSE IF k.unm = 0 \/ (k.pairR > 0 /\ Pending(k, "unmatched") = {})
    THEN PairOrForce(k, b, at)
    ELSE k

-----------------------------------------------------------------------------
(* Activation, deadline and the boundaries.                                *)

\* _s1b_ensure_entry_activation: the version is a maker order or it never
\* was one.
Activated(k, i, b, at) ==
    LET v == k.vers[i]
        set == [k EXCEPT !.vers[i].checked = TRUE]
    IN  IF at < v.act \/ v.checked THEN k
        ELSE IF b.r.st # "ok" THEN Halt(set)
        ELSE IF b.r.crosses
             THEN [set EXCEPT !.vers[i].open = FALSE,
                              !.vers[i].canReq = IF v.canEff = Never THEN v.act ELSE @,
                              !.vers[i].canEff = IF v.canEff = Never THEN v.act ELSE @]
             ELSE [set EXCEPT !.vers[i].post = TRUE]

RECURSIVE AllActivated(_, _, _, _)
AllActivated(k, i, b, at) ==
    IF i > Len(k.vers) \/ k.unresolved THEN k
    ELSE AllActivated(Activated(k, i, b, at), i + 1, b, at)

DeadlineHere(k, at) == at >= k.deadline /\ ~k.forced

ForceEntry(k, at) == CancelEntries([k EXCEPT !.forced = TRUE], at)

\* _s1b_force_exit_deadline.
ForceExit(k, at) ==
    IF k.exit.canReq # Never THEN k
    ELSE [k EXCEPT !.forced = TRUE, !.exit.canReq = at, !.exit.canEff = at + Delay,
                   !.phase = "EXIT_CANCEL_WAIT"]

\* _s1b_ensure_exit_activation, and _s1b_invalidate_exit_at_activation.
ExitActivated(k, b, at) ==
    LET e == k.exit
        set == [k EXCEPT !.exit.checked = TRUE]
    IN  IF ~e.placed \/ at < e.act \/ e.checked THEN k
        ELSE IF b.r.st # "ok" THEN Halt(set)
        ELSE [set EXCEPT !.exit.post = ~b.r.crosses]

NotAnOrder(k, at) == k.exit.placed /\ at >= k.exit.act /\ ~k.exit.post

ExitInvalid(k, at) == ForceRemaining([k EXCEPT !.exit.open = FALSE], at)

AtEntryWait(k, b, at) ==
    LET Decide(v) ==
            IF v.unresolved THEN v
            ELSE IF v.vers[v.active].checked /\ ~v.vers[v.active].post
                 THEN [v EXCEPT !.active = 0, !.phase = "ENTRY_REQUOTE_WAIT"]
                 ELSE [v EXCEPT !.phase = "ENTRY_ACTIVE"]
        Hedged(h) ==
            IF Stopped(h) \/ h.phase # "ENTRY_WAIT" THEN h
            ELSE IF DeadlineHere(h, at) THEN ForceEntry(h, at)
            ELSE IF h.active = 0 THEN [h EXCEPT !.phase = "ENTRY_REQUOTE_WAIT"]
            ELSE Decide(Activated(h, h.active, b, at))
    IN  Hedged(EntryHedges(k, b, at, FALSE, FALSE))

AtEntryActive(k, b, at) ==
    LET Hedged(h) ==
            IF Stopped(h) \/ h.active = 0 THEN h
            ELSE IF DeadlineHere(h, at) THEN ForceEntry(h, at)
            ELSE IF at >= h.vers[h.active].sched THEN CancelEntries(h, at)
            ELSE h
    IN  Hedged(EntryHedges(k, b, at, FALSE, FALSE))

Cancelled(k, at) == \A i \in Indices(k.vers) : at >= k.vers[i].canEff

\* _s1b_entry_action_complete, of every version that is cancelled by now.
VersionsCompleted(k, at) ==
    [k EXCEPT !.vers = [i \in Indices(@) |->
        IF at >= @[i].canEff THEN [@[i] EXCEPT !.open = FALSE] ELSE @[i]]]

Requote(k) == [k EXCEPT !.phase = "ENTRY_REQUOTE_WAIT", !.active = 0]

\* The barrier is down and no hedge is pending: exit, or quote again.
BarrierDown(k, b, at) ==
    LET Of(ready) ==
            IF k.chosen \/ ready = "ready" THEN BeginExit(k, b, at)
            ELSE IF k.obs < Cap /\ ~k.forced THEN Requote(k)
            ELSE IF ready \in {"data", "skew"} THEN Halt(k)
            ELSE BeginExit(k, b, at)
    IN  Of(ExitReady(k, b))

AtBarrier(k, b, at) ==
    LET End(h, down, again) ==
            IF Stopped(h) THEN h
            ELSE IF h.phase = "ENTRY_BARRIER" /\ down
            THEN IF Pending(h, "hedge") = {} THEN BarrierDown(h, b, at)
                 ELSE IF again THEN Requote(h) ELSE h
            ELSE IF h.pairR > 0 /\ ~h.chosen THEN [h EXCEPT !.phase = "ENTRY_BARRIER"]
            ELSE h
        Final(d, again) == End(EntryHedges(d, b, at, ~again, FALSE), TRUE, again)
        Reached(d) ==
            IF Cancelled(d, at) THEN Final(d, ~d.chosen /\ ~d.forced /\ d.obs < Cap)
            ELSE End(d, FALSE, FALSE)
        Hedged(h) ==
            IF Stopped(h) THEN h
            ELSE Reached(VersionsCompleted(IF DeadlineHere(h, at) THEN ForceEntry(h, at) ELSE h, at))
        Known(v) == IF v.unresolved THEN v
                    ELSE Hedged(EntryHedges(v, b, at, FALSE, FALSE))
    IN  Known(AllActivated(k, 1, b, at))

AtUnmatched(k, b, at) ==
    AfterUnmatched(Takers(k, {i \in DueNow(k, at) : k.acts[i].kind = "unmatched"}, b, at), b, at)

AtExitWait(k, b, at) ==
    LET Known(e) == IF e.unresolved THEN e
                    ELSE IF NotAnOrder(e, at) THEN ExitInvalid(e, at)
                    ELSE [e EXCEPT !.phase = "EXIT_ACTIVE"]
    IN  IF DeadlineHere(k, at) THEN ForceExit(k, at) ELSE Known(ExitActivated(k, b, at))

AtExitActive(k, b, at) ==
    LET Sold(x) == IF at >= x.deadline THEN ForceExit(x, at) ELSE x
    IN  Sold(ExitCloses(k, b, at, FALSE))

AtExitCancel(k, b, at) ==
    LET Tried(t) ==
            IF Stopped(t) \/ at < t.exit.canEff THEN t
            ELSE ForceRemaining(ExitCloses([t EXCEPT !.exit.open = FALSE], b, at, TRUE), at)
        Sold(x) == Tried(Takers(x, DueNow(x, at), b, at))
        Known(e) == IF e.unresolved THEN e
                    ELSE IF e.exit.checked /\ ~k.exit.checked /\ ~e.exit.post THEN ExitInvalid(e, at)
                    ELSE Sold(ExitCloses(e, b, at, FALSE))
    IN  Known(ExitActivated(k, b, at))

AtCloseWait(k, b, at) ==
    LET Sold(x) ==
            IF IsZero(x) /\ AllPending(x) = {} THEN Complete(x)
            ELSE IF at >= x.deadline
                 THEN IF x.exit.rem > 0 THEN ForceExit(x, at)
                      ELSE ForceRemaining(ExitCloses([x EXCEPT !.forced = TRUE], b, at, TRUE), at)
            ELSE IF AllPending(x) = {} THEN ForceRemaining(x, at)
            ELSE x
    IN  Sold(ExitCloses(k, b, at, FALSE))

\* Mutant: the episode is complete once every reservation has been tried.
AtForceTried(k, b, at) ==
    LET Tried(t) == IF Stopped(t) \/ AllPending(t) # {} THEN t ELSE Complete(t)
        Sold(x) == Tried(Takers(x, DueNow(x, at), b, at))
    IN  Sold(ExitCloses(k, b, at, TRUE))

AtForce(k, b, at) ==
    LET Tried(t) == IF Stopped(t) \/ AllPending(t) # {} THEN t
                    ELSE IF IsZero(t) THEN Complete(t) ELSE PolicyBlock(t)
        Sold(x) == Tried(Takers(x, DueNow(x, at), b, at))
    IN  Sold(ExitCloses(k, b, at, TRUE))

\* _handle_boundary.
Boundary(k, b, at) ==
    CASE k.phase = "ENTRY_WAIT" -> AtEntryWait(k, b, at)
      [] k.phase = "ENTRY_ACTIVE" -> AtEntryActive(k, b, at)
      [] k.phase \in {"ENTRY_BARRIER", "ENTRY_REQUOTE_WAIT"} -> AtBarrier(k, b, at)
      [] k.phase = "UNMATCHED_WAIT" -> AtUnmatched(k, b, at)
      [] k.phase = "EXIT_WAIT" -> AtExitWait(k, b, at)
      [] k.phase = "EXIT_ACTIVE" -> AtExitActive(k, b, at)
      [] k.phase = "EXIT_CANCEL_WAIT" -> AtExitCancel(k, b, at)
      [] k.phase = "CLOSE_WAIT" -> AtCloseWait(k, b, at)
      [] k.phase = "FORCE_WAIT" -> AtForce(k, b, at)
      [] OTHER -> k

-----------------------------------------------------------------------------
(* The scheduler.                                                          *)

Later(at, t) == IF t > at THEN t ELSE at

\* The instants _next_due chooses from.
Dues(k, b, at) ==
    LET pending == {k.acts[i].due : i \in AllPending(k)}
        deadline == IF k.forced THEN {} ELSE {k.deadline}
        unchecked == {Later(at, v.act) : v \in {k.vers[i] : i \in Indices(k.vers)} \cap
                                               {v \in {k.vers[i] : i \in Indices(k.vers)} : ~v.checked}}
        exitAct == IF k.exit.placed /\ ~k.exit.checked THEN {Later(at, k.exit.act)} ELSE {}
        settled == /\ k.phase = "ENTRY_BARRIER" /\ Cancelled(k, at)
                   /\ Pending(k, "hedge") = {} /\ ExitReady(k, b) # "data"
        future(S) == {t \in S : t > at}
        own ==
            CASE k.phase = "ENTRY_WAIT" ->
                    (IF k.active # 0 /\ ~k.vers[k.active].checked
                     THEN {Later(at, k.vers[k.active].act)} ELSE {}) \cup future(deadline)
              [] k.phase = "ENTRY_ACTIVE" -> {k.vers[k.active].sched, k.deadline}
              [] k.phase \in {"ENTRY_BARRIER", "ENTRY_REQUOTE_WAIT"} ->
                    future({k.vers[i].canEff : i \in Indices(k.vers)}) \cup unchecked
                    \cup (IF settled THEN {at} ELSE {}) \cup deadline
              [] k.phase = "EXIT_WAIT" -> exitAct \cup future(deadline)
              [] k.phase \in {"EXIT_ACTIVE", "CLOSE_WAIT"} -> {k.deadline}
              [] k.phase = "EXIT_CANCEL_WAIT" -> exitAct \cup {k.exit.canEff}
              [] OTHER -> {}
    IN  IF k.phase \in Over THEN {} ELSE (future(pending) \cup own) \ {Never}

\* One round of the loop in _run_due_until, with its guards.
Progress(k, at) ==
    <<k.phase, at, k.forced, Len(k.acts), Cardinality(AllPending(k)),
      {i \in Indices(k.vers) : k.vers[i].open}, {i \in Indices(k.vers) : k.vers[i].canReq # Never},
      k.exit.open, k.exit.placed, k.exit.canReq # Never>>

Round ==
    /\ run # Never
    /\ \E at \in Dues(c, books, now) :
          /\ at <= run /\ \A t \in Dues(c, books, now) : at <= t
          /\ LET Stuck(k) == Progress(k, at) = Progress(c, now) /\ \E t \in Dues(k, books, at) : t <= at
                 Result(k) == IF Stuck(k) THEN Halt(k) ELSE k
             IN  c' = IF at < now THEN Halt(c) ELSE Result(Boundary(c, books, at))
          /\ now' = IF at < now THEN now ELSE at
    /\ sold' = sold + (c'.hedged - c.hedged)
    /\ UNCHANGED <<books, run, left>>

RunEnds ==
    /\ run # Never
    /\ \A t \in Dues(c, books, now) : t > run
    /\ now' = run /\ run' = Never
    /\ UNCHANGED <<c, books, sold, left>>

Listening == run = Never /\ now <= Horizon

\* advance_clock, and the boundaries an event that is ready later runs first.
Clock ==
    /\ Listening /\ c.phase \notin Over
    /\ run' \in {now, now + 1} \cap 0..Horizon
    /\ UNCHANGED <<c, books, now, sold, left>>

-----------------------------------------------------------------------------
(* Trades.                                                                 *)

Windows(k, t) == {i \in Indices(k.vers) : k.vers[i].act <= t /\ t < k.vers[i].canEff}

Window(k, t) == IF Windows(k, t) = {} THEN 0 ELSE Max(Windows(k, t))

\* _s1b_entry_version_for.
VersionFor(k, t) ==
    LET w == Window(k, t) IN IF w # 0 /\ k.vers[w].checked /\ k.vers[w].post THEN w ELSE 0

\* _s1b_exit_candidate.
ExitCandidate(k, tr) ==
    /\ k.exit.placed /\ k.exit.checked /\ k.exit.post /\ k.exit.rem > 0
    /\ tr.side = "sell" /\ k.exit.act <= tr.causal /\ tr.causal < k.exit.canEff

\* _s1b_schedule_entry_hedge, _s1b_schedule_exit_close: what is not reserved.
Reserve(k, kind, n, at) == IF n > 0 THEN Schedule(k, kind, n, at) ELSE k

EntryFill(k, v, b, tr) ==
    LET n == Least(Least(tr.n, k.vers[v].rem), Cap - k.obs)
        f == [k EXCEPT !.vers[v].rem = @ - n, !.vers[v].open = @ /\ k.vers[v].rem > n,
                       !.obs = @ + n, !.risex = @ - n,
                       !.deadline = IF @ = Never THEN tr.causal + Hold ELSE @]
        h == Reserve(f, "hedge", f.obs - f.hedged - Total(f, Pending(f, "hedge")), tr.ready)
    IN  IF tr.side # "buy" \/ n <= 0 THEN k ELSE PairFormed(h, b, tr.ready)

\* _s1b_handle_entry_trade.
EntryTrade(k, b, tr) ==
    LET w == Window(k, tr.causal)
        v == VersionFor(k, tr.causal)
        a == Activated(k, w, b, tr.causal)
    IN  IF v # 0 THEN EntryFill(k, v, b, tr)
        ELSE IF w = 0 THEN k
        ELSE IF ~a.unresolved /\ a.vers[w].post /\ a.chosen THEN Halt(a)
        ELSE a

\* _s1b_handle_exit_trade.
ExitTrade(k0, b, tr) ==
    LET k == ExitActivated(k0, b, tr.causal)
        n == Least(Least(tr.n, k.exit.rem), k.pairR)
        f == [k EXCEPT !.exit.rem = @ - n, !.pairR = @ - n, !.risex = @ + n]
        closes == {i \in Indices(f.acts) : f.acts[i].kind = "close"}
        closed == MapThenSumSet(LAMBDA i : f.acts[i].ex, closes)
        r == Reserve(f, "close", f.exit.target - f.exit.rem - closed
                                 - Total(f, Pending(f, "close")), tr.ready)
    IN  IF ~k0.exit.placed \/ k0.phase \notin {"EXIT_ACTIVE", "EXIT_CANCEL_WAIT"} THEN k0
        ELSE IF k.unresolved THEN k
        ELSE IF k.exit.checked /\ ~k0.exit.checked /\ ~k.exit.post
             THEN ExitInvalid(k, k.exit.act)
        ELSE IF ~ExitCandidate(k, tr) \/ n = 0 THEN k
        ELSE IF r.exit.rem = 0 THEN [r EXCEPT !.exit.open = FALSE, !.phase = "CLOSE_WAIT"]
        ELSE r

\* _accept_event and advance, of a trade.
OnTrade(k, b, tr) ==
    LET ours == VersionFor(k, tr.causal) # 0
    IN  IF k.phase \in Over
        THEN IF ~k.blocked /\ (ours \/ ExitCandidate(k, tr)) THEN Halt(k) ELSE k
        ELSE IF tr.ready < now /\ (ours \/ ExitCandidate(k, tr)) THEN Halt(k)
        ELSE IF ours \/ k.phase \in EntryPhases THEN EntryTrade(k, b, tr)
        ELSE IF ExitCandidate(k, tr) \/ k.phase \in ExitPhases THEN ExitTrade(k, b, tr)
        ELSE k

Prints ==
    [side : {"buy", "sell"}, n : 1..Cap, causal : {now - 1, now}, ready : {now - 1, now, now + 1}]

Trade ==
    /\ Listening /\ left.trades > 0
    /\ \E tr \in Prints :
          /\ tr.causal <= tr.ready /\ 0 <= tr.causal /\ tr.ready <= Horizon
          /\ c' = OnTrade(c, books, tr)
          /\ run' = IF tr.ready > now /\ c.phase \notin Over THEN tr.ready ELSE Never
    /\ left' = [left EXCEPT !.trades = @ - 1]
    /\ UNCHANGED <<books, now, sold>>

-----------------------------------------------------------------------------
(* Books, gaps, quotes and the end.                                        *)

DataDeferred(k, kinds) == {i \in AllPending(k) : k.acts[i].kind \in kinds /\ k.acts[i].data}

Awaiting(k, kind) ==
    {i \in Pending(k, kind) : k.acts[i].data \/ k.acts[i].due = Never} # {}

\* A woken reservation is executed, and go says whether a boundary follows.
Resumed(w, b, at) == IF w.go THEN Boundary(w.k, b, at) ELSE w.k

\* _s1b_wake_deferred_entry_hedges.
WakeHedges(k, b, at) ==
    LET Woken(h) == [k |-> h, go |-> ~Stopped(h) /\ h.phase = "ENTRY_BARRIER"]
    IN  IF k.phase \notin EntryPhases \/ ~Awaiting(k, "hedge") \/ k.sig.hedge = b.l.asks
        THEN [k |-> k, go |-> FALSE]
        ELSE Woken(EntryHedges(k, b, at, FALSE, TRUE))

\* _s1b_wake_deferred_exit_closes.
WakeCloses(k, b, at) ==
    IF k.phase \notin {"EXIT_ACTIVE", "EXIT_CANCEL_WAIT", "CLOSE_WAIT", "FORCE_WAIT"}
       \/ ~Awaiting(k, "close") \/ k.sig.close = b.l.bids
    THEN [k |-> k, go |-> FALSE]
    ELSE [k |-> ExitCloses(k, b, at, FALSE), go |-> TRUE]

\* _s1b_wake_deferred_takers.
RECURSIVE UntilStopped(_, _, _, _)
UntilStopped(k, S, b, at) ==
    IF S = {} \/ Stopped(k) THEN k
    ELSE UntilStopped(Taker(k, Min(S), b, at), S \ {Min(S)}, b, at)

WakeTakers(k, kinds, b, at) ==
    LET Tried(t) == [k |-> t, go |-> ~Stopped(t)]
        Of(S) == IF k.phase \in Over \/ S = {} THEN [k |-> k, go |-> FALSE]
                 ELSE Tried(UntilStopped(k, S, b, at))
    IN  Of(DataDeferred(k, kinds))

\* _s1b_reconsider_pair_on_book.
Reconsider(k, b, at) ==
    IF \/ k.pairR = 0 \/ (k.chosen /\ k.exit.placed)
       \/ k.phase \notin EntryPhases \cup {"UNMATCHED_WAIT"} \/ ExitReady(k, b) # "ready"
    THEN k
    ELSE IF k.phase = "UNMATCHED_WAIT" /\ Pending(k, "unmatched") = {} THEN PrepareExit(k, b, at)
    ELSE IF k.phase = "ENTRY_BARRIER" /\ Pending(k, "hedge") = {} /\ Cancelled(k, at)
    THEN BeginExit(k, b, at)
    ELSE PairFormed(k, b, at)

\* advance, of a book: what it wakes, then the pair again.
RECURSIVE Wake(_, _, _, _)
Wake(k, steps, b, at) ==
    LET woken == CASE Head(steps) = "hedges" -> WakeHedges(k, b, at)
                   [] Head(steps) = "closes" -> WakeCloses(k, b, at)
                   [] Head(steps) = "lighter takers" -> WakeTakers(k, {"forcedL"}, b, at)
                   [] OTHER -> WakeTakers(k, {"unmatched", "forcedR"}, b, at)
    IN  IF steps = <<>> THEN k ELSE Wake(Resumed(woken, b, at), Tail(steps), b, at)

OnBook(k, steps, b, at) ==
    \E w \in {Wake(k, steps, b, at)} :
        c' = IF c.phase \in Over THEN c ELSE Reconsider(w, b, at)

LighterBooks == [st : {"ok"}, asks : {0, 1, Cap}, bids : {0, 1, Cap}]
RisexBooks == [st : {"ok"}, asks : {0, Cap}, crosses : BOOLEAN]

Heard == Listening /\ left.books > 0 /\ left' = [left EXCEPT !.books = @ - 1]

\* A book of LIGHTER; the first one after a gap binds the new session and is
\* new liquidity whatever it shows (_s1b_try_bind_lighter_recovery).
LighterBook ==
    /\ Heard
    /\ \E l \in LighterBooks, skew \in BOOLEAN :
          LET fresh == books.l.st = "gap"
              k == IF fresh THEN [c EXCEPT !.sig = [hedge |-> -1, close |-> -1]] ELSE c
          IN  /\ books' = [books EXCEPT !.l = l, !.skew = skew]
              /\ OnBook(k, <<"hedges", "closes", "lighter takers">>, books', now)
              /\ sold' = (IF fresh \/ l.asks # books.l.asks THEN 0 ELSE sold)
                         + (c'.hedged - c.hedged)
    /\ UNCHANGED <<now, run>>

RisexBook ==
    /\ Heard
    /\ \E r \in RisexBooks, skew \in BOOLEAN :
          /\ books' = [books EXCEPT !.r = r, !.skew = skew]
          /\ OnBook(c, <<"risex takers">>, books', now)
    /\ UNCHANGED <<now, run, sold>>

\* A book grows old, or LIGHTER's stream has a gap.
Lost ==
    /\ Heard
    /\ \/ books' = [books EXCEPT !.r.st = "stale"]
       \/ \E st \in {"stale", "gap"} :
             books.l.st # "gap" /\ books' = [books EXCEPT !.l.st = st]
    /\ UNCHANGED <<c, now, run, sold>>

\* A gap of RISEX, an event out of order, without identity or twice in two
\* versions: nothing of the episode is certain any more.
Broken ==
    /\ Listening /\ c.phase \notin Over
    /\ c' = Halt(c)
    /\ UNCHANGED <<books, now, run, sold, left>>

\* admit, of a quote for the residue of the running episode.
Admit ==
    /\ Listening /\ Len(c.vers) < MaxQuotes
    /\ c.phase = "ENTRY_REQUOTE_WAIT" /\ c.active = 0 /\ ~c.chosen /\ now < c.deadline
    /\ \A t \in Dues(c, books, now) : t > now
    /\ \E n \in 1..(Cap - c.obs) :
          c' = [c EXCEPT !.vers = Append(@, Version(n, now)), !.active = Len(c.vers) + 1,
                         !.phase = "ENTRY_WAIT"]
    /\ UNCHANGED <<books, now, run, sold, left>>

\* finish: what is open is said to be open.
Finish ==
    /\ Listening /\ now = Horizon
    /\ LET unseen == \/ DataDeferred(c, {"hedge", "close", "unmatched", "forcedR", "forcedL"}) # {}
                     \/ c.chosen /\ ~c.exit.placed /\ c.pairR > 0
                     \/ books.l.st = "gap"
       IN  c' = IF c.phase \in Over THEN c
                ELSE IF unseen THEN Halt(c)
                ELSE IF c.phase = "ENTRY_REQUOTE_WAIT" /\ c.obs = 0 /\ AllPending(c) = {}
                THEN [c EXCEPT !.phase = "ABORTED"]
                ELSE c
    /\ now' = Horizon + 1
    /\ UNCHANGED <<books, run, sold, left>>

Next ==
    \/ Round \/ RunEnds \/ Clock
    \/ Trade \/ LighterBook \/ RisexBook \/ Lost \/ Broken
    \/ Admit \/ Finish

Spec == Init /\ [][Next]_vars

-----------------------------------------------------------------------------
(* Properties.                                                             *)

\* NORMAL, FORCED and ABORTED results have no position left on either venue
\* and no order or reservation still open.
FlatIsFlat ==
    c.phase \in {"COMPLETE", "ABORTED"} =>
        /\ IsZero(c) /\ AllPending(c) = {}
        /\ ~c.exit.open /\ \A i \in Indices(c.vers) : ~c.vers[i].open

\* The hedge never exceeds the fills, the fills the cap, and one book's
\* depth is bought once.
NothingTwice ==
    /\ c.obs <= Cap /\ c.hedged <= c.obs
    /\ books.l.st # "gap" => sold <= books.l.asks
    /\ 0 <= c.lighter /\ c.risex <= 0

\* An episode with nothing due waits for its feed: for the book a reservation
\* needs, or for a quote of the residue.  (A hedge reserved by a fill that
\* becomes ready after the barrier is down is executed by no exit boundary.)
NeverStuck ==
    run = Never /\ now < Horizon /\ c.phase \notin Over /\ Dues(c, books, now) = {} =>
        \/ \E i \in AllPending(c) :
               \/ c.acts[i].data \/ c.acts[i].due = Never
               \/ c.acts[i].kind = "hedge" /\ c.phase = "FORCE_WAIT"
        \/ c.phase = "ENTRY_REQUOTE_WAIT"
        \/ c.phase \in {"ENTRY_BARRIER", "UNMATCHED_WAIT"} /\ ExitReady(c, books) = "data"

=============================================================================
