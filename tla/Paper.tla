------------------------------- MODULE Paper -------------------------------
(***************************************************************************)
(* The paper farmer's one order and one position: the entry broker, the    *)
(* lifecycle engine, and the handlers of the runtime that drive them.      *)
(* Handlers are coroutines of one event loop.  A public trade is computed  *)
(* on a detached copy, which waits for a funding quote, and is committed   *)
(* only if nothing it stood on has changed; meanwhile the cutoff deadline, *)
(* the scan's refresh, a lost stream or another trade may run.  Every      *)
(* other handler reaches its save without giving the loop away, and is one *)
(* step.  What is stored is one SQLite row with its history; a crash keeps *)
(* that alone.  Prices, fees, funding cash, samples and settlements are    *)
(* left out: what the books show is a choice among what they may allow.    *)
(***************************************************************************)
EXTENDS Naturals, Sequences, FiniteSets

CONSTANTS Trades,        \* public trades: [id, quantity, at]
          Quantity,      \* the locked quantity of an order
          MaxAttempts,   \* bound: entry orders placed
          MaxVersions,   \* bound: price versions of one order
          MaxInFlight,   \* bound: trades computed at once, one per stream task
          MaxClock,      \* bound: entry windows begun
          MaxStops       \* bound: crashes and shutdowns

ASSUME TradesAssumption ==
    \A t \in Trades : t.quantity \in Nat \ {0} /\ t.at \in Nat
ASSUME BoundsAssumption ==
    /\ Quantity \in Nat \ {0}
    /\ {MaxAttempts, MaxVersions, MaxInFlight, MaxClock, MaxStops} \subseteq Nat

VARIABLES
    clock,       \* the entry window that has begun; its cutoff is clock + 1
    up,          \* the process runs
    broker,      \* the runtime's entry broker, or None
    pending,     \* trades computed on a detached broker, not yet committed
    lifecycle,   \* the runtime's lifecycle engine, or None
    runtime,     \* the stored runtime row: an entry, a lifecycle or None
    stage,       \* stage[a]: the stored status of attempt a
    stored,      \* trades in processed_trade_events
    fills,       \* maker fills stored, with the trades that prove them
    stops        \* crashes and shutdowns so far

memory == <<broker, pending, lifecycle>>
disk == <<runtime, stage, stored, fills>>
vars == <<clock, up, memory, disk, stops>>

None == [kind |-> "none"]
Attempts == 1..MaxAttempts
Held == {"HOLDING", "EXITING_NORMAL", "EXITING_AGGRESSIVE"}

\* The identity of an order's active price version.
Version(o) == <<o.attempt, o.kind, o.version>>

\* The trades that count toward a version die with it: a snapshot does not keep them.
Forget(o) == [o EXCEPT !.cumulative = 0, !.qualifying = <<>>]

\* A trade counts with the version that was active when it was delivered.
Counted(o, t) == Append(o.qualifying, [trade |-> t, on |-> Version(o)])

Accumulate(o, t) == [o EXCEPT !.cumulative = @ + t.quantity,
                              !.qualifying = Counted(o, t)]
----------------------------------------------------------------------------
(* The entry broker.                                                       *)

NewEntry(a) == [kind |-> "entry", attempt |-> a, cutoff |-> clock + 1,
                status |-> "OPEN", version |-> 1, cumulative |-> 0,
                qualifying |-> <<>>, keys |-> {}]

CancelEntry(b) == [Forget(b) EXCEPT !.status = "CANCELLED"]

EntryOpen(b) == b.kind = "entry" /\ b.status = "OPEN"

\* Mutant: a new version keeps what the old one had counted.
ReplaceKeepingCount(b) == [b EXCEPT !.version = @ + 1]

ReplaceVersion(b) == [Forget(b) EXCEPT !.version = @ + 1]

\* PaperEntryBroker.refresh: the cutoff or the market cancels, a moved price
\* replaces the version, else the order stays as it is or is marked as checked.
Refreshed(b) ==
    IF clock >= b.cutoff THEN {CancelEntry(b)}
    ELSE {CancelEntry(b), b}
         \cup (IF b.version < MaxVersions THEN {ReplaceVersion(b)} ELSE {})

\* PaperEntryBroker._trade_is_eligible; whether the price crosses is the market's.
Eligible(b, t, crosses) == crosses /\ t.at < b.cutoff

\* PaperEntryBroker.process_trade: the candidate's outcomes and next states.
Processed(b, t, crosses) ==
    LET seen == [b EXCEPT !.keys = @ \cup {t}]
        full == Accumulate(seen, t)
    IN  IF t \in b.keys THEN {[outcome |-> "IGNORED", state |-> b]}
        ELSE IF ~Eligible(b, t, crosses) THEN {[outcome |-> "IGNORED", state |-> seen]}
        ELSE IF full.cumulative < Quantity
             THEN {[outcome |-> "ACCUMULATED", state |-> full]}
             ELSE {[outcome |-> "CANCELLED", state |-> CancelEntry(seen)],
                   [outcome |-> "OPENED", state |-> [full EXCEPT !.status = "FILLED"]]}
----------------------------------------------------------------------------
(* The lifecycle engine.                                                   *)

NewLife(b, s) ==
    [kind |-> "exit", attempt |-> b.attempt, state |-> s, gap |-> FALSE,
     active |-> FALSE, version |-> 0, mode |-> s, cumulative |-> 0,
     qualifying |-> <<>>, keys |-> b.keys]

CancelVersion(l) == [Forget(l) EXCEPT !.active = FALSE]

NewVersion(l) == [Forget(l) EXCEPT !.active = TRUE, !.version = @ + 1,
                                   !.mode = l.state]

\* LifecycleEngine._ensure_exit_version: no maker price, or not yet due, leaves l.
EnsureVersion(l) ==
    {l} \cup (IF l.version < MaxVersions THEN {NewVersion(l)} ELSE {})

StartGap(l) == IF l.gap THEN l ELSE [CancelVersion(l) EXCEPT !.gap = TRUE]

CloseLife(l) == [Forget(l) EXCEPT !.state = "FLAT", !.active = FALSE]

\* The planned part of an evaluation: hold on, leave, or leave in a hurry.
Planned(l) ==
    CASE l.state = "HOLDING" ->
             {l} \cup EnsureVersion([l EXCEPT !.state = "EXITING_NORMAL"])
      [] l.state = "EXITING_NORMAL" ->
             EnsureVersion(l)
             \cup EnsureVersion([l EXCEPT !.state = "EXITING_AGGRESSIVE"])
      [] OTHER -> EnsureVersion(l)

\* LifecycleEngine._evaluate_locked: stale books open a gap; without an unwind
\* quote nothing is planned; a hard basis closes at two taker prices that are
\* proven; an event-driven evaluation does no more than that.
Evaluated(l, hardBasisOnly) ==
    IF l.gap THEN {l}
    ELSE {StartGap(l), l, CloseLife(l)}
         \cup (IF hardBasisOnly THEN {} ELSE {CancelVersion(l)} \cup Planned(l))

\* LifecycleEngine.recover: both legs are healthy, the gap ends, and the books decide.
Recovered(l) == Evaluated([l EXCEPT !.gap = FALSE], FALSE)

\* LifecycleEngine.restart: the exit version is cancelled and a gap stands
\* since the last stored instant; it ends at once if both books are fresh.
Restarted(l) ==
    LET gapped == StartGap(CancelVersion(l)) IN {gapped} \cup Recovered(gapped)

\* LifecycleEngine.process_exit_trade, on the active version.
ExitProcessed(l, t, crosses) ==
    LET seen == [l EXCEPT !.keys = @ \cup {t}]
        full == Accumulate(seen, t)
    IN  IF t \in l.keys THEN {[outcome |-> "IGNORED", state |-> l]}
        ELSE IF ~crosses THEN {[outcome |-> "IGNORED", state |-> seen]}
        ELSE IF full.cumulative < Quantity
             THEN {[outcome |-> "ACCUMULATED", state |-> full]}
             ELSE {[outcome |-> "SUSPENDED", state |-> StartGap(seen)],
                   [outcome |-> "SUSPENDED", state |-> CancelVersion(seen)],
                   [outcome |-> "CLOSED", state |-> CloseLife(seen)]}
----------------------------------------------------------------------------
(* What is stored.                                                         *)

\* PaperRepository.save_decision with an entry state alone.
SaveEntry(b) ==
    /\ runtime' = Forget(b)
    /\ stage' = [stage EXCEPT ![b.attempt] = b.status]

\* PaperRepository.save_decision with a lifecycle snapshot.
SaveLife(l) ==
    /\ runtime' = Forget(l)
    /\ stage' = [stage EXCEPT ![l.attempt] =
                     IF l.state = "FLAT" THEN "CLOSED" ELSE l.state]

\* _save_trade_event: a trade stored before came with another receipt time, and
\* the save of the whole decision is refused.
SaveTrade(t) == t \notin stored /\ stored' = stored \cup {t}

SaveFill(o, proof, before) ==
    fills' = fills \cup
             {[version |-> Version(o), proof |-> proof, before |-> before]}

\* Mutant: a candidate is committed whatever has happened since it was computed.
CurrentUnchecked(ps, unchanged) == ps

\* The commit of a candidate returns without effect once the broker, its state or
\* a stream it relied on is no longer what the candidate was computed on: such a
\* candidate is forgotten here when that happens.
Current(ps, unchanged) == IF unchanged THEN ps ELSE {}

KeepBroker(b) == broker' = IF EntryOpen(b) THEN b ELSE None

KeepLife(l) == lifecycle' = IF l.state = "FLAT" THEN None ELSE l
----------------------------------------------------------------------------
(* The runtime.                                                            *)

Init ==
    /\ clock = 1 /\ up = TRUE
    /\ broker = None /\ pending = {} /\ lifecycle = None
    /\ runtime = None /\ stage = [a \in Attempts |-> "none"]
    /\ stored = {} /\ fills = {} /\ stops = 0

\* Time reaches the cutoff of this window, which begins the next one.
PassCutoff ==
    /\ clock < MaxClock
    /\ clock' = clock + 1
    /\ UNCHANGED <<up, memory, disk, stops>>

\* tick: with neither an entry nor a position, the winner of a current scan is
\* activated inside its window.
Activate(a) ==
    /\ up /\ broker = None /\ lifecycle = None /\ clock < MaxClock
    /\ stage[a] = "none" /\ \A b \in 1..(a - 1) : stage[b] # "none"
    /\ broker' = NewEntry(a)
    /\ SaveEntry(NewEntry(a))
    /\ UNCHANGED <<clock, up, pending, lifecycle, stored, fills, stops>>

\* Mutant: the deadline wakes at the cutoff and asks for a later instant.
CancelAfterCutoff ==
    /\ up /\ EntryOpen(broker) /\ clock > broker.cutoff
    /\ SaveEntry(CancelEntry(broker))
    /\ broker' = None
    /\ pending' = Current(pending, FALSE)
    /\ UNCHANGED <<clock, up, lifecycle, stored, fills, stops>>

\* _entry_cutoff_deadline and tick, through _cancel_entry_at_cutoff.
CancelAtCutoff ==
    /\ up /\ EntryOpen(broker) /\ clock >= broker.cutoff
    /\ SaveEntry(CancelEntry(broker))
    /\ broker' = None
    /\ pending' = Current(pending, FALSE)
    /\ UNCHANGED <<clock, up, lifecycle, stored, fills, stops>>

\* tick's refresh of the open entry, and the one mark_disconnected makes after
\* it has invalidated the stream.  An order that was only checked is a new object.
RefreshEntry(b, unchanged) ==
    /\ up /\ EntryOpen(broker)
    /\ b \in Refreshed(broker)
    /\ unchanged => b = broker
    /\ KeepBroker(b)
    /\ SaveEntry(b)
    /\ pending' = Current(pending, unchanged)
    /\ UNCHANGED <<clock, up, lifecycle, stored, fills, stops>>

\* deliver_trade while an entry is open: the candidate is computed on a copy.
DeliverTrade(t, crosses, r) ==
    /\ up /\ EntryOpen(broker) /\ t.at <= clock
    /\ \A p \in pending : p.trade # t
    /\ Cardinality(pending) < MaxInFlight
    /\ r \in Processed(broker, t, crosses)
    /\ pending' = pending \cup {[trade |-> t, result |-> r]}
    /\ UNCHANGED <<clock, up, broker, lifecycle, disk, stops>>

\* The commit under _paper_entry_lock: the broker is the same object in the same
\* state and no stream was invalidated since.
CommitTrade(p, s) ==
    LET b == p.result.state IN
    /\ up /\ p \in pending
    /\ SaveTrade(p.trade)
    /\ IF p.result.outcome = "OPENED"
       THEN /\ SaveLife(NewLife(b, s))
            /\ SaveFill(b, b.qualifying, b.cutoff)
            /\ broker' = None /\ lifecycle' = NewLife(b, s)
       ELSE /\ s = "HOLDING"
            /\ SaveEntry(b)
            /\ KeepBroker(b)
            /\ UNCHANGED <<lifecycle, fills>>
    /\ pending' = Current(pending \ {p}, b = broker)
    /\ UNCHANGED <<clock, up, stops>>

\* The candidate is dropped: the book it took its price from has moved, or the
\* repository refused the decision.
DropTrade(p) ==
    /\ up /\ p \in pending
    /\ \/ p.result.outcome = "OPENED"
       \/ p.trade \in stored
    /\ pending' = pending \ {p}
    /\ UNCHANGED <<clock, up, broker, lifecycle, disk, stops>>

\* deliver_trade while an exit version is active: computed and committed at once.
ExitTrade(t, crosses, r) ==
    /\ up /\ ~EntryOpen(broker) /\ lifecycle # None /\ lifecycle.active
    /\ t.at <= clock
    /\ r \in ExitProcessed(lifecycle, t, crosses)
    /\ SaveTrade(t)
    /\ SaveLife(r.state)
    /\ KeepLife(r.state)
    /\ IF r.outcome = "CLOSED"
       THEN SaveFill(lifecycle, Counted(lifecycle, t), MaxClock + 1)
       ELSE UNCHANGED fills
    /\ UNCHANGED <<clock, up, broker, pending, stops>>

\* The position monitor, a book event, a lost stream and a recovered one.
Monitor(l) ==
    /\ up /\ lifecycle # None
    /\ \/ \E hardBasisOnly \in BOOLEAN : l \in Evaluated(lifecycle, hardBasisOnly)
       \/ l = StartGap(lifecycle)
       \/ lifecycle.gap /\ l \in Recovered(lifecycle)
    /\ SaveLife(l)
    /\ KeepLife(l)
    /\ UNCHANGED <<clock, up, broker, pending, stored, fills, stops>>

\* shutdown cancels an open entry and keeps an open position; a crash does neither.
Stop(safely) ==
    /\ up /\ stops < MaxStops
    /\ stops' = stops + 1
    /\ up' = FALSE
    /\ IF safely /\ EntryOpen(broker)
       THEN SaveEntry(CancelEntry(broker))
       ELSE UNCHANGED <<runtime, stage>>
    /\ broker' = None /\ pending' = {} /\ lifecycle' = None
    /\ UNCHANGED <<clock, stored, fills>>

\* _restore: a stored open entry is cancelled, never filled from history; a
\* stored position goes through LifecycleEngine.restart.
Restore ==
    /\ ~up /\ up' = TRUE
    /\ IF EntryOpen(runtime)
       THEN SaveEntry(CancelEntry(runtime)) /\ lifecycle' = None
       ELSE IF runtime.kind = "exit" /\ runtime.state # "FLAT"
            THEN \E l \in Restarted(runtime) : SaveLife(l) /\ KeepLife(l)
            ELSE UNCHANGED <<runtime, stage>> /\ lifecycle' = None
    /\ UNCHANGED <<clock, broker, pending, stored, fills, stops>>

Next ==
    \/ PassCutoff
    \/ \E a \in Attempts : Activate(a)
    \/ CancelAtCutoff
    \/ EntryOpen(broker) /\
          \E b \in Refreshed(broker), unchanged \in BOOLEAN : RefreshEntry(b, unchanged)
    \/ EntryOpen(broker) /\
          \E t \in Trades, crosses \in BOOLEAN :
             \E r \in Processed(broker, t, crosses) : DeliverTrade(t, crosses, r)
    \/ \E p \in pending, s \in {"HOLDING", "EXITING_NORMAL"} : CommitTrade(p, s)
    \/ \E p \in pending : DropTrade(p)
    \/ lifecycle # None /\
          \E t \in Trades, crosses \in BOOLEAN :
             \E r \in ExitProcessed(lifecycle, t, crosses) : ExitTrade(t, crosses, r)
    \/ lifecycle # None /\
          \E l \in Evaluated(lifecycle, FALSE) \cup {StartGap(lifecycle)}
                   \cup Recovered(lifecycle) : Monitor(l)
    \/ \E safely \in BOOLEAN : Stop(safely)
    \/ Restore

Spec == Init /\ [][Next]_vars

\* The event loop runs the owned deadline task once its time has come.  Nothing
\* makes the market fill an order, and nothing restarts a farmer that stopped.
FairSpec == Spec /\ WF_vars(PassCutoff) /\ WF_vars(CancelAtCutoff)
----------------------------------------------------------------------------
(* Properties.                                                             *)

\* What the trades of a proof add up to.
Total(proof) ==
    LET sum[i \in 0..Len(proof)] ==
            IF i = 0 THEN 0 ELSE sum[i - 1] + proof[i].trade.quantity
    IN  sum[Len(proof)]

TradesOf(f) == {f.proof[i].trade : i \in DOMAIN f.proof}

\* The trades of a proof are distinct, were each delivered while the version they
\* fill was the active one, and happened in time.
Distinct(f) == \A i, j \in DOMAIN f.proof : f.proof[i].trade = f.proof[j].trade => i = j
OnVersion(f) == \A i \in DOMAIN f.proof : f.proof[i].on = f.version
InTime(f) == \A i \in DOMAIN f.proof : f.proof[i].trade.at < f.before

\* A stored maker fill is proven by public trades that are distinct, add up to
\* the order, happened before the entry's cutoff, and were each delivered while
\* the very version they fill was the active one; and no public trade proves two
\* fills, whether of two attempts or of the entry and the exit of one, in
\* whatever order trades, repricing, gaps, restarts and redeliveries came.
FillsAreEarned ==
    /\ \A f \in fills : /\ Distinct(f) /\ OnVersion(f) /\ InTime(f)
                        /\ Total(f.proof) >= Quantity
    /\ \A f, g \in fills : f # g => TradesOf(f) \cap TradesOf(g) = {}

\* What is stored of an attempt moves as PaperPosition promises, whatever is in
\* flight: an entry cancelled at its cutoff is never filled by a trade that was
\* being computed then, a restart neither fills nor reopens anything, and no
\* second entry is placed beside an open position.
Promise == INSTANCE PaperPosition
KeepsPromise == Promise!Spec

\* While the farmer runs, an open entry order is filled or cancelled: its cutoff
\* does not depend on a tick, a scan or a stream.
EntryEnds == EntryOpen(broker) ~> ~EntryOpen(broker)
============================================================================
