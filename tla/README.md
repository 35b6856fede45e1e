# Verification of risex-funding-farmer

TLA+ models, TLC runs and TLAPS proofs for the programs of this repository that
trade or decide: the live handoff system, which opens and closes matched
positions of several accounts through paired LIMIT/MARKET attempts under the
commands of one owner in Telegram
(`src/src/risex_spread_shadow/hood_handoff/`); the replay kernels of the spread
shadow (`src/src/risex_spread_shadow/`); the paper funding farmer and its public
books; and the testnet lifecycles of RISEx, Nado, Lighter and Extended
(`src/src/risex_farmer/`).

One rule stands behind most of this code: *what may have been sent is never sent
again, and nothing is reported that has not been proved.* The models check that
rule where it is hard to keep and hard to test: at cancellations, lost answers,
lagging reads, crashes, restarts, failed writes, and events that arrive between
two awaits.

## 1. Inventory

### The live handoff system

| Part | State | Operations | Talks to | What is hard | What makes it correct |
|---|---|---|---|---|---|
| Attempt journal (`journal.py`) | the JSONL file, the `flock` file; in memory the sequence, pending records, write-failed flag | acquire, append, append_many_async (worker thread), flush, release, questions about unresolved or completed mutations | the engine, as its write-ahead log | two processes on a path, cancellation during a flush, short writes, a crash between write, data sync and directory sync | sequence numbers increase, flush only under the lock, intents durable before their send, no second mutation on a path |
| Transaction socket (`ws_sender.py`) | one pending request, sent hashes, reader task | send, read loop, close | SDK adapter; the venue | late and repeated answers, failed or cancelled writes, lost connection | a transaction leaves once, an answer is the caller's own |
| SDK adapter (`sdk.py`) | nonce reservations and used nonces per account and key, preparation locks | reserve, prepare, dispatch, cancel, set leverage, invalidate; REST reads | engines; the venue | the venue repeats the nonce of a transaction in flight; cancellation at any await | a nonce is sent once, no reservation is left to nobody |
| Paired engine (`engine.py`, `contracts.py`) | journalled intents, observations, unknown reasons | prepare, source LIMIT, admission, receiver MARKET, cancel, reconcile, classify, resume | journal, SDK, private stream | every answer may be lost, every read may lag, strangers trade | outcomes are true, SUCCESS is mutual, a retry leaves nothing behind, requests leave once |
| Fan-out (`fanout_handoff.py`, `fanout_cycle.py`) | as above with k receivers | one LIMIT, k MARKETs at once | as above | partial failure of k sends | as above, per leg |
| Series (`series.py`) | parent journal, child attempts | slices of one quantity, restart | engine | restart in the middle of a child | a restart only reconciles; quantities are what was traded |
| Random cycle (`random_cycle.py`) | hold, attempts, what may be closed | opening attempts, hold, paired close, residual orders | engine, journal, SDK, stop marker | late fills between attempts, lost answers of residual orders | ends flat or says that it cannot prove it; never closes more than it opened |
| Wallet pool (`wallet_pool.py`, `wallets.py`) | `wallets.json` | draw of a pair or of a fan-out | launcher | uniformity, capacity | a draw is legal and reaches every legal choice |
| Operator recovery (`operator_recovery.py`) | `recovery-checks.jsonl`, `recovery-intents.jsonl`, close slots | check (CLOSE_READY, READY), close positions | journals of all cycles, SDK | stale proofs, interrupted checks | READY is only said of terminal orders and flat accounts |
| Lock, marker, launcher (`operator_control.py`, `cli.py`) | launch lock, stop marker, slots | launch a cycle or a closure | controller or terminal, engines | two launchers, a marker written or removed at any moment | one operation at a time, a stopped cycle sends no first order |
| Telegram controller (`telegram_control.py`) | `state.json`, task, pending stop | handle, admit, run_one, series, stop procedure, restart | launcher, recovery, Telegram | a crash with a detached child, failing saves, /stop at every await | commands run once, the barrier covers what was launched, /stop completes |
| Private stream (`stream_state.py`, `stream_evidence.py`) | hints, caches, anchors; the evidence file, its queue and writer | frames, admission, disconnection; offer, write, close, seal | engine | reconnection, stale hints; cancellation during a write | a hint never outlives its connection; a seal says what the file holds |

The controller spawns a *detached child* per cycle or closure (`cli.py`). From
then on they share only files: the launch lock, the stop marker, the slots with
their results. The child runs a cycle engine, which runs attempts one after the
other, each with its own journal. All engines of a process share one SDK client,
hence one nonce domain per account and one transaction socket.

### Spread shadow, paper farmer, testnet lifecycles

| Part | State | Operations | What is hard | What makes it correct |
|---|---|---|---|---|
| S1b kernel (`s1b.py`) | one episode: quotes, reservations, hedges, exit, holding deadline | feed events, boundaries | fills that become ready late, partial depth, gaps | a final result is flat, nothing is hedged or bought twice, nothing waits for what cannot come |
| Cycle kernel (`cycle.py`) | a lane: the running cycle and those that ended | events, clock, audit | late, repeated, contradicted trades after the end | ends are flat, a trade counts once, doubt stops the lane |
| Paper runtime (`runtime.py`, `paper_broker.py`, `lifecycle.py`, `storage.py`) | entry broker, lifecycle, one stored row | window, trades, cutoff, refresh, exit, restart | a fill computed before an await and applied after it | what is stored is a legal story of one position; a fill is backed by trades |
| Public books (`runtime.py`, `market_data.py`) | session, book, recovery episode, rescue task, refresh | connect, read, recover, rescue, refresh | answers of REST reads that arrive after a reconnect | a book in use has no hole; a lost one is mended |
| Two-account coordinator (`testnet_risex_two_account_coordinator.py`) | two SQLite journals: phase, outcome, intents, proofs | four orders, two final rounds, restart, operator recovery | a crash between the writes of two journals | each step stands on the last, a halt is final, a report is true |
| RISEx level C (`testnet_risex_level_c_runner.py`, `testnet_risex_order_lifecycle*.py`) | intents, cancellations, outcome, stream | open, reconcile, cancel, close up to three times, restart | an order that executes as its permit expires | one order at a time, COMPLETE is flat |
| Nado (`nado_testnet_lifecycle*.py`) | intent store | entry, cancel, closes, restart | an archive that lags behind execution | as above |
| Lighter (`lighter_testnet_lifecycle.py`) | one store per run | maker, cancel, open, close | a lost request that acts under a later run | as above |
| Extended (`extended_testnet_lifecycle*.py`) | intents, lifecycle, run journal, report | sealed run, and a machine driven from outside | ambiguous answers, stale evidence, failing writes of the halt | COMPLETE is settled, an exposure is on record |
| Funding owner (`testnet_risex_nado_funding_boundary*.py`) | barrier, relay, worker threads, flags | start, retrieve, close, the two workers | two threads that wait for each other | no peer waits for ever, the durable record is true |

The paper runtime is one event loop: its handlers share memory and are
interleaved at awaits; its books feed its broker. The testnet lifecycles are
separate programs, except that the funding owner runs a RISEx and a Nado
lifecycle in two threads.

Not modelled, with the reason (`PROJECT.json` lists the files): the wallet pool
(pure draws, section 6); parsing of stream reads and latency tables, readiness
checks, keychain and provenance (sequential validation and I/O); reports, cards
and views (text computed from saved journals); the public feed recorder; offline
evaluation, scanner, economics and exchange adapters (decimal arithmetic and
payload parsing); notifications and configuration; the remaining preflight and
onboarding probes (straight sequences of checks). `PROJECT.json` also lists the
hazards of the code, each at its line with the properties that would catch it.

## 2. Modules

| Module | Models | How its state corresponds to the code |
|---|---|---|
| `Journal` | `journal.py` used by the skeleton of `HandoffEngine.execute` | `file` is the page cache, `stable` and `entry` the disk, `owner` the flock; `sequence`, `pending`, `failed`, `created` per process as in `DurableJournal`; `cancels`, `worker`, `batch` the task that waits for a flush and the thread it may leave; `sent` is what the venue saw |
| `WsSender` | `WarmTxSender` and the venue behind it | `lock`, `attempted`, `pending`, `future`, `closed`, `socket` are the fields of the class; `handed`, `wire` the connection |
| `NonceDomain`, `Nonces` | the nonce domain of one account in `sdk.py` | `reserved`, `blocked`, `lock`, `token` are `_nonce_reservations`, `_blocked_nonces`, the preparation lock and `ReservedNonce`; `venueNext` the venue |
| `PairedAttempt` | abstract: what an attempt promises its caller | `exposed`, `open`, `fills`, `report` |
| `Handoff` | one paired attempt of `engine.py`, in its three admission modes | `order`, `matched` the venue; `intents`, `canceled` the journal; `pc` the await; `reasons` is `unknown_reasons`; `evidence` the results of `_reconcile_leg`; `result` the `HandoffResult` |
| `Fanout` | one fan-out attempt | as `Handoff`, with a set of receivers |
| `Series` | a series of slices over children that keep the promise of `PairedAttempt` | `journal` the parent's events, `child` the children with their journals and orders, `pos` the accounts |
| `RandomCycle` | one cycle over abstract attempts | `opening`, `closing` the results as the cycle looks at them, `used` the `_PairAttemptBudget`, `known`, `pending`, `ready` those of `close_reconciled_positions`, `barrier` is `_identity_barrier` |
| `Controller` | `telegram_control.py` with the launcher's children and a terminal operator | `mem` and `disk` are `store.data` and `state.json`, `pc` the await of the task, `stop` is `_stop`, `marker` the file, `cycles` and `closes` the slots, `proc` and `lock` the processes and the launch lock |
| `StreamState` | the projection and the caches of one read stream | the fields of `observer` and `reads`; ages are one bit |
| `StreamEvidence` | the evidence file of a stream | `queue`, `writer`, `thread` and its `job`, `fd`, `session` the await of the owner, `cancels`; the rows on `disk` and the `seal` |
| `S1bEpisode`, `CycleKernel` | the two replay kernels | a record `c` (`k`) is the kernel's state, a handler an operator on it; the feed is what is not under its control |
| `PaperPosition` | abstract: what the stored record of an attempt may become | `stage` |
| `Paper` | broker, lifecycle and the runtime's handlers | `broker`, `lifecycle` in memory, `runtime`, `stage`, `stored`, `fills` in SQLite, `pending` the trades across an await |
| `BookRecovery`, `AggregateBook` | a book on its venue's socket (RISEx, Lighter, Nado); the one Extended socket for all books | `sess`, `book`, `live`, `ep`, `task`, `ref` are the runtime's session, book, `_live_book_ready`, `RecoveryEpisode`, rescue and refresh; a book is the set of the changes it shows |
| `TwoAccount` | the two-account coordinator | `phase`, `outcome`, `intent`, `sealed`, `spent`, `final` the journals, `todo` the durable writes still to be made, `seen`, `read` the observation |
| `NadoLifecycle`, `LighterLevelC`, `RisexLevelC`, `ExtendedVenue` with `ExtendedLevelC` and `ExtendedLifecycle` | the single-venue lifecycles | the venue's orders, the store, and where `run()` is; the position is the `Total` (`Totals`) of what the orders filled |
| `FundingOwner` | the owner, its threads, the barrier and the relay | one `pc` per thread; `flags`, `reports`, `progress` are the booleans, reports and markers of the orchestrator |

`MC*` modules instantiate a module for TLC, `*Proofs` modules hold its theorems.
`MCRecords`, `MCSdk`, `MCHandoff`, `MCFeed` and `MCTestnet` put components that
share no state beside each other: the initial state chooses with `which` the one
that runs. That is a sum and not a product, so each component is explored
exactly as alone.

Refinements: `Handoff` and `Fanout` implement `PairedAttempt` (exposed legs are
orders that left, open legs are orders in flight or resting, a report is
`UNKNOWN` or final and true); `Paper` implements `PaperPosition` (`stage` is what
the database holds). `RandomCycle` and `Series` are built on `PairedAttempt`, so
whatever they rely on is in that promise.

**Granularity.** A coroutine runs undisturbed between two awaits, so an action is
what runs between two awaits, with every early return and exception path of that
stretch as a disjunct. Where separate processes, threads or power losses meet
(`Journal`, the children of `Controller`, `StreamEvidence`, `FundingOwner`, the
testnet stores) an action is one system call, one durable write or one change of
a shared object.

**What each model leaves out.** Every definition's lines are in `PROJECT.json`;
each module's header says what it abstracts. In short:

* `Journal`: file modes, ownership and symbolic links. A flush of the second
  order is cancelled up to twice: the first cancellation drains the worker, the
  second leaves it to write by itself, a third finds the task on its way out.
  What two flushes of one queue write is the queue as it is or as the first of
  them found it. `EntryMayBeLost` chooses
  whether a power loss may forget an unsynced directory entry; the passing run
  assumes it may not, because with it the code has the finding of section 5.
* `WsSender`: JSON shapes are classes of answers; the lifetime limit and invalid
  arguments are refusals before the lock. `Nonces`: one account and key.
* `Handoff`, `Fanout`: freshness and deadline checks are refusals that may come
  at any check; account identity conflicts, the legacy CLOSE_REOPEN mode with its
  freeze and dispatch without preparation are left out. The fills of an
  unresolved leg are not part of a report. `AdmittedWhenSent` speaks of the
  hand-over to the transport, not of arrival at the venue.
* `Series`: configuration, preview mode, the depth of the book behind a slice and
  the validation of stored bindings; one reconciliation finding per restart. The
  crash between the reading of a child's journal and the durable record of the
  reconciliation is a branch of the reconciliation. A restart that finds one
  already recorded conflicts with it, as in the code (`ReceiptsConflict`, the
  finding at series.py:1383); there the series reports less than its orders
  traded, never more.
* `RandomCycle`: the accounts are traded by the cycle alone and start flat, as
  its first reads demand. A read is any value that passes or fails the code's
  next comparison, so nothing rests on a read being fresh. An exception anywhere
  ends the cycle; a cancelled task or a crash is the same to the accounts, since
  nothing resumes a cycle. The pilot variants are left out.
* `Controller`: dialogue questions, notices, cards, result texts, series
  membership. Operator recovery appears as single steps that hold the launch lock
  throughout and may fail at any time. A failed save may or may not have reached
  the disk. Saves that fail inside `Restart` are left out. The last look at
  the marker (`Checks`) and the first order (`Opens`) are two steps; what a cycle
  does once it trades is one step, which may never come.
* `StreamState`: one stream per client life (as in the code), one item per order
  frame. `StreamEvidence`: the session is cancelled at any of its awaits, at
  most `MaxCancels` times (two: one that drains and one more; the theorem has no
  bound); the timer of `wait_for` that Python 3.11 drops and 3.12 keeps after a
  cancellation may fire or not.
* `S1bEpisode`, `CycleKernel`: prices only decide whether a quote crosses; fees,
  marks, grids, the block fence, other sessions and generations, variants'
  re-pricing, missing timing and compaction are left out. Halting events are one
  class. `Silence` bounds how long the cycle kernel gets no event, `Rounds` the
  boundaries of one call: a call that has not come back after them is one that
  never does.
* `Paper`: settlements, prices, fees, samples, outage recovery and the timing of
  a shutdown. Activation is one step because `_start_entry_cutoff_deadline`
  yields only when an old deadline task remains.
* `BookRecovery`, `AggregateBook`: validity and freshness of best prices, the
  reconciliation of the combined streams, trades and funding on the same
  sockets; a subscription of RISEx is answered in the end.
* `TwoAccount`: baseline history, fingerprints and the validation of markets and
  portfolios are one refusal. `_cancel_residue` is dead code and not modelled.
* `NadoLifecycle`: paced reads and DNS. The runner's entry is IOC, but a resting
  one with its CANCEL_ALL is modelled, as the code handles it.
* `LighterLevelC`: DRY_RUN and PREPARE, the choice of a market, fees, freshness.
* `RisexLevelC`: encodings, digests, signing, freshness windows, the equality of
  nonces, the run journal, the limit of frames, rows that are open and partly
  filled. Its public sweeps are exact.
* `Extended*`: schemas, vectors, paging, the numbers behind the gates; stream
  evidence is one consistent view; one kind of cancellation; an order fills in
  parts only at its end.
* `FundingOwner`: what happens inside either lifecycle; one failed store write;
  timeouts of `retrieve()` and the death of the process. `EntryMayOverrun` is
  FALSE in the run: TRUE shows the finding at orchestration:942.

## 3. Runs

| Run | Question | Bounds and why they suffice |
|---|---|---|
| `journal` | does the log stay a log, is every send announced on disk, does the read stream speak of its own connection, are the public books whole? | three processes: one that holds the lock, one that read the sequence before, one that comes after a crash; one failed system call and one power loss at any point, two cancellations of each process (a third changes nothing); a stream of three frames about two orders: one that confirms, one that disturbs, one that repeats (the theorem needs no bound); a book with four changes (two before a loss, one behind it, one after), two sessions, two faults, a buffer of two; two Extended markets, three frames, two sessions, a fault, silence or change of the catalog |
| `sdk` | can a transaction or a nonce leave twice, a caller get another's answer, a reservation be forgotten, a seal be false? | three calls, two with one transaction; two answers, so one may be late and one repeated; three mutations and nonces 0..2: one in flight, one that meets its nonce, one after it; five rows over a queue of three that the writer empties two at a time, so it overflows, drains and meets its end both alone and behind rows; two cancellations, the second while the first is drained |
| `handoff` | is what an attempt, a fan-out, a series reports true? | quantity 2 (nothing, part, all), three rounds of reads (the code compares the last two), two restarts (the second sees what the first recorded), every admission mode; two receivers; a series of up to two slices with a restart and one foreign change of the positions |
| `cycle` | is what the cycle sends and reports covered by evidence, and does it end? | quantity 2, two opening and two closing attempts (one repeated), residual orders without bound |
| `controller` | are commands executed once, does the durable record cover what was launched, does a stop reach its cycle, does everything end? | two commands (one running and a /stop, or one after the other), series of two, one terminal operation, one crash, one failed write, each at any moment |
| `paper` | is the stored story of a position legal, its fills earned, and does an entry end? | two attempts in two windows, two versions, trades of 1, 1 and 2 lots of a quantity of 2 (a part, the rest, too much), two in flight, two crashes or shutdowns |
| `feed` | do the kernels report what the feed shows? | an S1b episode of two quotes with a fill in two parts; two feed events over a lane of cycles, two fill models |
| `testnet` | do the testnet lifecycles tell the truth after any crash, and is no peer left waiting? | two or three lots (nothing, part, all), three runs over one journal, two stores of Lighter with a late request of the first, three closing attempts of Nado, two processes of RISEx level C, one failed write of the owner |
| `journal_entry`, `journal_fused`, `controller_stop_deaf`, `cycle_overlap` | what the repository says and the code does not do | the smallest bounds that show them |

`CHECK_DEADLOCK FALSE` throughout: an attempt, a set of calls, a lifecycle, a
feed that is over, or an owner who has sent the last command really stop.

**Fairness.** `Handoff`, `Fanout`, `Series`: weak fairness of the program's own
steps; every await is under a timeout and every poll is counted, nothing is
assumed of the venue. `Nonces`: strong fairness of each task's
submit-or-release step, since the preparation lock is a FIFO `asyncio.Lock` and
the engine releases in a `finally`. `StreamEvidence`: weak fairness of the
thread, the writer and the session, whose waits have timeouts. `Controller`:
weak fairness of the task, whose awaits are bounded but for the one for its child,
and of each child's way to its first order, which counts its attempts. Of a child
that trades nothing is assumed: its residual loop (`random_cycle.py:4004`) counts
no attempts and looks at no marker, and the controller waits without a timeout.
`OwnerIsAnswered` therefore has the premise `[]<>~ChildCloses`, that the
controller's children that trade come to an end again and again; `RandomCycle`
says when one does. Nothing is assumed of the owner, of a restart or of the
terminal. `RandomCycle`: weak fairness of the cycle's steps
and of the end of a poll interval; nothing is assumed of the venue, so one that
answers residual orders without ever filling keeps the cycle running, as in the
code, which states that it imposes no attempt count (`EndsOrUnfilled` says that
nothing else does). `Paper`: time passes and the cutoff's timer, once due, runs.
`FundingOwner`: weak fairness of its threads and of the settlement.

Every property of a passing run has a mutant: a definition altered as a
plausible bug would alter it, kept beside the original, under which TLC finds
the property violated.

## 4. Proofs

`tlapm M.tla` checks the theorems of a `*Proofs` module. They hold for every
value of the constants that satisfies the named assumptions of the module:
any number of processes, calls, tasks, accounts, lots, slots, crashes and
failures. Each proof has the same shape: an inductive invariant, a conjunction of
named parts that TLC checked first; a lemma that it holds initially; a lemma that
each step preserves it, with one step per action; and a theorem per property.

| Module | Theorems | The invariant, and why it is needed |
|---|---|---|
| `JournalProofs` | `LockExcludes` (`FlushHoldsLock`), `TypeCorrect`, `SequenceCorrect` (`SequencesIncrease`), `DurableCorrect` (`SentIsDurable`), `NoReplayEver` (`NoReplay`) | seven layers, each resting on the ones before: types; who holds or claims the lock; whose records a process has queued, and that one that was cancelled never sends its second order; sequence numbers in the file, in memory and in pending lines increase, but for the records of the runs cancelled twice; what reached the disk is a prefix of the file; a send stands behind a durable line; a process that acts has read everything that was sent. That a prefix of the file survives a power loss rests on `EntryIsKept`, the hypothesis that the directory entry is not lost (finding journal.py:361). In the same module, because the same run checks it, `StreamsAreTrue` (`StreamIsTrue`) of `StreamState`: what is cached of an order is what was last accepted of it, a hint that woke a waiter is consumed, and what disturbs an admission leaves a trace that nothing removes. `BooksSayTheTruth` (`BooksAreTrue`) of `BookRecovery` and `AggregateBook`: see below. |
| `SdkProofs` | `NeverReplayed` (`NoReplay`), `OnlyOwnAnswers` (`AnswerIsOwn`), `NoncesCorrect` (`NoncesAreTrue`), `EvidencesAreTrue` (`EvidenceIsTrue`) | socket: the hash of what was handed is marked, by a call that left the queue; an answer on the future came for the request that is pending. Nonces: who is ready owns the reservation of its nonce, what was sent is blocked, who holds a token is on its way to use or release it. Evidence: as long as no row was lost, the file, what the thread writes and the queue are together the rows offered, in order; a seal about to be written is as true as one in the file; how often the wait for a running thread was interrupted, and where that leaves the writer and the session. |
| `HandoffProofs` | `TypeCorrect`, `OutcomesAreTrue` (`OutcomeIsTrue`), `RetriesAreSafe` (`RetryIsSafe`), `NothingIsSentTwice` (`SentOnce`), `SentWhenAdmitted` (`AdmittedWhenSent`), `KeepsItsPromise` (`KeepsPromise`), and the facts they stand on, `EvidencesAreTrue`, `ReportsAreTrue`, `SuccessesAreMutual` | four parts: the venue's ledger, what the evidence of each leg says of it, what the report says of the evidence, and where each send can still come from. A report is drawn long after the reads: the invariant says that what was read as terminal stays so. `KeepsPromise` is the refinement of `PairedAttempt`. In the same module, because the same run checks it, `SeriesSayTheTruth` (`SeriesIsTrue`): see below; and of a fan-out attempt `FanoutsAreTrue`, `FanoutsKeepTheirPromise`, with `FanoutsReportTheTruth` (`FanoutIsTrue`) and `FanoutsArePairs` (`FanoutKeepsPromise`) for the model that is run: what left and behind which intents, what may have left where the engine is, that an established leg stays as it is, that a result other than UNKNOWN tells of orders that have ended. |
| `CycleProofs` | `CyclesAreSound`, `CyclesSayTheTruth` (`CyclesAreTrue`, a part of `ReplaysAreTrue`) | of each cycle, what its fills and its takers made of it, phase by phase; of the lane, that the cycles it kept have ended, each with its own fills, and that doubt is never behind it: see below. |
| `RandomCycleProofs` | `TypeCorrect`, `FlatIsTrue` (`FlatIsFlat`), `ResidualsAreExact` (`ResidualIsExact`), `AttemptsAreApart` (`AttemptsDoNotOverlap`), and `ConfirmedCyclesAreFlat`, `SuccessesAreFlat` | what the cycle holds, what a closing attempt may still change, and what recovery has proved: proved positions bound the real ones, so CONFIRMED_FLAT is safe even after a closing attempt that raised. |
| `ControllerProofs` | `TypeCorrect`, `CommandOnceCorrect` (`CommandOnce`), `BarrierCorrect` (`BarrierHolds`), `DoubtAndStopCorrect` (`DoubtAndStopHold`), `StopReachesTheChild`, `LaunchesAreFlat` | what each await of the task leaves behind: which child runs, which slot and record belong to it, what a terminal operation may have done meanwhile, where the offset of Telegram stands. `BarrierCorrect` assumes at most one terminal operation: with two a restart misjudges (end of section 5). |
| `TestnetProofs` | of the run, `ReportsAreTrueOfTheVenue` (`ReportsAreTrue`), `OrdersStandAlone` (`OneOrderAtATime`); of the two accounts, `TypeCorrect`, `StandsOnTheLast` (`EachStepStandsOnTheLast`), `HaltedIsSilent` (`HaltedSendsNothing`), `ReportCorrect`; of each other lifecycle, `NadoCorrect`, `LighterCorrect`, `LevelCorrect`, `OwnerCorrect`, `SealedCorrect`, `DrivenCorrect` | two accounts: orders only grow and are sent once; the writes still to be made are safe one by one, so that a crash between any two leaves journals from which the restart agrees or halts; what was observed is never more than what is. One account: only the last order sent can still trade, the position is the sum of what the others filled, and what was read of an order, or is on the way in a stream, was true when it was said and stays so of an order that has ended. The run: the lifecycle that runs keeps to its invariant, the others stand still. |
| `PaperProofs` | `FillsEarned` (`FillsAreEarned`), `PromiseKept` (`KeepsPromise`) | what the row says of the memory of the process; a trade in flight is an outcome of the order that still stands; what the order took is what the tape offered. `KeepsPromise` is the refinement of `PaperPosition`. |

The assumptions on constants are the modules' own (`ASSUME` in `Journal`,
`Handoff`, `RandomCycle`, `Controller`, `CycleKernel`, `Paper`, `TwoAccount`, `NonceDomain`,
`MCRecords`, `MCHandoff`, `MCSdk`, `MCTestnet`): sentinels outside the sets they extend, bounds that are natural
numbers. Of a fan-out they ask `AccountsDiffer` and `PartsFit`, which
the configuration's validation establishes (fanout_handoff.py:119-125) and TLC
evaluates on the instance: the receivers' parts sum to the source's quantity, of
which the proof needs only that no part exceeds it. Three results have a hypothesis
about the environment: `EntryIsKept` and the single terminal operation, named
above, and `WithinMargin` for the funding-boundary owner, by which the way from
the barrier to the first RISEx order takes no longer than the margin left past
the settlement (finding orchestration:942). `OneOrderAtATime` and the other
lifecycles need it not.

A position is the sum of a sequence of fills (`Totals`), a recursive function.
That a function with its equation exists, and that it has one value, is proved
from the well-foundedness of the naturals by a least counterexample
(`Least`, `SumsExist`, `SumsAreUnique`); from it follow what one more order and
one more fill do to the sum (`TotalAppend`, `TotalChange`), which is all that the
proofs of Nado and of RISEx level C use.

`CyclesSayTheTruth`: before the hedge a cycle is short exactly what its entry
filled and has nothing queued; from the hedge on its positions are what the paired
and unmatched quantities say (`Paired`), and no taker but the one that repairs an
unmatched rest runs while there is one. Each boundary, each fill and each halt
keeps that, so a cycle that completes with nothing left is flat. The rounds of
`_run_due_until` and the takers of one boundary are recursive functions, taken
care of by a least counterexample as for the sums below.

`SeriesSayTheTruth`: what the orders of a series traded is the sum over its
completed children and what the last one filled. The invariant has the types; the
records, which say of a child that was asked for whether its fills are counted,
known or still to be reconciled; the sums over the list of children; where the
coordinator is; and what its answer says. The sums are those of `Totals`. The
theorem is for any number of slices and of restarts, where the run has one.

`BooksSayTheTruth`: on the Extended socket a market's book is kept only while the
frames behind it in the queue follow by number. The invariant says of any two
neighbours of the queue that belong to one market, of its head and of its end,
what the venue changed between them, so that taking a frame never leaves a hole
and a hole in the numbers is always noticed. For a book on its own socket the
frames on the wire come in the order of the book, the buffer of an episode never
reaches behind the last frame read, and a book in use shows the changes 1 to n; a
part for each venue says who mends a book that was lost: RISEx an answer to the
subscription that is still to come, Lighter that or a timer, Nado a rescue. What
a snapshot and the buffered deltas make together (`CaughtUp`) is a recursive
function over the buffer; that it exists and what it keeps is proved by a least
counterexample, like the sums.

**Only model-checked.** Liveness is out of the prover's reach
(`OwnerIsAnswered`, `AttemptsEnd`, `NoStarvation`, `EndsOrUnfilled`,
`EntryEnds`, `PeerIsReleased`, `WhatBeginsEnds`). Of `ReplaysAreTrue` the part
`CyclesAreTrue` is a theorem; that no fill is overlooked and that the kernel always
comes back (`NoneOverlooked`, `NeverSpins`) are not proved, and `S1bEpisode`
replays its tape with recursive operators that the prover cannot read. Every other
safety property that a passing run checks is the statement of a theorem.

## 5. Findings

`PROJECT.json` has each with its line and the text it contradicts. Four have a
run of their own:

* `journal.py:361` (`journal_entry`): only the flush that created the file syncs
  its directory. When that process dies before the directory sync, the next one
  finds the file, writes and sends, and nobody ever syncs the entry: a power loss
  forgets a journal whose attempt was sent.
* `journal.py:249` (`journal_fused`): a last line that lacks only its newline is
  accepted, the next record joins it, and the file no longer decodes although its
  mutation is sent.
* `telegram_control.py:932` (`controller_stop_deaf`): while a terminal's cycle
  holds the launch lock, /stop writes the marker and removes it in the same step
  because the check is refused; that cycle never sees it and opens.
* `random_cycle.py:3847` (`cycle_overlap`): an exception of a closing attempt is
  taken for a closing that never began; when the reads lag, residual orders are
  sent beside its resting order.

Found while modelling, shown by no run of their own:

* `journal.py:315`: a second cancellation of a task that drains its flush lets
  `release_attempt` flush the same queue again and unlock while the worker still
  writes: records may be doubled, and the next process may write beside it. The
  order behind that flush never leaves (`FlushHoldsLock`).
* `stream_evidence.py:168`: the same of a row being written: a second
  cancellation, or from Python 3.12 on the timer of `wait_for`, has the descriptor
  closed under the thread; one in the `finally` of `close` leaves it open.
* `random_cycle.py:2539`: a /stop written between the last look at the marker and
  the first order is not seen before that order.
* `telegram_control.py:823`: a save that fails inside a handler skips the stop
  procedure.
* `runtime.py:6161`: the rescue of a Nado book publishes while its socket is
  down; `:7461`: an Extended market that is re-routed keeps the recovery of the
  old session; `:2339`: a Lighter book without sequence is installed while a
  recovery owns the stream.
* `cycle.py:3255`: a close that is due in the past makes the loop run for ever;
  `:2152`: `advance_clock` drops a halted cycle without retaining its result;
  `:2893`: a trade without identity is ignored while a close is awaited.
* `s1b.py:4157`: the hedge of a fill that becomes ready after the barrier is down
  is executed at no boundary (the part of `ReplaysAreTrue` that says nothing waits
  for ever excepts exactly that hedge); `:3170`: an exit filled while its forced
  cancellation waits halts the episode for an older event that is none.
* `series.py:1383`: a second restart conflicts with the reconciliation of the
  first and reports only the completed slices.
* `nado_testnet_lifecycle_operational.py:1588`: a first marker that cannot be
  written leaves the RISEx lifecycle waiting for ever.
* `testnet_risex_nado_funding_boundary_orchestration.py:1356`: `retrieve` raises
  MANUAL_RECOVERY_REQUIRED for a thread that is done and has not returned yet;
  `:942`: `potential_write` is read before the first order leaves, so an entry may
  overrun its window (`EntryMayOverrun`).
* `lighter_testnet_lifecycle.py:2682`: a 200 without `tx_hash` is recorded as
  REJECTED and the run ends BLOCKED although the venue may have the order.

A hazard that is no contradiction: with two terminal operations, a closure and
then a flat cycle, between the creation of the controller's closure and its slot,
a restart takes the wrong result for its own (`telegram_control.py:478`).

## 6. Plan

* Proofs: the rest of `ReplaysAreTrue`, for the S1b kernel once its recursion is
  over functions.
* Models: operator recovery (`operator_recovery.py`: the interrupted check, a
  proof bound to the bytes of a journal that grew since), the draws of the wallet
  pool, the fan-out cycle.
* An instance with a second terminal operation for the hazard at
  `telegram_control.py:478`.
