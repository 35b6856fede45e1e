---------------------------- MODULE FundingOwner ---------------------------
(***************************************************************************)
(* The owner of one funding-boundary run (FundingBoundaryOrchestrator): a   *)
(* caller that starts, retrieves and closes, the Nado worker and the RISEx  *)
(* worker, each a thread, and the thread of the event loop on which the     *)
(* RISEx lifecycle runs.  Two objects join the lifecycles: a barrier before *)
(* the first write of either, and a relay by which Nado tells RISEx that    *)
(* the settlement has come.  Both block the thread that waits, so the event *)
(* loop answers nobody meanwhile.                                          *)
(*                                                                         *)
(* The two lifecycles appear by what the owner sees of them: whether they  *)
(* have written, whether they are flat, how they end.  Any read or request *)
(* of theirs may fail.  Wall clocks agree; late says that the settlement   *)
(* is past.                                                               *)
(***************************************************************************)
EXTENDS Naturals

CONSTANTS
    MaxFaults,        \* how many writes to the Nado store may fail
    EntryMayOverrun   \* the way from the barrier to the first RISEx order may take
                      \* longer than _LIFECYCLE_MARGIN_SECONDS past the settlement

VARIABLES
    main,      \* where the caller is
    call,      \* how its call ended
    late,      \* the settlement is past
    barrier,   \* _PreparationBarrier: who arrived, and its end
    relay,     \* _BoundaryProgressionRelay: the signal, or "none"
    gates,     \* the events set for the Nado worker
    aborting,  \* _nado_startup_abort, _nado_run_abort
    nado,      \* where the Nado worker is
    progress,  \* the last marker of nado_funding_progression
    blocked,   \* funding_blocker_reason is set
    risex,     \* where the RISEx worker is
    loop,      \* where the RISEx lifecycle is, on the event loop
    flags,     \* the booleans of the orchestrator
    reports,   \* _nado_report and _risex_report
    wrote,     \* venues to which a write may have left
    exposed,   \* venues that hold a position
    faults     \* failed store writes so far

owner == <<main, call>>
joint == <<barrier, relay, gates, aborting>>
worker == <<nado, progress, blocked>>
peer  == <<risex, loop>>
world == <<wrote, exposed>>
vars  == <<late, faults, owner, joint, worker, peer, flags, reports, world>>

Venues == {"NADO", "RISEX"}

Flags == {"nado_ready", "startup_ready", "nado_done", "risex_done", "close_ready",
          "store_closed", "manual", "nado_may", "risex_may", "closed"}

Init ==
    /\ main = "bridge" /\ call = "none" /\ late = FALSE
    /\ barrier = [arrived |-> {}, state |-> "open"]
    /\ relay = "none" /\ gates = {} /\ aborting = FALSE
    /\ nado = "none" /\ progress = "none" /\ blocked = FALSE
    /\ risex = "none" /\ loop = "idle"
    /\ flags = {} /\ reports = [v \in Venues |-> "none"]
    /\ wrote = {} /\ exposed = {} /\ faults = 0

Settles == ~late /\ late' = TRUE /\ UNCHANGED <<faults, owner, joint, worker, peer, flags, reports, world>>

\* One write to the Nado store fails.
Fails == faults < MaxFaults /\ faults' = faults + 1

\* What the owner's report says now.
Status ==
    IF ~{"nado_done", "risex_done"} \subseteq flags THEN "RUNNING"
    ELSE IF "manual" \in flags THEN "MANUAL"
    ELSE IF \A v \in Venues : reports[v] = "COMPLETE" THEN "COMPLETE"
    ELSE IF \A v \in Venues : reports[v] \in {"COMPLETE", "BLOCKED"} THEN "BLOCKED"
    ELSE IF flags \cap {"nado_may", "risex_may"} # {} THEN "MANUAL"
    ELSE "BLOCKED_BEFORE_WRITE"

Terminal == Status \in {"COMPLETE", "BLOCKED", "BLOCKED_BEFORE_WRITE"}

\* The event loop is inside a callback that waits, and answers nobody.
Stuck == loop \in {"at_barrier", "awaiting_relay"}

\* Mutant of RisexMay: judged by the position, not by what was dispatched.
RisexMayByPosition == Stuck \/ "RISEX" \in exposed

\* bridge.potential_write: a call that times out counts as a write.
RisexMay == Stuck \/ "RISEX" \in wrote

With(set, flag, holds) == IF holds THEN set \cup {flag} ELSE set \ {flag}

-----------------------------------------------------------------------------
(* The barrier and the relay.                                              *)

\* abort: nothing once the barrier was passed.
Abort == IF barrier.state = "passed" THEN barrier ELSE [barrier EXCEPT !.state = "aborted"]

\* wait, up to the point where the caller blocks, passes or raises.
Arrive(v) ==
    barrier' = IF barrier.state = "aborted" THEN barrier
               ELSE IF late THEN Abort
               ELSE [arrived |-> barrier.arrived \cup {v},
                     state |-> IF barrier.arrived \cup {v} = Venues THEN "passed" ELSE "open"]

\* _emit_boundary_progression: before there is an exposure nothing is recorded;
\* after it, the order of the markers decides whether the signal may leave.
MayPublish(kind) ==
    /\ relay = "none"
    /\ \/ progress = "none"
       \/ progress = "waited" /\ kind = "CANCELLED"
       \/ progress = "event"

\* cancel_boundary_progression, whose every failure is swallowed.
CancelRelay ==
    \/ /\ relay' = IF MayPublish("CANCELLED") THEN "CANCELLED" ELSE relay
       /\ progress' = IF MayPublish("CANCELLED") /\ progress # "none" THEN "started" ELSE progress
       /\ UNCHANGED faults
    \/ progress # "none" /\ Fails /\ UNCHANGED <<relay, progress>>

-----------------------------------------------------------------------------
(* The Nado worker.                                                        *)

\* Mutant of NadoFinally: only a peer that waits at the barrier is woken.
FinallyAborts ==
    /\ nado = "ending"
    /\ barrier' = IF "NADO" \in wrote THEN barrier ELSE Abort
    /\ flags' = With(flags \cup {"nado_done"}, "nado_may", "manual" \in flags \/ "NADO" \in wrote)
    /\ nado' = IF "close_ready" \in flags THEN "await_close" ELSE "exited"
    /\ UNCHANGED <<late, faults, owner, relay, gates, aborting, progress, blocked, peer, reports, world>>

\* The worker's finally begins; what it may close is decided with the failure.
NadoEnds(ready, may) ==
    /\ nado' = "ending"
    /\ flags' = With(With(flags, "close_ready", ready), "manual", may \/ "manual" \in flags)

\* An exception: the failure is made durable, or the run needs an operator
\* (_persist_nado_worker_failure).
NadoFails ==
    /\ nado \in {"await_startup", "private_read", "await_run", "observing", "at_barrier",
                 "preparing", "entered", "closing", "round_1", "round_2", "reporting"}
    /\ nado \in {"await_startup", "await_run"} => aborting
    /\ nado = "at_barrier" => barrier.state = "aborted"
    /\ \/ NadoEnds("NADO" \notin wrote, FALSE) /\ UNCHANGED faults
       \/ NadoEnds(FALSE, TRUE) /\ Fails
    /\ UNCHANGED <<late, owner, joint, progress, blocked, peer, reports, world>>

NadoBuilds ==
    /\ nado = "building"
    /\ \/ nado' = "await_startup" /\ flags' = flags \cup {"nado_ready"}
       \/ nado' = "exited" /\ flags' = flags \cup {"store_closed", "nado_done"}
    /\ UNCHANGED <<late, faults, owner, joint, progress, blocked, peer, reports, world>>

NadoStarts ==
    /\ ~aborting
    /\ \/ nado = "await_startup" /\ "startup" \in gates /\ nado' = "private_read" /\ UNCHANGED flags
       \/ nado = "private_read" /\ ~late /\ nado' = "await_run" /\ flags' = flags \cup {"startup_ready"}
       \/ nado = "await_run" /\ "run" \in gates /\ nado' = "observing" /\ UNCHANGED flags
    /\ UNCHANGED <<late, faults, owner, joint, progress, blocked, peer, reports, world>>

\* _prepare_funding_entry: the gate comes before the intent is durable.
NadoArrives ==
    /\ nado = "observing" /\ nado' = "at_barrier" /\ Arrive("NADO")
    /\ UNCHANGED <<late, faults, owner, relay, gates, aborting, progress, blocked, peer, flags, reports, world>>

NadoPasses ==
    /\ nado = "at_barrier" /\ barrier.state = "passed" /\ nado' = "preparing"
    /\ UNCHANGED <<late, faults, owner, joint, progress, blocked, peer, flags, reports, world>>

\* The entry is dispatched; whether it fills is the venue's.
NadoEnters ==
    /\ nado = "preparing" /\ nado' = "entered"
    /\ wrote' = wrote \cup {"NADO"} /\ exposed' \in {exposed, exposed \cup {"NADO"}}
    /\ UNCHANGED <<late, faults, owner, joint, progress, blocked, peer, flags, reports>>

\* _await_and_read_funding fails: RISEx is told, and the close goes on.
HoldFails ==
    /\ nado \in {"entered", "holding", "accepted", "published"}
    /\ IF relay = "none" THEN CancelRelay ELSE UNCHANGED <<relay, progress, faults>>
    /\ nado' = "closing" /\ blocked' = TRUE
    /\ UNCHANGED <<late, owner, barrier, gates, aborting, peer, flags, reports, world>>

\* The exposure is bound and the first marker written; the marker alone may fail.
BindExposure ==
    /\ nado = "entered"
    /\ \/ progress' = "waited" /\ nado' = "holding" /\ UNCHANGED <<faults, blocked>>
       \/ Fails /\ progress' = "bound" /\ nado' = "closing" /\ blocked' = TRUE
    /\ UNCHANGED <<late, owner, joint, peer, flags, reports, world>>

\* The settlement is seen in the public stream.
BoundaryComes ==
    /\ nado = "holding" /\ late /\ nado' = "accepted" /\ progress' = "event"
    /\ UNCHANGED <<late, faults, owner, joint, blocked, peer, flags, reports, world>>

Release ==
    /\ nado = "accepted" /\ MayPublish("RELEASED")
    /\ relay' = "RELEASED" /\ progress' = "started"
    /\ nado' = "published"
    /\ UNCHANGED <<late, faults, owner, barrier, gates, aborting, blocked, peer, flags, reports, world>>

\* The account's funding is read, found or not.
ReadFunding ==
    /\ nado = "published" /\ nado' = "closing" /\ blocked' \in BOOLEAN
    /\ UNCHANGED <<late, faults, owner, joint, progress, peer, flags, reports, world>>

\* The close is sent and two rounds see the account flat.
NadoCloses ==
    /\ nado = "closing" /\ nado' = "round_1" /\ exposed' = exposed \ {"NADO"}
    /\ UNCHANGED <<late, faults, owner, joint, progress, blocked, peer, flags, reports, wrote>>

\* _final_attestation: RISEx must answer for itself, on its loop, and be done.
Attested == loop = "complete"

NadoAttests ==
    /\ nado \in {"round_1", "round_2"} /\ Attested
    /\ nado' = IF nado = "round_1" THEN "round_2" ELSE "reporting"
    /\ UNCHANGED <<late, faults, owner, joint, progress, blocked, peer, flags, reports, world>>

NadoReports ==
    /\ nado = "reporting"
    /\ reports' = [reports EXCEPT !["NADO"] = IF blocked THEN "BLOCKED" ELSE "COMPLETE"]
    /\ NadoEnds(TRUE, FALSE)
    /\ UNCHANGED <<late, faults, owner, joint, progress, blocked, peer, world>>

\* The finally of _nado_worker.
NadoFinally ==
    /\ nado = "ending"
    /\ IF barrier.state = "passed"
       THEN UNCHANGED barrier /\ (IF relay = "none" THEN CancelRelay ELSE UNCHANGED <<relay, progress, faults>>)
       ELSE /\ barrier' = IF "NADO" \in wrote THEN barrier ELSE Abort
            /\ UNCHANGED <<relay, progress, faults>>
    /\ flags' = With(flags \cup {"nado_done"}, "nado_may", "manual" \in flags \/ "NADO" \in wrote)
    /\ nado' = IF "close_ready" \in flags THEN "await_close" ELSE "exited"
    /\ UNCHANGED <<late, owner, gates, aborting, blocked, peer, reports, world>>

\* The worker closes its own store when the owner asks for it.
NadoCloseStore ==
    /\ nado = "await_close" /\ "close" \in gates /\ nado' = "exited"
    /\ \/ flags' = flags \cup {"store_closed"} /\ UNCHANGED faults
       \/ Fails /\ flags' = flags \cup {"manual", "nado_may"}
    /\ UNCHANGED <<late, owner, joint, progress, blocked, peer, reports, world>>

NadoWorker ==
    \/ NadoFails \/ NadoBuilds \/ NadoStarts \/ NadoArrives \/ NadoPasses \/ NadoEnters
    \/ HoldFails \/ BindExposure \/ BoundaryComes \/ Release \/ ReadFunding \/ NadoCloses
    \/ NadoAttests \/ NadoReports \/ NadoFinally \/ NadoCloseStore

-----------------------------------------------------------------------------
(* The RISEx lifecycle on its loop, and the worker that waits for it.      *)

\* _preflight: the gate comes before the first observation.
RisexArrives ==
    /\ loop = "submitted" /\ loop' = "at_barrier" /\ Arrive("RISEX")
    /\ UNCHANGED <<late, faults, owner, relay, gates, aborting, worker, risex, flags, reports, world>>

RisexPasses ==
    /\ loop = "at_barrier" /\ barrier.state # "open"
    /\ loop' = IF barrier.state = "passed" THEN "entering" ELSE "halted"
    /\ UNCHANGED <<late, faults, owner, joint, worker, risex, flags, reports, world>>

RisexEnters ==
    /\ loop = "entering" /\ loop' = "entered"
    /\ wrote' = wrote \cup {"RISEX"} /\ exposed' \in {exposed, exposed \cup {"RISEX"}}
    /\ UNCHANGED <<late, faults, owner, joint, worker, risex, flags, reports>>

\* _before_exit_preparation: an entry after the boundary does not wait for it.
RisexHolds ==
    /\ loop = "entered"
    /\ \/ loop' = "awaiting_relay"
       \/ late /\ loop' = "exiting"
    /\ UNCHANGED <<late, faults, owner, joint, worker, risex, flags, reports, world>>

RisexReleased ==
    /\ loop = "awaiting_relay" /\ relay # "none" /\ loop' = "exiting"
    /\ UNCHANGED <<late, faults, owner, joint, worker, risex, flags, reports, world>>

RisexExits ==
    /\ loop = "exiting" /\ loop' = "complete" /\ exposed' = exposed \ {"RISEX"}
    /\ UNCHANGED <<late, faults, owner, joint, worker, risex, flags, reports, wrote>>

\* Any check of the lifecycle fails.
RisexHalts ==
    /\ loop \in {"entering", "entered", "exiting"} /\ loop' = "halted"
    /\ UNCHANGED <<late, faults, owner, joint, worker, risex, flags, reports, world>>

\* run_lifecycle returns, or its time is over: that is counted from the settlement
\* and leaves the caller 900 seconds to get from the launch to retrieve.
LifecycleEnds ==
    /\ risex = "waiting" /\ risex' = "ending"
    /\ \/ /\ loop = "complete"
          /\ \E funding \in {"COMPLETE", "BLOCKED"} :
                 /\ funding = "COMPLETE" => relay = "RELEASED"
                 /\ reports' = [reports EXCEPT !["RISEX"] = funding]
       \/ loop = "halted" /\ reports' = [reports EXCEPT !["RISEX"] = "OTHER"]
       \/ /\ late /\ loop \notin {"complete", "halted"} /\ main \notin {"release", "cleanup"}
          /\ \/ EntryMayOverrun
             \/ loop \notin {"submitted", "at_barrier", "entering"}
             \/ loop = "at_barrier" /\ barrier.state # "passed"
          /\ UNCHANGED reports
    /\ UNCHANGED <<late, faults, owner, joint, worker, loop, flags, world>>

\* The finally of _risex_worker; its thread returns a moment later.
RisexFinally ==
    /\ risex = "ending" /\ risex' = "returning"
    /\ barrier' = IF RisexMay THEN barrier ELSE Abort
    /\ flags' = With(flags \cup {"risex_done"}, "risex_may", RisexMay)
    /\ UNCHANGED <<late, faults, owner, relay, gates, aborting, worker, loop, reports, world>>

RisexReturns ==
    /\ risex = "returning" /\ risex' = "exited"
    /\ UNCHANGED <<late, faults, owner, joint, worker, loop, flags, reports, world>>

RisexThreads ==
    \/ RisexArrives \/ RisexPasses \/ RisexEnters \/ RisexHolds \/ RisexReleased \/ RisexExits
    \/ RisexHalts \/ LifecycleEnds \/ RisexFinally \/ RisexReturns

-----------------------------------------------------------------------------
(* The caller.                                                             *)

Ends(how) == main' = "stopped" /\ call' = how

\* start, one wait or one thread at a time.
StartSteps ==
    \/ main = "bridge" /\ main' = "start_nado" /\ UNCHANGED <<gates, nado, peer>>
    \/ main = "start_nado" /\ main' = "await_ready" /\ nado' = "building" /\ UNCHANGED <<gates, peer>>
    \/ main = "await_ready" /\ "nado_ready" \in flags /\ main' = "bind" /\ UNCHANGED <<gates, nado, peer>>
    \/ /\ main = "bind" /\ main' = "await_startup" /\ gates' = gates \cup {"startup"}
       /\ UNCHANGED <<nado, peer>>
    \/ main = "await_startup" /\ "startup_ready" \in flags /\ main' = "launch" /\ UNCHANGED <<gates, nado, peer>>
    \/ /\ main = "launch" /\ main' = "release" /\ risex' = "waiting" /\ loop' = "submitted"
       /\ UNCHANGED <<gates, nado>>
    \/ main = "release" /\ main' = "retrieve" /\ gates' = gates \cup {"run"} /\ UNCHANGED <<nado, peer>>

Start ==
    /\ StartSteps
    /\ UNCHANGED <<late, faults, call, barrier, relay, aborting, progress, blocked, flags, reports, world>>

\* A failure or an interrupt during start: _startup_cleanup wakes everybody. It is
\* early when the Nado worker was not announced yet.
StartFails ==
    /\ main \in {"bridge", "start_nado", "await_ready", "bind", "await_startup", "launch", "release"}
    /\ main' \in (IF main \in {"bridge", "start_nado"} THEN {"cleanup_early"} ELSE {})
                 \cup (IF main # "bridge" THEN {"cleanup"} ELSE {})
    /\ barrier' = Abort
    /\ aborting' = TRUE /\ gates' = {"startup", "run", "close"}
    /\ UNCHANGED <<late, faults, call, relay, worker, peer, flags, reports, world>>

Alive == nado \notin {"none", "exited"} \/ risex \notin {"none", "exited"}

\* After the join, which may time out.
Cleanup ==
    /\ main \in {"cleanup", "cleanup_early"} /\ Ends("startup_failed")
    /\ \/ /\ Alive
          /\ flags' = With(IF nado \notin {"none", "exited"} THEN flags \cup {"manual", "nado_may"} ELSE flags,
                           "risex_may", risex # "none" \/ RisexMay)
          /\ UNCHANGED loop
       \/ /\ ~Alive /\ main = "cleanup" /\ "store_closed" \notin flags
          /\ flags' = flags \cup {"manual", "nado_may"} /\ UNCHANGED loop
       \/ /\ ~Alive /\ (main = "cleanup_early" \/ "store_closed" \in flags)
          /\ IF "nado_may" \in flags \/ RisexMay
             THEN flags' = With(flags, "risex_may", RisexMay) /\ UNCHANGED loop
             ELSE /\ flags' = flags \cup {"closed", "nado_done", "risex_done"}
                  /\ loop' = IF loop \in {"idle", "complete", "halted"} THEN "stopped" ELSE loop
    /\ UNCHANGED <<late, faults, joint, worker, risex, reports, world>>

\* retrieve: waits for both workers, and closes what is over.
Retrieve ==
    /\ main = "retrieve" /\ {"nado_done", "risex_done"} \subseteq flags
    /\ IF Terminal THEN main' = "close" /\ UNCHANGED call ELSE Ends("report")
    /\ UNCHANGED <<late, faults, joint, worker, peer, flags, reports, world>>

\* run, interrupted while it waits.
Interrupted ==
    /\ main = "retrieve" /\ Ends("interrupted") /\ barrier' = Abort
    /\ UNCHANGED <<late, faults, relay, gates, aborting, worker, peer, flags, reports, world>>

\* close: refused while a thread that could still act is alive.
Close ==
    /\ main = "close"
    /\ \/ /\ "close_ready" \notin flags \/ risex # "exited"
          /\ Ends("manual") /\ UNCHANGED <<gates, loop, flags>>
       \/ /\ "close_ready" \in flags /\ risex = "exited"
          /\ IF loop \in {"complete", "halted"}
             THEN /\ loop' = "stopped" /\ gates' = gates \cup {"close"} /\ main' = "join"
                  /\ UNCHANGED <<call, flags>>
             ELSE Ends("close_failed") /\ flags' = flags \cup {"manual", "risex_may"} /\ UNCHANGED <<gates, loop>>
    /\ UNCHANGED <<late, faults, barrier, relay, aborting, worker, risex, reports, world>>

Join ==
    /\ main = "join"
    /\ IF "store_closed" \in flags
       THEN Ends("report") /\ flags' = flags \cup {"closed"}
       ELSE Ends("close_failed") /\ flags' = flags \cup {"manual", "nado_may"}
    /\ UNCHANGED <<late, faults, joint, worker, peer, reports, world>>

Caller == Start \/ StartFails \/ Cleanup \/ Retrieve \/ Interrupted \/ Close \/ Join

-----------------------------------------------------------------------------
Next == Settles \/ NadoWorker \/ RisexThreads \/ Caller

\* Threads run, the clock passes the settlement, and waits on venues end.
Fairness == WF_vars(Settles) /\ WF_vars(NadoWorker) /\ WF_vars(RisexThreads)

Spec == Init /\ [][Next]_vars /\ Fairness

-----------------------------------------------------------------------------
(* Properties.                                                             *)

\* What the owner closes and reports is over and true: nothing was written when
\* it says so, nobody is exposed, and no thread is left that could still act; a
\* venue only ever writes when both had come to the barrier (_snapshot_locked,
\* close, _startup_cleanup).
OwnerIsTrue ==
    /\ Terminal /\ Status # "BLOCKED_BEFORE_WRITE" => exposed = {}
    /\ "closed" \in flags =>
          /\ exposed = {} /\ loop = "stopped" /\ nado \in {"none", "exited"}
          /\ Status = "BLOCKED_BEFORE_WRITE" => wrote = {}
    /\ wrote # {} => barrier.arrived = Venues

\* A RISEx lifecycle that waits for Nado's word with a position open is always
\* told, however Nado ends, unless the one marker before the wait was lost
\* (_cancel_after_nado_termination, _await_and_read_funding).
PeerIsReleased ==
    loop = "awaiting_relay" ~> (loop # "awaiting_relay" \/ progress = "bound")

\* "A failed/interrupted Nado progression must unblock a waiting RISEx gate": not
\* so when the first marker after the exposure is not written, because the order
\* of the markers then refuses the cancellation too.
PeerIsAlwaysReleased == loop = "awaiting_relay" ~> loop # "awaiting_relay"

\* A terminal run is reported as such: not so when the RISEx thread, which has
\* said that it is done, has not returned yet.
TerminalIsReturned == call # "manual"
=============================================================================
