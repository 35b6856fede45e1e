------------------------------- MODULE Fanout -------------------------------
(***************************************************************************)
(* One fan-out attempt of FanoutHandoffEngine (fanout_handoff.py): a       *)
(* POST_ONLY LIMIT of the whole quantity on the source account and, once   *)
(* its positive ACK and the local book admit it, one IOC MARKET per        *)
(* receiver account, all sent at the same time; then cancellation,         *)
(* reconciliation of every leg and one outcome.  An attempt cut short is   *)
(* never resumed in place.                                                 *)
(*                                                                         *)
(* The reconciliation of a leg is the engine's own (_reconcile_leg), taken *)
(* here as module Handoff shows it to be: what it establishes is true, or  *)
(* it establishes nothing.  The local stream is not a variable: what it    *)
(* says at the two barriers is a choice.                                   *)
(***************************************************************************)
EXTENDS Naturals, FiniteSets, Functions

CONSTANTS
    Receivers,   \* the receiver accounts
    Part,        \* the quantity of each (config.receivers)
    MaxRestarts, \* bound on relaunches on the same journal
    NoOrder      \* "the order was not found"

Whole == SumFunction(Part)
Legs == {"source"} \cup Receivers

\* The accounts are distinct, and no part is more than their sum.
AccountsDiffer == {"source", "cancel"} \cap Receivers = {}
PartsFit == Whole \in Nat /\ \A r \in Receivers : Part[r] \in 0..Whole

Size(l) == IF l = "source" THEN Whole ELSE Part[l]

Terminal == {"filled", "canceled", "postonly"}
Statuses == Terminal \cup {"unsent", "flight", "refused", "live"}
Orders   == [status : Statuses, fill : 0..Whole]

Ended(o) == o # NoOrder /\ o.status \in Terminal

\* What is kept of an order that was read.
Glimpse(o) == IF o = NoOrder THEN "none"
              ELSE IF Ended(o) THEN "ended"
              ELSE IF o.fill = 0 THEN "resting" ELSE "filling"

\* unknown_reasons, as far as an outcome tells them apart (Handoff has the
\* others, which only the other admissions write).
PreDispatch == {"not prepared", "stream not ready", "preparation failed",
                "stream unavailable"}
Provisional == {"stop", "veto", "stream not ready", "stream unavailable"}
Reasons     == PreDispatch \cup Provisional \cup {"vanished", "unresolved"}

Outcomes == {"SUCCESS", "PARTIAL", "UNKNOWN", "FAILED_PREFLIGHT_BLOCKED"}

VARIABLES
    order,      \* the venue: the order of each leg
    matched,    \* the venue: what the source and a receiver traded together
    intents,    \* the journal: legs with a dispatch intent
    sends,      \* how often each request left: the orders and the cancel
    pc,         \* where the engine is
    dispatched, \* legs whose dispatch was attempted
    request,    \* where the MARKET of each receiver is (send, observe)
    seen,       \* source_order: the last observation of the source order
    fresh,      \* exact_order_just_read
    reasons,    \* unknown_reasons
    evidence,   \* the reconciled legs
    result, restarts

venueVars == <<order, matched>>
memory    == <<dispatched, request, seen, fresh, reasons, evidence>>
vars      == <<venueVars, intents, sends, pc, memory, result, restarts>>

-----------------------------------------------------------------------------
\* Not reconciled yet; nothing is established; never sent; or as it ended.
Pending   == [state |-> "pending", status |-> "unsent", fill |-> 0]
Unknown   == [Pending EXCEPT !.state = "unknown"]
Untouched == [Pending EXCEPT !.state = "clean"]
As(o)     == [state |-> "clean", status |-> o.status, fill |-> o.fill]
Evidence  == [state : {"pending", "unknown", "clean"},
              status : Terminal \cup {"unsent"}, fill : 0..Whole]

NoResult == [outcome |-> "none", retry |-> FALSE, fills |-> [l \in Legs |-> 0]]
Refused  == [NoResult EXCEPT !.outcome = "UNKNOWN"]

Requests == {"idle", "sending", "sent", "answered", "lost"}

\* What an attempt holds in memory when it starts.
Blank ==
    /\ dispatched = {} /\ seen = "none" /\ fresh = FALSE /\ reasons = {}
    /\ request = [r \in Receivers |-> "idle"]
    /\ evidence = [l \in Legs |-> Pending]

Init ==
    /\ order = [l \in Legs |-> [status |-> "unsent", fill |-> 0]]
    /\ matched = [r \in Receivers |-> 0]
    /\ intents = {} /\ sends = [l \in Legs \cup {"cancel"} |-> 0]
    /\ pc = "preflight" /\ Blank
    /\ result = NoResult /\ restarts = 0

Forget ==
    /\ dispatched' = {} /\ seen' = "none" /\ fresh' = FALSE /\ reasons' = {}
    /\ request' = [r \in Receivers |-> "idle"]
    /\ evidence' = [l \in Legs |-> Pending]

\* What a read of an order may return: it lags by any amount, but an order read
\* as terminal has ended.
View(l) ==
    LET o == order[l] IN
    IF o.status \in {"unsent", "flight", "refused"} THEN {NoOrder}
    ELSE IF o.status = "postonly" THEN {NoOrder, o}
    ELSE {NoOrder, o} \cup
           {[status |-> "live", fill |-> n] : n \in {n \in 0..o.fill : n < Size(l)}}

-----------------------------------------------------------------------------
(* The venue.                                                              *)

others == <<intents, sends, pc, memory, result, restarts>>

Status(n) == IF n = Whole THEN "filled" ELSE "live"

SourceArrives ==
    /\ order["source"].status = "flight"
    /\ \E s \in {"live", "postonly", "refused"} :
          order' = [order EXCEPT !["source"].status = s]
    /\ UNCHANGED <<matched, others>>

\* A MARKET takes `own` of what rests of the source and `other` of the rest of
\* the book, and ends, or is refused.
ReceiverArrives(r) ==
    /\ order[r].status = "flight"
    /\ \/ /\ order' = [order EXCEPT ![r].status = "refused"]
          /\ UNCHANGED matched
       \/ \E own, other \in 0..Part[r] :
            LET total == order["source"].fill + own IN
            /\ own + other <= Part[r]
            /\ own > 0 => order["source"].status = "live" /\ total <= Whole
            /\ order' = [order EXCEPT
                  ![r] = [status |-> IF own + other = Part[r] THEN "filled" ELSE "canceled",
                          fill |-> own + other],
                  !["source"] = IF own = 0 THEN @
                                ELSE [status |-> Status(total), fill |-> total]]
            /\ matched' = [matched EXCEPT ![r] = @ + own]
    /\ UNCHANGED others

\* Somebody else takes part of the resting source order.
Taken ==
    /\ order["source"].status = "live"
    /\ \E n \in (order["source"].fill + 1)..Whole :
          order' = [order EXCEPT !["source"] = [status |-> Status(n), fill |-> n]]
    /\ UNCHANGED <<matched, others>>

\* A cancellation arrives: the attempt's, or one of the venue's own.
SourceCanceled ==
    /\ order["source"].status = "live"
    /\ order' = [order EXCEPT !["source"].status = "canceled"]
    /\ UNCHANGED <<matched, others>>

Venue == SourceArrives \/ Taken \/ SourceCanceled \/ \E r \in Receivers : ReceiverArrives(r)

-----------------------------------------------------------------------------
(* The engine.                                                             *)

quiet == <<venueVars, result, restarts>>

\* A reason that nothing lifts makes the others immaterial.
Stop(why) == reasons' = LET all == reasons \cup why IN
                        IF "unresolved" \in all THEN {"unresolved"} ELSE all

\* _preflight_fanout: the accounts, the market and the parts fit the plan.
Preflight ==
    /\ pc = "preflight"
    /\ \/ pc' = "prepare" /\ UNCHANGED result
       \/ /\ pc' = "done"
          /\ result' = [NoResult EXCEPT !.outcome = "FAILED_PREFLIGHT_BLOCKED"]
    /\ UNCHANGED <<venueVars, intents, sends, memory, restarts>>

\* _execute_fanout up to the source order: every leg is prepared, the quote is
\* still young and the stream has an anchor, or nothing is sent.
Prepare ==
    /\ pc = "prepare"
    /\ \/ /\ pc' = "send source"
          /\ intents' = {"source"} /\ dispatched' = {"source"}
          /\ UNCHANGED reasons
       \/ /\ \E why \in PreDispatch : Stop({why})
          /\ pc' = "cleanup"
          /\ UNCHANGED <<intents, dispatched>>
    /\ UNCHANGED <<quiet, sends, request, seen, fresh, evidence>>

\* The LIMIT leaves, unless its deadline passed.
SendSource ==
    /\ pc = "send source"
    /\ \/ /\ sends' = [sends EXCEPT !["source"] = @ + 1]
          /\ order' = [order EXCEPT !["source"].status = "flight"]
          /\ pc' = "await source"
          /\ UNCHANGED reasons
       \/ /\ Stop({"unresolved"})
          /\ pc' = "cleanup"
          /\ UNCHANGED <<order, sends>>
    /\ UNCHANGED <<matched, intents, dispatched, request, seen, fresh, evidence,
                   result, restarts>>

\* Only a positive application ACK goes on.
SourceAnswered ==
    /\ pc = "await source"
    /\ \/ pc' = "admit" /\ UNCHANGED reasons
       \/ pc' = "cleanup" /\ Stop({"unresolved"})
    /\ UNCHANGED <<quiet, intents, sends, dispatched, request, seen, fresh, evidence>>

\* The local view: the source order is absent or rests in full and the book has
\* no volume against it; otherwise a veto, when only the volume speaks against
\* it, or a stop.
Admit ==
    /\ pc = "admit"
    /\ \E o \in View("source") :
          /\ seen' = Glimpse(o)
          /\ \/ /\ seen' \in {"none", "resting"}
                /\ pc' = "flushing" /\ UNCHANGED reasons
             \/ /\ \/ seen' \in {"none", "resting"} /\ Stop({"veto"})
                   \/ Stop({"stop"})
                /\ pc' = "cleanup"
    /\ UNCHANGED <<quiet, intents, sends, dispatched, request, fresh, evidence>>

\* Mutant of IntentsFlushed: one intent stands for all receivers.
IntentsFlushedOnce ==
    /\ pc = "flushing"
    /\ \E r \in Receivers : intents' = intents \cup {r}
    /\ pc' = "flushed"
    /\ UNCHANGED <<quiet, sends, memory>>

\* append_many_async: the intents of all receivers are durable.
IntentsFlushed ==
    /\ pc = "flushing"
    /\ intents' = intents \cup Receivers
    /\ pc' = "flushed"
    /\ UNCHANGED <<quiet, sends, memory>>

\* _validate_ack_receiver_send: the local view is read again after the flush; a
\* refusal sends nothing to anybody.
FinalBarrier ==
    /\ pc = "flushed"
    /\ \/ /\ \E o \in View("source") : Glimpse(o) \in {"none", "resting"}
          /\ dispatched' = Legs
          /\ request' = [r \in Receivers |-> "sending"]
          /\ pc' = "receivers"
          /\ UNCHANGED reasons
       \/ /\ Stop({"stop"})
          /\ pc' = "resolve"
          /\ UNCHANGED <<dispatched, request>>
    /\ UNCHANGED <<quiet, intents, sends, seen, fresh, evidence>>

\* send: one of the gathered requests leaves, or its deadline passed.
SendReceiver(r) ==
    /\ request[r] = "sending"
    /\ \/ /\ sends' = [sends EXCEPT ![r] = @ + 1]
          /\ order' = [order EXCEPT ![r].status = "flight"]
          /\ request' = [request EXCEPT ![r] = "sent"]
       \/ /\ request' = [request EXCEPT ![r] = "lost"]
          /\ UNCHANGED <<order, sends>>
    /\ UNCHANGED <<matched, intents, pc, dispatched, seen, fresh, reasons, evidence,
                   result, restarts>>

\* An answer of any kind, or none.
ReceiverAnswered(r) ==
    /\ request[r] = "sent"
    /\ \E answer \in {"answered", "lost"} : request' = [request EXCEPT ![r] = answer]
    /\ UNCHANGED <<quiet, intents, sends, pc, dispatched, seen, fresh, reasons, evidence>>

\* gather, observe: when every request has come back, each answered order is
\* polled until it is terminal; what is lost or stays unresolved is a reason.
ReceiversObserved ==
    /\ pc = "receivers"
    /\ \A r \in Receivers : request[r] \in {"answered", "lost"}
    /\ \/ /\ \A r \in Receivers : request[r] = "answered" /\ \E o \in View(r) : Ended(o)
          /\ UNCHANGED reasons
       \/ Stop({"unresolved"})
    /\ pc' = "resolve"
    /\ UNCHANGED <<quiet, intents, sends, dispatched, request, seen, fresh, evidence>>

\* After the receivers: the source order is polled for, or read once more.
Resolve ==
    /\ pc = "resolve"
    /\ fresh' = TRUE
    /\ \/ \E o \in View("source") :
            /\ pc' = IF o = NoOrder THEN "reconcile" ELSE "cancel"
            /\ seen' = IF o = NoOrder THEN seen ELSE Glimpse(o)
            /\ Stop(IF o = NoOrder /\ seen # "none" THEN {"vanished"} ELSE {})
       \/ /\ seen # "none"
          /\ Stop({"unresolved"})
          /\ pc' = "reconcile"
          /\ UNCHANGED seen
    /\ UNCHANGED <<quiet, intents, sends, dispatched, request, evidence>>

\* Before the receivers: an order dispatched and not seen is looked for.
Cleanup ==
    /\ pc = "cleanup"
    /\ IF seen = "none" /\ "source" \in dispatched
       THEN \/ /\ \E o \in View("source") :
                    /\ seen' = Glimpse(o)
                    /\ pc' = IF o = NoOrder THEN "reconcile" ELSE "cancel"
               /\ UNCHANGED reasons
            \/ /\ Stop({"unresolved"})
               /\ pc' = "reconcile"
               /\ UNCHANGED seen
       ELSE /\ pc' = IF seen = "none" THEN "reconcile" ELSE "cancel"
            /\ UNCHANGED <<seen, reasons>>
    /\ fresh' = (seen = "none")
    /\ UNCHANGED <<quiet, intents, sends, dispatched, request, evidence>>

\* _cancel_if_safe: an active order, read just now or read again.
CancelIfSafe ==
    /\ pc = "cancel"
    /\ IF seen = "ended" THEN pc' = "reconcile" /\ UNCHANGED reasons
       ELSE \/ \E o \in View("source") :
                  /\ pc' = IF fresh \/ Glimpse(o) \in {"resting", "filling"}
                           THEN "send cancel" ELSE "reconcile"
                  /\ UNCHANGED reasons
            \/ /\ Stop({"unresolved"})
               /\ pc' = "reconcile"
    /\ UNCHANGED <<quiet, intents, sends, dispatched, request, seen, fresh, evidence>>

\* The outcome of a cancellation may be unknown.
SendCancel ==
    /\ pc = "send cancel"
    /\ sends' = [sends EXCEPT !["cancel"] = @ + 1]
    /\ pc' = "reconcile"
    /\ UNCHANGED reasons \/ Stop({"unresolved"})
    /\ UNCHANGED <<quiet, intents, dispatched, request, seen, fresh, evidence>>

-----------------------------------------------------------------------------
(* Reconciliation and outcome.                                             *)

\* Mutant of Established: an order that was read is taken as ended.
EstablishedByRead(l) ==
    IF l \in dispatched
    THEN {Unknown} \cup {[As(o) EXCEPT !.status = "canceled"] : o \in View(l) \ {NoOrder}}
    ELSE {Untouched, Unknown}

\* What _reconcile_leg may establish of a leg.
Established(l) ==
    IF l \in dispatched
    THEN {Unknown} \cup IF order[l].status \in Terminal THEN {As(order[l])} ELSE {}
    ELSE {Untouched, Unknown}

\* _reconcile_fanout: the source first, then the receivers.
ReconcileLeg(l) ==
    /\ pc = "reconcile" /\ evidence[l].state = "pending"
    /\ l # "source" => evidence["source"].state # "pending"
    /\ \E e \in Established(l) :
          /\ evidence' = [evidence EXCEPT ![l] = e]
          /\ Stop(IF e = Unknown THEN {"unresolved"} ELSE {})
    /\ UNCHANGED <<quiet, intents, sends, pc, dispatched, request, seen, fresh>>

Clean   == \A l \in Legs : evidence[l].state = "clean"
Fill(l) == evidence[l].fill

\* _zero_mutation_all
ZeroMutation == dispatched = {} /\ Clean

\* Mutant of Retryable: the source alone was dispatched, whatever it filled.
RetryableFilled ==
    \/ ZeroMutation /\ \E why \in {"not prepared", "stream not ready"} : reasons = {why}
    \/ dispatched = {"source"} /\ Clean /\ reasons = {"veto"}

\* _retryable_fanout_after_guard: nothing was sent, or the book's volume stopped
\* the attempt and its source order ended without a fill.
Retryable ==
    \/ ZeroMutation /\ \E why \in {"not prepared", "stream not ready"} : reasons = {why}
    \/ /\ dispatched = {"source"} /\ Clean /\ Fill("source") = 0
       /\ reasons = {"veto"} /\ evidence["source"].status \in {"canceled", "postonly"}

\* A source order missing at its cancellation is resolved by reconciliation.
Remaining == IF "source" \in dispatched /\ evidence["source"].state = "clean"
             THEN reasons \ {"vanished"} ELSE reasons

\* _known_source_only_partial_fanout
KnownSourceOnly ==
    /\ Remaining # {} /\ Remaining \subseteq Provisional
    /\ dispatched = {"source"} /\ Clean

\* _classify_fanout
Classified ==
    IF reasons # {} /\ reasons \subseteq PreDispatch /\ ZeroMutation
    THEN "FAILED_PREFLIGHT_BLOCKED"
    ELSE IF ~Clean \/ (Remaining # {} /\ ~KnownSourceOnly) THEN "UNKNOWN"
    ELSE IF \A l \in Legs : Fill(l) = Size(l) THEN "SUCCESS" ELSE "PARTIAL"

\* Mutant of Outcome: one receiver matched with the source is enough.
OutcomeOneMatched ==
    IF Classified = "SUCCESS" /\ \A r \in Receivers : matched[r] = 0
    THEN "PARTIAL" ELSE Classified

\* _finish_fanout: all receivers must have traded their part with the source.
Outcome ==
    IF Classified = "SUCCESS" /\ matched # Part THEN "PARTIAL" ELSE Classified

Finish ==
    /\ pc = "reconcile" /\ \A l \in Legs : evidence[l].state # "pending"
    /\ result' = [outcome |-> IF Retryable THEN "PARTIAL" ELSE Outcome,
                  retry   |-> Retryable,
                  fills   |-> [l \in Legs |-> Fill(l)]]
    /\ pc' = "done"
    /\ Forget
    /\ UNCHANGED <<venueVars, intents, sends, restarts>>

-----------------------------------------------------------------------------
(* The process ends, and the journal is opened again.                      *)

Running == pc \notin {"done", "dead"}

\* A crash, or a journal that cannot be written.  A batch of intents cut short
\* leaves some of them.
Crash ==
    /\ Running
    /\ IF pc = "flushing" THEN \E some \in SUBSET Receivers : intents' = intents \cup some
       ELSE UNCHANGED intents
    /\ pc' = "dead"
    /\ Forget
    /\ UNCHANGED <<venueVars, sends, result, restarts>>

\* An attempt with an intent and no proven outcome is refused as UNKNOWN: its
\* orders are left to operator recovery.
Relaunch ==
    /\ ~Running /\ restarts < MaxRestarts
    /\ result.outcome \in {"none", "UNKNOWN"}
    /\ restarts' = restarts + 1
    /\ IF intents = {} /\ result = NoResult THEN pc' = "preflight" /\ UNCHANGED result
       ELSE pc' = "done" /\ result' = IF result = NoResult THEN Refused ELSE result
    /\ UNCHANGED <<venueVars, intents, sends, memory>>

Send == SendSource \/ SendCancel \/ \E r \in Receivers : SendReceiver(r)

Decide == Preflight \/ Prepare \/ SourceAnswered \/ Admit \/ IntentsFlushed \/ FinalBarrier
          \/ (\E r \in Receivers : ReceiverAnswered(r)) \/ ReceiversObserved
          \/ Resolve \/ Cleanup \/ CancelIfSafe

Engine == Send \/ Decide \/ (\E l \in Legs : ReconcileLeg(l)) \/ Finish

Next == Venue \/ Engine \/ Crash \/ Relaunch

Spec == Init /\ [][Next]_vars

-----------------------------------------------------------------------------
(* Properties.                                                             *)

\* Each result tells the truth about what the attempt may have left behind:
\* SUCCESS means that every receiver traded its whole part with the source and
\* nobody else did; a retry means that no receiver order ever left, nothing
\* filled, and the source order cannot fill any more (_finish_fanout,
\* _retryable_fanout_after_guard).
ResultIsTrue ==
    /\ result.outcome = "SUCCESS" =>
          /\ matched = Part
          /\ \A l \in Legs : order[l].fill = Size(l)
    /\ result.retry =>
          /\ \A r \in Receivers : sends[r] = 0
          /\ \A l \in Legs : order[l].fill = 0 /\ order[l].status \notin {"flight", "live"}

\* No MARKET leaves before the intents of all receivers are durable, so whoever
\* recovers the attempt looks at every account that may have traded, however the
\* requests and a crash interleave; and nothing leaves twice.
EveryExposureOnRecord ==
    /\ \A l \in Legs : sends[l] > 0 => l \in intents
    /\ (\E r \in Receivers : sends[r] > 0) => Receivers \subseteq intents
    /\ \A l \in DOMAIN sends : sends[l] <= 1

\* What a fan-out attempt says is true, and every order it sent is on record.
FanoutIsTrue == ResultIsTrue /\ EveryExposureOnRecord

\* The venue and the result as PairedAttempt sees them.
Promise == INSTANCE PairedAttempt WITH
    Q       <- Whole,
    exposed <- {l \in Legs : order[l].status # "unsent"},
    open    <- {l \in Legs : order[l].status \in {"flight", "live"}},
    fills   <- [l \in Legs |-> order[l].fill],
    report  <- [state |-> IF result.outcome = "none" THEN "none"
                          ELSE IF result.outcome = "UNKNOWN" THEN "unknown" ELSE "final",
                fills |-> result.fills]

\* However many legs it has, an attempt keeps the promise of a paired one: each
\* leg is exposed once and before anything is reported, and a final report is
\* made only when nothing of the attempt can fill any more, and says what did.
FanoutKeepsPromise == Promise!Spec
=============================================================================
