------------------------------ MODULE Handoff ------------------------------
(***************************************************************************)
(* One paired attempt of HandoffEngine (hood_handoff/engine.py): a         *)
(* POST_ONLY LIMIT on the source account, an IOC MARKET on the receiver    *)
(* account once the admission in force passes, cancellation of what still  *)
(* rests, reconciliation of both legs, and the reported outcome; after a   *)
(* crash or an UNKNOWN outcome, a reconciliation that sends nothing.       *)
(*                                                                         *)
(* Each action is what the coroutine does between two awaits.  The venue,  *)
(* which is not in the repository, runs between any two of them; what a    *)
(* read returns may lag behind it by any amount, except that an order read *)
(* as terminal has ended.  How the journal makes its records durable is    *)
(* module Journal; here a recorded event is durable at once.               *)
(***************************************************************************)
EXTENDS Naturals, FiniteSets

CONSTANTS
    Q,           \* the quantity of both orders
    MaxRounds,   \* max_poll_count: rounds of a leg's reconciliation
    MaxRestarts, \* bound on relaunches after a crash or an UNKNOWN outcome
    NoOrder      \* "the order was not found"

ASSUME QAssumption       == Q \in Nat \ {0}
ASSUME BoundsAssumption  == MaxRounds \in Nat \ {0} /\ MaxRestarts \in Nat
ASSUME NoOrderAssumption == NoOrder \notin [status : STRING, fill : Nat]

Legs == {"source", "receiver"}

\* config.receiver_admission
Modes == {"strict", "ws_confirmed", "ack"}

Terminal == {"filled", "canceled", "postonly"}
Statuses == Terminal \cup {"unsent", "flight", "refused", "live"}
Orders   == [status : Statuses, fill : 0..Q]

Active(o)  == o # NoOrder /\ o.status = "live"
Ended(o)   == o # NoOrder /\ o.status \in Terminal

\* What the engine keeps of an order it has read.
Glimpses == {"none", "resting", "filling", "ended"}
Glimpse(o) == IF o = NoOrder THEN "none"
              ELSE IF Ended(o) THEN "ended"
              ELSE IF o.fill = 0 THEN "resting" ELSE "filling"

\* The local stream's view of the book: nothing against sending, better or
\* extra volume, or unusable (also: a level smaller than the source order).
Books == {"clear", "liquidity", "unusable"}

\* unknown_reasons, as far as an outcome tells them apart.
\* Stops recorded before the source order can reach the transport; the first
\* two may be over in another attempt.
PreDispatch == {"not prepared", "stream not ready", "preparation failed",
                "stream unavailable"}

\* Reasons written WS_ADMISSION_STOP.
Stops == {"stream not ready", "stream unavailable", "stop", "veto"}

\* Provisional for a source leg that reconciles completely.
Provisional == {"early fill", "not resting", "changed", "absent",
                "pair guard"} \cup Stops

\* "vanished" goes once the source leg reconciles; nothing lifts "unresolved".
Reasons == PreDispatch \cup Provisional
             \cup {"post only", "vanished", "unresolved"}

Outcomes == {"SUCCESS", "PARTIAL", "UNKNOWN", "FAILED_PREFLIGHT_BLOCKED"}

VARIABLES
    order,    \* the venue: each leg's order
    matched,  \* the venue: quantity the two orders traded with each other
    stream,   \* the local stream: the book and the source order it shows
    intents,  \* the journal: legs with a dispatch intent
    canceled, \* the journal: CANCEL_DISPATCH_INTENT of the source order
    sends,    \* how often each request left: both orders and the cancel
    mode,     \* config.receiver_admission
    pc, after,\* where the engine is; where it goes after a cancellation
    dispatched, \* legs whose dispatch was attempted
    seen,     \* source_order: the last observation of the source order
    fresh,    \* exact_order_just_read
    reasons,  \* unknown_reasons
    leg, rounds, trades, settled, evidence, \* _reconcile_leg
    result, restarts

venueVars == <<order, matched>>
journal   == <<intents, canceled>>
legVars   == <<leg, rounds, trades, settled, evidence>>
sight     == <<seen, fresh, after>>
engineVars == <<pc, dispatched, reasons, sight, legVars>>
vars == <<venueVars, stream, journal, sends, mode, engineVars, result, restarts>>

-----------------------------------------------------------------------------
\* What reconciliation established of a leg: the order it ended as, that it was
\* never dispatched, or nothing.
Unknown   == [clean |-> FALSE, status |-> "unsent", fill |-> 0]
Untouched == [clean |-> TRUE,  status |-> "unsent", fill |-> 0]
Evidence  == [clean : BOOLEAN, status : Terminal \cup {"unsent"}, fill : 0..Q]

\* A position that could not be read.
Unread == Q + 1

NoResult == [outcome |-> "none", retry |-> FALSE, fills |-> [l \in Legs |-> 0]]
Results  == [outcome : Outcomes \cup {"none"}, retry : BOOLEAN,
             fills : [Legs -> 0..Q]]

Quiet == [book |-> "unusable", source |-> "none"]

Init ==
    /\ order = [l \in Legs |-> [status |-> "unsent", fill |-> 0]]
    /\ matched = 0
    /\ stream = Quiet
    /\ intents = {} /\ canceled = FALSE
    /\ sends = [r \in Legs \cup {"cancel"} |-> 0]
    /\ mode \in Modes
    /\ pc = "prepare" /\ after = "cleanup"
    /\ dispatched = {} /\ seen = "none" /\ fresh = FALSE /\ reasons = {}
    /\ leg = "source" /\ rounds = 0 /\ trades = 0 /\ settled = FALSE
    /\ evidence = [l \in Legs |-> Unknown]
    /\ result = NoResult /\ restarts = 0

\* The attempt is over, or its process is: what it held in memory is gone.
Forget ==
    /\ after' = "cleanup"
    /\ dispatched' = {} /\ seen' = "none" /\ fresh' = FALSE /\ reasons' = {}
    /\ leg' = "source" /\ rounds' = 0 /\ trades' = 0 /\ settled' = FALSE
    /\ evidence' = [l \in Legs |-> Unknown]

\* What a read of an order may return.
View(l) ==
    LET o == order[l] IN
    IF o.status \in {"unsent", "flight", "refused"} THEN {NoOrder}
    ELSE IF o.status = "postonly" THEN {NoOrder, o}
    ELSE {NoOrder, o} \cup
           {[status |-> "live", fill |-> k] : k \in {n \in 0..o.fill : n < Q}}

-----------------------------------------------------------------------------
(* The venue.                                                              *)

venueOnly == <<stream, journal, sends, mode, engineVars, result, restarts>>

Status(n) == IF n = Q THEN "filled" ELSE "live"

\* The LIMIT order rests, or is canceled because it would have crossed, or
\* nothing comes of the request.
SourceArrives ==
    /\ order["source"].status = "flight"
    /\ \E s \in {"live", "postonly", "refused"} :
          order' = [order EXCEPT !["source"].status = s]
    /\ UNCHANGED <<matched, venueOnly>>

\* The IOC takes `own` of what rests of the source and `other` of the rest of
\* the book, and ends.
ReceiverArrives ==
    /\ order["receiver"].status = "flight"
    /\ \/ /\ order' = [order EXCEPT !["receiver"].status = "refused"]
          /\ UNCHANGED matched
       \/ \E own, other \in 0..Q :
            LET total == order["source"].fill + own IN
            /\ own + other <= Q
            /\ own > 0 => order["source"].status = "live" /\ total <= Q
            /\ order' = [l \in Legs |->
                  IF l = "receiver"
                  THEN [status |-> IF own + other = Q THEN "filled" ELSE "canceled",
                        fill |-> own + other]
                  ELSE IF own = 0 THEN order[l]
                  ELSE [status |-> Status(total), fill |-> total]]
            /\ matched' = matched + own
    /\ UNCHANGED venueOnly

\* Somebody else takes part of the resting source order.
Taken ==
    /\ order["source"].status = "live"
    /\ \E n \in (order["source"].fill + 1)..Q :
          order' = [order EXCEPT !["source"] = [status |-> Status(n), fill |-> n]]
    /\ UNCHANGED <<matched, venueOnly>>

\* A cancellation arrives: the attempt's, or one of the venue's own.
SourceCanceled ==
    /\ order["source"].status = "live"
    /\ order' = [order EXCEPT !["source"].status = "canceled"]
    /\ UNCHANGED <<matched, venueOnly>>

Venue == SourceArrives \/ ReceiverArrives \/ Taken \/ SourceCanceled

-----------------------------------------------------------------------------
(* The local stream.  Only an admission other than "strict" reads it, and  *)
(* it changes only while the engine awaits: what it shows at other times   *)
(* nobody sees.                                                            *)

StreamReads == {"admit", "flushed"}

StreamUpdate ==
    /\ mode # "strict" /\ pc \in StreamReads
    /\ \E b \in Books, o \in View("source") :
          stream' = [book |-> b, source |-> Glimpse(o)]
    /\ UNCHANGED <<venueVars, journal, sends, mode, engineVars, result, restarts>>

\* ws_admission_view and the L2 veto: what they do not refuse.  Without a
\* source event only "ack" goes on.
SourceAdmits(s) == IF s.source = "none" THEN mode = "ack" ELSE s.source = "resting"
StreamAdmits(s) == s.book = "clear" /\ SourceAdmits(s)

-----------------------------------------------------------------------------
(* The engine: from preparation to the source order.                       *)

outside == <<venueVars, mode, legVars, result, restarts>>
quiet   == <<outside, stream>>

\* A reason that nothing lifts makes the others immaterial.
Stop(why) == reasons' = LET all == reasons \cup why IN
                        IF "unresolved" \in all THEN {"unresolved"} ELSE all

\* Both orders are prepared, the quote is still young, and the stream admission
\* has an anchor; otherwise nothing is sent and only reconciliation follows.
Prepare ==
    /\ pc = "prepare"
    /\ \/ /\ pc' = "send source"
          /\ intents' = {"source"}
          /\ dispatched' = {"source"}
          /\ UNCHANGED reasons
       \/ /\ \E why \in PreDispatch :
                /\ why \in Stops => mode # "strict"
                /\ Stop({why})
          /\ pc' = "cleanup"
          /\ UNCHANGED <<intents, dispatched>>
    /\ UNCHANGED <<quiet, canceled, sends, sight>>

\* A request leaves, unless its deadline passed while it waited for its turn.
SendSource ==
    /\ pc = "send source"
    /\ \/ /\ sends' = [sends EXCEPT !["source"] = @ + 1]
          /\ order' = [order EXCEPT !["source"].status = "flight"]
          /\ pc' = "await source"
          /\ UNCHANGED reasons
       \/ /\ Stop({"unresolved"})
          /\ pc' = "cleanup"
          /\ UNCHANGED <<order, sends>>
    /\ UNCHANGED <<matched, stream, journal, mode, dispatched, sight, legVars,
                   result, restarts>>

\* What the engine leaves alone while it decides.
deciding == <<outside, journal, sends, dispatched>>

\* Mutant of SourceAnswered: a lost answer counts as not dispatched.
LostMeansUnsent ==
    /\ pc = "await source"
    /\ \/ /\ pc' = IF mode = "ack" THEN "admit" ELSE "observe"
          /\ UNCHANGED dispatched
       \/ pc' = "cleanup" /\ dispatched' = {}
    /\ UNCHANGED <<quiet, journal, sends, reasons, sight>>

\* The answer: accepted, refused by the application, or lost.  An accepted order
\* need not have arrived.  Only "ack" needs the positive answer, and waits for
\* nothing else.
SourceAnswered ==
    /\ pc = "await source"
    /\ LET next == IF mode = "ack" THEN "admit" ELSE "observe" IN
       \/ pc' = next /\ UNCHANGED <<order, reasons>>
       \/ /\ order["source"].status \in {"flight", "refused"}
          /\ order' = [order EXCEPT !["source"].status = "refused"]
          /\ pc' = IF mode = "ack" THEN "cleanup" ELSE next
          /\ Stop({"unresolved"})
       \/ /\ pc' = "cleanup"
          /\ Stop({"unresolved"})
          /\ UNCHANGED order
    /\ UNCHANGED <<matched, stream, mode, legVars, result, restarts, journal,
                   sends, dispatched, sight>>

\* What the first observation of the source order stops.
ObservedReasons(o) ==
    IF o = NoOrder THEN IF mode = "strict" THEN {"unresolved"} ELSE {"stop"}
    ELSE IF o.fill > 0 THEN {"early fill"}
    ELSE IF o.status = "postonly" THEN {"post only"}
    ELSE IF Ended(o) THEN {"not resting"}
    ELSE {}

\* The first observation, by polling or from the stream.  A stop that saw the
\* order cancels it at once, and again on the way out.
ObserveSource ==
    /\ pc = "observe"
    /\ \E o \in View("source") :
          /\ seen' = Glimpse(o)
          /\ Stop(ObservedReasons(o))
          /\ pc' = IF reasons' = {} THEN "admit"
                   ELSE IF o # NoOrder /\ ObservedReasons(o) # {} THEN "cancel"
                   ELSE "cleanup"
    /\ UNCHANGED <<deciding, stream, fresh, after>>

\* The receiver's intent is recorded: the pair is past the point of return.
IntendReceiver ==
    /\ intents' = intents \cup {"receiver"}
    /\ dispatched' = dispatched \cup {"receiver"}
    /\ pc' = "send receiver"

\* "strict": both accounts and the public book are read, then the exact source
\* order; the decision, the intent and the send follow without an await.
\* What fails: a read or an account, the order's presence in the account, the
\* order itself, or the proof that it is first in the book.
AdmitStrict ==
    /\ pc = "admit" /\ mode = "strict"
    /\ \/ /\ \E o \in View("source") : Glimpse(o) = "resting" /\ seen' = "resting"
          /\ IntendReceiver
          /\ UNCHANGED reasons
       \/ /\ \E o \in View("source"), why \in SUBSET {"unresolved", "absent"} :
                LET found == IF o = NoOrder THEN {"changed"}
                             ELSE IF o.fill > 0 THEN {"changed"}
                             ELSE IF Ended(o) THEN {"not resting"} ELSE {}
                IN /\ seen' = Glimpse(o)
                   /\ Stop(IF why \cup found = {} THEN {"pair guard"} ELSE why \cup found)
          /\ pc' = "cleanup"
          /\ UNCHANGED <<intents, dispatched>>
    /\ UNCHANGED <<quiet, canceled, sends, fresh, after>>

\* "ws_confirmed" and "ack": the local view decides, or some evidence expired.
\* Only the book's volume is a reason to try another pair.
AdmitStream ==
    /\ pc = "admit" /\ mode # "strict"
    /\ seen' = IF stream.book = "unusable" THEN seen ELSE stream.source
    /\ \/ /\ StreamAdmits(stream)
          /\ IF mode = "ws_confirmed" THEN IntendReceiver
             ELSE /\ pc' = "flushing"
                  /\ UNCHANGED <<intents, dispatched>>
          /\ UNCHANGED reasons
          /\ UNCHANGED stream
       \/ /\ \E why \in {"stop", "veto"} :
                /\ why = "veto" => stream.book = "liquidity" /\ SourceAdmits(stream)
                /\ Stop({why})
          /\ pc' = "cleanup"
          /\ stream' = Quiet
          /\ UNCHANGED <<intents, dispatched>>
    /\ UNCHANGED <<outside, canceled, sends, fresh, after>>

\* append_many_async: the worker has made the intent durable.
IntentFlushed ==
    /\ pc = "flushing"
    /\ intents' = intents \cup {"receiver"}
    /\ pc' = "flushed"
    /\ UNCHANGED <<quiet, canceled, sends, dispatched, reasons, sight>>

\* Mutant of FinalBarrier: the evidence of the admission is trusted.
BarrierTrusting ==
    /\ pc = "flushed"
    /\ dispatched' = dispatched \cup {"receiver"}
    /\ pc' = "send receiver"
    /\ UNCHANGED <<quiet, journal, sends, reasons, sight>>

\* _validate_ack_receiver_send: the local view is read again after the flush.
FinalBarrier ==
    /\ pc = "flushed"
    /\ \/ /\ StreamAdmits(stream)
          /\ dispatched' = dispatched \cup {"receiver"}
          /\ pc' = "send receiver"
          /\ UNCHANGED <<reasons, stream>>
       \/ /\ Stop({"stop"})
          /\ pc' = "resolve"
          /\ stream' = Quiet
          /\ UNCHANGED dispatched
    /\ UNCHANGED <<outside, journal, sends, sight>>

SendReceiver ==
    /\ pc = "send receiver"
    /\ \/ /\ sends' = [sends EXCEPT !["receiver"] = @ + 1]
          /\ order' = [order EXCEPT !["receiver"].status = "flight"]
          /\ pc' = "await receiver"
          /\ UNCHANGED reasons
       \/ /\ Stop({"unresolved"})
          /\ pc' = "resolve"
          /\ UNCHANGED <<order, sends>>
    /\ stream' = Quiet
    /\ UNCHANGED <<matched, journal, mode, dispatched, sight, legVars, result,
                   restarts>>

\* Its answer, whatever it says, is followed by a terminal observation; a lost
\* answer is not.
ReceiverAnswered ==
    /\ pc = "await receiver"
    /\ \/ pc' = "poll receiver" /\ UNCHANGED reasons
       \/ pc' = "resolve" /\ Stop({"unresolved"})
    /\ UNCHANGED <<deciding, stream, sight>>

PollReceiver ==
    /\ pc = "poll receiver"
    /\ \/ (\E o \in View("receiver") : Ended(o)) /\ UNCHANGED reasons
       \/ Stop({"unresolved"})
    /\ pc' = "resolve"
    /\ UNCHANGED <<deciding, stream, sight>>

-----------------------------------------------------------------------------
(* Cancellation of what may still rest.                                    *)

\* After the receiver: "ack" may not have seen the source order yet; otherwise
\* the order seen before is read once more.
Resolve ==
    /\ pc = "resolve"
    /\ after' = "reconcile"
    /\ fresh' = TRUE
    /\ \/ \E o \in View("source") :
            /\ pc' = IF o = NoOrder THEN "reconcile" ELSE "cancel"
            /\ seen' = IF o = NoOrder THEN seen ELSE Glimpse(o)
            /\ Stop(IF o = NoOrder /\ seen # "none" THEN {"vanished"} ELSE {})
       \/ /\ seen # "none"
          /\ Stop({"unresolved"})
          /\ pc' = "reconcile"
          /\ UNCHANGED seen
    /\ UNCHANGED <<deciding, stream>>

\* Before the receiver: an order dispatched and not seen is looked for.
Cleanup ==
    /\ pc = "cleanup"
    /\ after' = "reconcile"
    /\ IF seen = "none" /\ "source" \in dispatched
       THEN \/ /\ \E o \in View("source") :
                    /\ seen' = Glimpse(o)
                    /\ pc' = IF o = NoOrder THEN "reconcile" ELSE "cancel"
               /\ UNCHANGED reasons
            \/ /\ Stop({"unresolved"})
               /\ pc' = "reconcile"
               /\ UNCHANGED seen
       ELSE /\ pc' = IF seen = "none" THEN "reconcile" ELSE "cancel"
            /\ UNCHANGED <<seen, reasons>>
    /\ fresh' = (seen = "none")
    /\ UNCHANGED <<deciding, stream>>

Rests(glimpse) == glimpse \in {"resting", "filling"}

\* Mutant of CancelIfSafe: the journal is not asked for an earlier intent.
CancelForgetful ==
    /\ pc = "cancel"
    /\ IF ~Rests(seen) THEN pc' = after /\ UNCHANGED <<canceled, reasons>>
       ELSE \E active \in {fresh \/ Active(o) : o \in View("source")} :
               /\ pc' = IF active THEN "send cancel" ELSE after
               /\ canceled' = (canceled \/ active)
               /\ UNCHANGED reasons
    /\ UNCHANGED <<quiet, intents, sends, dispatched, sight>>

\* _cancel_if_safe: an active order whose cancellation was never intended, read
\* just now or read again.
CancelIfSafe ==
    /\ pc = "cancel"
    /\ IF ~Rests(seen) \/ canceled THEN pc' = after /\ UNCHANGED <<canceled, reasons>>
       ELSE \/ \E active \in {fresh \/ Active(o) : o \in View("source")} :
                  /\ pc' = IF active THEN "send cancel" ELSE after
                  /\ canceled' = active
                  /\ UNCHANGED reasons
            \/ /\ Stop({"unresolved"})
               /\ pc' = after
               /\ UNCHANGED canceled
    /\ UNCHANGED <<quiet, intents, sends, dispatched, sight>>

SendCancel ==
    /\ pc = "send cancel"
    /\ sends' = [sends EXCEPT !["cancel"] = @ + 1]
    /\ pc' = after
    /\ \/ UNCHANGED reasons
       \/ Stop({"unresolved"})
    /\ UNCHANGED <<quiet, journal, dispatched, sight>>

-----------------------------------------------------------------------------
(* Reconciliation: one leg after the other, in rounds of three reads.       *)

reading == <<venueVars, stream, journal, sends, mode, dispatched, result, restarts>>

\* What is established of the leg; the next one follows, then the outcome.
Conclude(e) ==
    /\ evidence' = [evidence EXCEPT ![leg] = e]
    /\ Stop(IF e.clean THEN {} ELSE {"unresolved"})
    /\ pc' = IF leg = "source" THEN "reconcile" ELSE "finish"
    /\ leg' = "receiver"
    /\ rounds' = 0 /\ trades' = 0 /\ settled' = FALSE

\* An order whose identifier is unknown is discovered first: one that is not
\* found stays unknown.  What was seen on the way here is not used any more.
BeginLeg ==
    /\ pc = "reconcile"
    /\ \/ /\ pc' = IF leg \in dispatched THEN "history" ELSE "account"
          /\ UNCHANGED <<legVars, reasons>>
       \/ /\ leg \in dispatched
          /\ leg = "source" => seen = "none"
          /\ Conclude(Unknown)
    /\ seen' = "none" /\ fresh' = FALSE /\ after' = "cleanup"
    /\ UNCHANGED reading

\* Receipts accumulate over rounds; whether the history is said to be complete
\* has nothing to do with whether it is.
ReadHistory ==
    /\ pc = "history"
    /\ trades' \in trades..order[leg].fill
    /\ settled' \in BOOLEAN
    /\ pc' = "account"
    /\ UNCHANGED <<reading, sight, reasons, leg, rounds, evidence>>

\* The position, as its distance from the one before; unread when the read
\* failed or its account cannot be used.  A leg not dispatched did not move.
ReadAccount ==
    /\ pc = "account"
    /\ \E moved \in 0..order[leg].fill \cup {Unread} :
          IF leg \in dispatched
          THEN /\ settled' = (settled /\ moved = trades)
               /\ pc' = "order"
               /\ UNCHANGED <<reasons, leg, rounds, trades, evidence>>
          ELSE Conclude(IF moved = 0 THEN Untouched ELSE Unknown)
    /\ UNCHANGED <<reading, sight>>

\* An ended order, and a complete history that sums to its fill and to the move
\* of the position.
Agrees(o) == settled /\ Ended(o) /\ o.fill = trades

\* Mutant of Again: rounds are not counted.
AgainUncounted == pc' = "history" /\ UNCHANGED <<reasons, legVars>>

\* A leg is read again while rounds remain.
Again ==
    /\ rounds + 1 < MaxRounds
    /\ rounds' = rounds + 1
    /\ pc' = "history"
    /\ UNCHANGED <<reasons, leg, trades, settled, evidence>>

\* The order is read last.  A leg that does not agree is read again, or time is
\* up and it stays unknown.
ReadOrder ==
    /\ pc = "order"
    /\ \E o \in View(leg) :
          IF Agrees(o)
          THEN Conclude([clean |-> TRUE, status |-> o.status, fill |-> trades])
          ELSE Again \/ Conclude(Unknown)
    /\ UNCHANGED <<reading, sight>>

-----------------------------------------------------------------------------
(* The outcome.                                                            *)

Clean == \A l \in Legs : evidence[l].clean

Fill(l) == evidence[l].fill

\* Both legs reconciled and nothing was dispatched (_zero_mutation).
ZeroMutation == dispatched = {} /\ Clean

\* Mutant of RetryablePair: a source that filled is retried.
RetryableFilled ==
    \/ ZeroMutation /\ \E why \in {"not prepared", "stream not ready"} : reasons = {why}
    \/ dispatched = {"source"} /\ Clean /\ reasons = {"veto"}

\* _retryable_pair_after_guard: nothing was sent, or the source order ended
\* without a fill and for one reason that another pair may not meet.
RetryablePair ==
    \/ ZeroMutation /\ \E why \in {"not prepared", "stream not ready"} : reasons = {why}
    \/ /\ dispatched = {"source"} /\ Clean /\ Fill("source") = 0
       /\ LET ended == evidence["source"].status IN
          \/ reasons = {"veto"}       /\ ended \in {"canceled", "postonly"}
          \/ reasons = {"post only"}  /\ ended = "postonly"
          \/ reasons = {"pair guard"} /\ ended = "canceled"

\* _known_source_only_partial
KnownSourceOnly ==
    /\ reasons # {} /\ reasons \subseteq Provisional
    /\ dispatched = {"source"} /\ Clean
    /\ Fill("source") = 0 => reasons \subseteq Stops \cup {"absent"}

\* A source order missing at its cancellation is resolved by reconciliation.
Unresolved == IF "source" \in dispatched /\ evidence["source"].clean
              THEN reasons \ {"vanished"} ELSE reasons

\* _classify: reasons that remain make the outcome UNKNOWN.
Classified ==
    IF reasons # {} /\ reasons \subseteq PreDispatch /\ ZeroMutation
    THEN "FAILED_PREFLIGHT_BLOCKED"
    ELSE IF ~Clean \/ ~(Unresolved \subseteq {"early fill", "not resting"}
                           \cup IF KnownSourceOnly THEN Provisional ELSE {})
    THEN "UNKNOWN"
    ELSE IF \A l \in Legs : Fill(l) = Q THEN "SUCCESS" ELSE "PARTIAL"

\* A pair that filled, but not with each other, is PARTIAL.
Outcome ==
    IF Classified = "SUCCESS" /\ matched # Q THEN "PARTIAL" ELSE Classified

\* A relaunch offers no retry, and any reason of its own keeps it UNKNOWN.
Finish ==
    /\ pc = "finish"
    /\ LET retry == restarts = 0 /\ RetryablePair IN
       result' = [outcome |-> IF restarts > 0 /\ reasons # {} THEN "UNKNOWN"
                              ELSE IF retry THEN "PARTIAL" ELSE Outcome,
                  retry |-> retry,
                  fills |-> [l \in Legs |-> Fill(l)]]
    /\ pc' = "done"
    /\ Forget
    /\ UNCHANGED <<venueVars, stream, journal, sends, mode, restarts>>

-----------------------------------------------------------------------------
(* The process ends, and the journal is opened again.                      *)

Running == pc \notin {"done", "dead"}

\* A crash, a cancelled task, or a journal that cannot be written.
Crash ==
    /\ Running
    /\ pc' = "dead"
    /\ stream' = Quiet
    /\ Forget
    /\ UNCHANGED <<venueVars, journal, sends, mode, result, restarts>>

\* Mutant of Resume: what was dispatched is not taken from the journal.
ResumeForgetful ==
    /\ ~Running /\ restarts < MaxRestarts
    /\ intents # {} /\ result.outcome \in {"none", "UNKNOWN"}
    /\ restarts' = restarts + 1
    /\ pc' = "reconcile"
    /\ result' = NoResult
    /\ UNCHANGED <<venueVars, stream, journal, sends, mode, dispatched, reasons, sight, legVars>>

\* _resume_reconciliation: a run with an intent and no proven outcome.
Resume ==
    /\ ~Running /\ restarts < MaxRestarts
    /\ intents # {} /\ result.outcome \in {"none", "UNKNOWN"}
    /\ restarts' = restarts + 1
    /\ pc' = "reconcile"
    /\ dispatched' = intents
    /\ result' = NoResult
    /\ UNCHANGED <<venueVars, stream, journal, sends, mode, reasons, sight, legVars>>

Send == SendSource \/ SendReceiver \/ SendCancel

Decide == Prepare \/ SourceAnswered \/ ObserveSource \/ AdmitStrict
          \/ AdmitStream \/ IntentFlushed \/ FinalBarrier \/ ReceiverAnswered
          \/ PollReceiver \/ Resolve \/ Cleanup \/ CancelIfSafe

Reconcile == BeginLeg \/ ReadHistory \/ ReadAccount \/ ReadOrder

Engine == Send \/ Decide \/ Reconcile \/ Finish

Next == Venue \/ StreamUpdate \/ Engine \/ Crash \/ Resume

Spec == Init /\ [][Next]_vars

-----------------------------------------------------------------------------
(* Properties.                                                             *)

Places == {"prepare", "send source", "await source", "observe", "admit",
           "flushing", "flushed", "send receiver", "await receiver",
           "poll receiver", "resolve", "cleanup", "cancel", "send cancel",
           "reconcile", "history", "account", "order", "finish", "done", "dead"}

VenueOK ==
    /\ order \in [Legs -> Orders] /\ matched \in Nat
    /\ stream \in [book : Books, source : Glimpses]
    /\ mode \in Modes

JournalOK ==
    /\ intents \subseteq Legs /\ canceled \in BOOLEAN
    /\ sends \in [Legs \cup {"cancel"} -> Nat]

EngineOK ==
    /\ pc \in Places /\ after \in {"cleanup", "reconcile"}
    /\ dispatched \subseteq Legs
    /\ seen \in Glimpses /\ fresh \in BOOLEAN /\ reasons \subseteq Reasons

LegOK ==
    /\ leg \in Legs /\ rounds \in 0..(MaxRounds - 1)
    /\ trades \in 0..Q /\ settled \in BOOLEAN
    /\ evidence \in [Legs -> Evidence]

ResultOK == result \in Results /\ restarts \in 0..MaxRestarts

\* The values every variable can take; rounds stay within max_poll_count and a
\* sum of receipts within the order.
TypeOK == VenueOK /\ JournalOK /\ EngineOK /\ LegOK /\ ResultOK

\* A leg is only taken for reconciled when its order has ended as its evidence
\* says, even when the attempt as a whole stays UNKNOWN: whoever reads the legs
\* of an unresolved result is not misled (_reconcile_leg).
EvidenceIsTrue ==
    \A l \in Legs : evidence[l].clean =>
        order[l] = [status |-> evidence[l].status, fill |-> evidence[l].fill]

\* A reported outcome other than UNKNOWN is the truth about the venue: no order
\* of the attempt is in flight or rests, and each leg filled what is reported.
\* The reads it rests on lag, disagree and race with fills and cancellations
\* (_reconcile_leg, _classify), also after a restart.
ReportIsTrue ==
    result.outcome \notin {"none", "UNKNOWN"} =>
        \A l \in Legs : /\ order[l].status \notin {"flight", "live"}
                        /\ order[l].fill = result.fills[l]

\* SUCCESS is only reported when both orders filled with each other, not with
\* anybody else on the book (_finish, mutual_failure).
SuccessIsMutual ==
    result.outcome = "SUCCESS" => matched = Q /\ \A l \in Legs : order[l].fill = Q

\* What the engine says of an attempt is true of the venue: each reconciled leg
\* by itself, the outcome of the pair, and that a success is mutual (_finish).
OutcomeIsTrue == EvidenceIsTrue /\ ReportIsTrue /\ SuccessIsMutual

\* A pair offered for another attempt left nothing behind: the receiver never
\* left, nothing filled, and the source order cannot fill any more
\* (_retryable_pair_after_guard).
RetryIsSafe ==
    result.retry =>
        /\ sends["receiver"] = 0
        /\ \A l \in Legs : order[l].fill = 0 /\ order[l].status \notin {"flight", "live"}

\* No request is ever sent twice, whatever path of stops, restarts and repeated
\* cleanup an attempt takes (_cancel_if_safe, _resume_reconciliation).
SentOnce ==
    \A r \in DOMAIN sends : sends[r] <= 1

\* The receiver is handed to the transport only while the local stream admits it
\* at that instant and no cancellation of the source was asked for: ws_confirmed
\* decides and sends without an await, ack decides again after its durable wait.
AdmittedWhenSent ==
    [][sends'["receiver"] # sends["receiver"] =>
          /\ mode # "strict" => StreamAdmits(stream)
          /\ ~canceled]_vars

\* The venue and the result as PairedAttempt sees them.
Promise == INSTANCE PairedAttempt WITH
    exposed <- {l \in Legs : order[l].status # "unsent"},
    open    <- {l \in Legs : order[l].status \in {"flight", "live"}},
    fills   <- [l \in Legs |-> order[l].fill],
    report  <- [state |-> IF result.outcome = "none" THEN "none"
                          ELSE IF result.outcome = "UNKNOWN" THEN "unknown"
                          ELSE "final",
                fills |-> result.fills]

\* The engine implements what an attempt promises.
KeepsPromise == Promise!Spec
=============================================================================
