----------------------------- MODULE RisexLevelC ----------------------------
(***************************************************************************)
(* RisexLevelCRunner over Lifecycle and DurableIntentStore: on the RISEx   *)
(* testnet one market order opens a position and at most three reduce-only *)
(* orders close it.  The account is watched on one private stream per      *)
(* process, which shows what happens after it subscribed.  The store       *)
(* outlives the process, and one store serves one lifecycle.               *)
(*                                                                         *)
(* A request whose answer is lost may act until its permit expires.  Every *)
(* check that fails, of a reading, its age or its identity, ends the run   *)
(* in the same way (Fails).                                                *)
(***************************************************************************)
EXTENDS Integers, Sequences, Totals

CONSTANTS
    Lots,   \* the minimum of the market, in lots
    MaxRuns \* bound on processes over the store

VARIABLES
    orders,    \* the venue: the orders that left, by intent
    cancelling,\* the venue: open orders whose cancellation is under way
    expired,   \* whether the permit of the last intent has expired
    intents,   \* the store: the intents, in order
    cancels,   \* the store: the state of the cancellation of each intent
    outcome,   \* the store: the outcome of the lifecycle
    stream,    \* the stream: frames not received yet
    seen,      \* the stream: what was received
    evidence,  \* the runner: what it is about to reconcile
    pc,        \* the runner: where it is
    result,    \* what the last run reported
    runs       \* runs so far

vars == <<orders, cancelling, expired, intents, cancels, outcome, stream, seen, evidence,
          pc, result, runs>>
venue == <<orders, cancelling, expired>>
store == <<intents, cancels, outcome>>

NoRow == [i |-> 0, open |-> FALSE, filled |-> 0]
Unseen == [on |-> FALSE, pos |-> 0, open |-> {}, row |-> NoRow, moved |-> FALSE, verified |-> FALSE]
Nothing == [terminal |-> FALSE, filled |-> 0, pos |-> 0, known |-> FALSE, cancel |-> FALSE]

Init ==
    /\ orders = <<>> /\ cancelling = {} /\ expired = FALSE
    /\ intents = <<>> /\ cancels = <<>> /\ outcome = "ACTIVE"
    /\ stream = <<>> /\ seen = Unseen /\ evidence = Nothing
    /\ pc = "down" /\ result = "none" /\ runs = 0

Cur == Len(intents)
Now == intents[Cur]
Closes == {i \in DOMAIN intents : intents[i].kind = "CLOSE"}
Able(i) == orders[i].at = "open" \/ (orders[i].at = "flying" /\ ~(i = Cur /\ expired))

\* What the orders made of the account, which nothing else trades on.
Signed(i, n) == IF intents[i].kind = "OPEN" THEN n ELSE 0 - n
Position == Total([i \in DOMAIN orders |-> Signed(i, orders[i].filled)])
Open == {i \in DOMAIN orders : orders[i].at = "open"}

-----------------------------------------------------------------------------
(* The venue.  Its frames reach the process that is subscribed.            *)

Row(i, open, n) == [type |-> "row", i |-> i, open |-> open, filled |-> n]
Moved(p) == [type |-> "position", pos |-> p]
Shows(fs) == stream' = IF seen.on THEN stream \o fs ELSE stream
Becomes(i, at, n) == orders' = [orders EXCEPT ![i].at = at, ![i].filled = n]

\* An IOC order may be shown as open before it is executed.
Rests(i) ==
    /\ orders[i].at = "flying" /\ Able(i)
    /\ Becomes(i, "open", 0) /\ Shows(<<Row(i, TRUE, 0)>>)
    /\ UNCHANGED <<cancelling, expired, store, seen, evidence, pc, result, runs>>

\* The first closing order is fill-or-kill; the position may be shown on its way.
Quantities(i) ==
    IF intents[i].kind = "OPEN" THEN 0..intents[i].size
    ELSE IF i = 2 THEN {n \in {0, intents[i].size} : n <= Position}
    ELSE 0..Position

Executes(i) ==
    /\ Able(i) /\ cancelling' = cancelling \ {i}
    /\ \E n \in Quantities(i) :
          LET last == <<Moved(Position + Signed(i, n))>>
              moves == IF n = 0 THEN {<<>>}
                       ELSE IF n = 1 THEN {last} ELSE {last, <<Moved(Position + Signed(i, 1))>> \o last}
          IN  /\ Becomes(i, "done", n)
              /\ \E m \in moves : \/ Shows(<<Row(i, FALSE, n)>> \o m)
                                  \/ Shows(m \o <<Row(i, FALSE, n)>>)
    /\ UNCHANGED <<expired, store, seen, evidence, pc, result, runs>>

Refuses(i) ==
    /\ orders[i].at = "flying" /\ Becomes(i, "dead", 0)
    /\ UNCHANGED <<cancelling, expired, store, stream, seen, evidence, pc, result, runs>>

CancelActs(i) ==
    /\ cancelling' = cancelling \ {i} /\ Becomes(i, "done", 0) /\ Shows(<<Row(i, FALSE, 0)>>)
    /\ UNCHANGED <<expired, store, seen, evidence, pc, result, runs>>

Expires ==
    /\ Cur > 0 /\ ~expired /\ expired' = TRUE
    /\ UNCHANGED <<orders, cancelling, store, stream, seen, evidence, pc, result, runs>>

-----------------------------------------------------------------------------
(* The process.                                                            *)

Starts ==
    /\ pc = "down" /\ runs < MaxRuns /\ runs' = runs + 1 /\ pc' = "begin"
    /\ stream' = <<>> /\ seen' = Unseen /\ evidence' = Nothing /\ result' = "none"
    /\ UNCHANGED <<venue, store>>

Crashes ==
    /\ pc # "down" /\ pc' = "down" /\ stream' = <<>> /\ seen' = Unseen /\ evidence' = Nothing
    /\ UNCHANGED <<venue, store, result, runs>>

Ends(r) == pc' = "down" /\ result' = r /\ stream' = <<>> /\ seen' = Unseen /\ evidence' = Nothing

\* Any exception in run, once an intent exists, halts the lifecycle for good.
Fails ==
    /\ pc # "down"
    /\ IF intents = <<>> THEN Ends("BLOCKED") /\ UNCHANGED outcome
       ELSE outcome' = "FAILED" /\ Ends("FAILED")
    /\ UNCHANGED <<venue, intents, cancels, runs>>

Begins ==
    /\ pc = "begin"
    /\ IF outcome # "ACTIVE" THEN Ends(outcome)
       ELSE pc' = (IF intents = <<>> THEN "open" ELSE "loop") /\ UNCHANGED <<stream, seen, evidence, result>>
    /\ UNCHANGED <<venue, store, runs>>

\* The private stream begins with the open orders and the position.
Subscribed == IF seen.on THEN seen ELSE [Unseen EXCEPT !.on = TRUE, !.pos = Position, !.open = Open]

\* The public sweep, read twice: the account is flat.
PublicFlat == Position = 0 /\ Open = {}

\* capability.state: the first reading of a process must be flat, and one that
\* the stream shows as flat must be flat in public as well.
Flat == Subscribed.pos = 0 /\ Subscribed.open = {}
MayRead == ~seen.verified \/ Flat => Flat /\ PublicFlat
Reads == MayRead /\ seen' = [Subscribed EXCEPT !.verified = TRUE]

Intend(k, n) ==
    /\ intents' = Append(intents, [kind |-> k, size |-> n, src |-> Subscribed.pos, state |-> "PREPARED",
                                   known |-> FALSE, after |-> 0])
    /\ cancels' = Append(cancels, "none")
    /\ expired' = FALSE /\ pc' = "dispatch"

\* preflight and prepare_open.
PreparesOpen ==
    /\ pc = "open" /\ Reads /\ Flat
    /\ Intend("OPEN", Lots)
    /\ UNCHANGED <<orders, cancelling, outcome, stream, evidence, result, runs>>

Evidently == pc' = "evidence" /\ seen' = [Subscribed EXCEPT !.moved = ~seen.on]

\* The loop, in the same process or the next one.
Loops ==
    /\ pc = "loop" /\ Now.state # "TERMINAL"
    /\ IF Now.state = "PREPARED" THEN Reads /\ pc' = "dispatch" ELSE Evidently
    /\ UNCHANGED <<venue, store, stream, evidence, result, runs>>

Marked(s) == intents' = [intents EXCEPT ![Cur].state = s]

Dispatches ==
    /\ pc = "dispatch" /\ Now.state = "PREPARED" /\ ~expired
    /\ Marked("DISPATCHING") /\ pc' = "send"
    /\ UNCHANGED <<venue, cancels, outcome, stream, seen, evidence, result, runs>>

\* The request leaves, or fails before it does.
Sends ==
    /\ pc = "send" /\ pc' = "answer"
    /\ \E at \in {"flying", "dead"} : orders' = Append(orders, [at |-> at, filled |-> 0])
    /\ UNCHANGED <<cancelling, expired, store, stream, seen, evidence, result, runs>>

\* _record_place_result.
Answered ==
    /\ pc = "answer"
    /\ \/ orders[Cur].at \in {"open", "done"}
          /\ intents' = [intents EXCEPT ![Cur].state = "DISPATCHED", ![Cur].known = TRUE]
       \/ orders[Cur].at = "dead" /\ Marked("VENUE_REJECTED")
       \/ Marked("AMBIGUOUS")
    /\ Evidently
    /\ UNCHANGED <<venue, cancels, outcome, stream, evidence, result, runs>>

-----------------------------------------------------------------------------
(* Evidence: the next row of this order and, after a fill, a position that *)
(* arrived since; or, for an opening order that the venue never named, its *)
(* absence until the permit has expired.                                   *)

Needed == (pc = "evidence" /\ seen.row = NoRow) \/ (pc = "position" /\ ~seen.moved)

\* _demux_once: a row of another order ends the run.
Receives ==
    /\ Needed /\ stream # <<>> /\ stream' = Tail(stream)
    /\ LET f == Head(stream)
       IN  IF f.type = "position" THEN seen' = [seen EXCEPT !.pos = f.pos, !.moved = TRUE]
           ELSE /\ f.i = Cur
                /\ seen' = [seen EXCEPT !.row = [i |-> f.i, open |-> f.open, filled |-> f.filled],
                                        !.open = IF f.open THEN @ \cup {f.i} ELSE @ \ {f.i}]
    /\ UNCHANGED <<venue, store, evidence, pc, result, runs>>

Takes(e) == evidence' = e /\ pc' = (IF evidence.cancel THEN "cancelled" ELSE "judge")

Finds ==
    /\ pc \in {"evidence", "position"} /\ ~Needed
    /\ LET row == seen.row
       IN  IF row.filled > 0 /\ ~seen.moved
           THEN pc' = "position" /\ UNCHANGED <<seen, evidence>>
           ELSE /\ seen' = [seen EXCEPT !.row = NoRow]
                /\ Takes([terminal |-> ~row.open, filled |-> row.filled, pos |-> seen.pos, known |-> TRUE, cancel |-> FALSE])
    /\ UNCHANGED <<venue, store, stream, result, runs>>

Unnamed == Now.kind = "OPEN" /\ ~Now.known /\ Now.state # "OPEN_KNOWN"

\* Nothing of this order arrives, on a stream that began flat.
FindsNothing ==
    /\ pc = "evidence" /\ Needed /\ stream = <<>> /\ Unnamed
    /\ seen.open = {} /\ seen.pos = 0 /\ pc' = "expiry"
    /\ UNCHANGED <<venue, store, stream, seen, evidence, result, runs>>

\* Mutant of NeverCame: the runner does not wait for the permit to expire.
NeverCameSoon ==
    /\ pc = "expiry" /\ PublicFlat
    /\ evidence' = [Nothing EXCEPT !.terminal = TRUE] /\ pc' = "judge"
    /\ UNCHANGED <<venue, store, stream, seen, result, runs>>

NeverCame ==
    /\ pc = "expiry" /\ expired /\ PublicFlat
    /\ evidence' = [Nothing EXCEPT !.terminal = TRUE] /\ pc' = "judge"
    /\ UNCHANGED <<venue, store, stream, seen, result, runs>>

-----------------------------------------------------------------------------
(* reconcile, and what follows from it.                                    *)

Fits(e) ==
    IF Now.kind = "OPEN" THEN e.filled \in {0, Now.size} /\ e.pos = e.filled
    ELSE e.filled <= Now.src /\ e.pos = Now.src - e.filled

\* The order is open and untouched: it is cancelled.
KnownOpen ==
    /\ pc = "judge" /\ ~evidence.terminal /\ evidence.filled = 0
    /\ evidence.pos = (IF Now.kind = "OPEN" THEN 0 ELSE Now.src)
    /\ intents' = [intents EXCEPT ![Cur].state = "OPEN_KNOWN", ![Cur].known = TRUE]
    /\ pc' = "cancel" /\ evidence' = Nothing
    /\ UNCHANGED <<venue, cancels, outcome, stream, seen, result, runs>>

Unfilled(e) == Now.kind = "OPEN" /\ e.filled = 0

Reconciles ==
    /\ pc = "judge" /\ evidence.terminal /\ Fits(evidence)
    /\ Unfilled(evidence) /\ evidence.known => cancels[Cur] \in {"none", "TERMINAL"}
    /\ intents' = [intents EXCEPT ![Cur].state = "TERMINAL", ![Cur].after = evidence.pos,
                                  ![Cur].known = @ \/ evidence.known]
    /\ evidence' = Nothing
    /\ pc' = IF Unfilled(evidence) THEN "unfilled"
             ELSE IF evidence.pos = 0 THEN "final" ELSE "close"
    /\ UNCHANGED <<venue, cancels, outcome, stream, seen, result, runs>>

Unfills ==
    /\ pc = "unfilled" /\ outcome' = "NO_FILL" /\ pc' = "last"
    /\ UNCHANGED <<venue, intents, cancels, stream, seen, evidence, result, runs>>

\* The last look at an account that nothing was opened on.
EndsUnfilled ==
    /\ pc = "last" /\ MayRead /\ Flat
    /\ Ends("NO_FILL")
    /\ UNCHANGED <<venue, store, runs>>

Complete == \A i \in DOMAIN intents : intents[i].state = "TERMINAL" /\ cancels[i] \in {"none", "TERMINAL"}

\* finalize.
Finalizes ==
    /\ pc = "final" /\ MayRead
    /\ LET r == IF Complete /\ Closes # {} /\ Now.after = 0 /\ Flat
                THEN "SUCCESS" ELSE "FAILED"
       IN  outcome' = r /\ Ends(r)
    /\ UNCHANGED <<venue, intents, cancels, runs>>

MAX_CLOSES == 3
Halts ==
    /\ pc = "close" /\ Cur > MAX_CLOSES
    /\ outcome' = "FAILED" /\ Ends("FAILED")
    /\ UNCHANGED <<venue, intents, cancels, runs>>

\* prepare_close: of what was reconciled, with progress before the third one.
PreparesClose ==
    /\ pc = "close" /\ Cur <= MAX_CLOSES /\ Reads
    /\ Subscribed.open = {} /\ Subscribed.pos = Now.after /\ Complete
    /\ Cur = MAX_CLOSES => Now.after # Now.src
    /\ Intend("CLOSE", Subscribed.pos)
    /\ UNCHANGED <<orders, cancelling, outcome, stream, evidence, result, runs>>

-----------------------------------------------------------------------------
(* cancel_known and reconcile_cancel.                                      *)

Cancels(s) == cancels' = [cancels EXCEPT ![Cur] = s]

ReservesCancel ==
    /\ pc = "cancel" /\ Reads /\ cancels[Cur] = "none"
    /\ Cancels("DISPATCHING") /\ pc' = "send_cancel"
    /\ UNCHANGED <<venue, intents, outcome, stream, evidence, result, runs>>

SendsCancel ==
    /\ pc = "send_cancel" /\ pc' = "cancel_answer"
    /\ cancelling' \in {cancelling, cancelling \cup ({Cur} \cap Open)}
    /\ UNCHANGED <<orders, expired, store, stream, seen, evidence, result, runs>>

CancelAnswered ==
    /\ pc = "cancel_answer"
    /\ \E s \in {"AMBIGUOUS", "PENDING"} : Cancels(s)
    /\ Evidently /\ evidence' = [Nothing EXCEPT !.cancel = TRUE]
    /\ UNCHANGED <<venue, intents, outcome, stream, result, runs>>

ReconcilesCancel ==
    /\ pc = "cancelled" /\ evidence.terminal /\ Reads
    /\ Subscribed.open = {} /\ Cancels("TERMINAL") /\ pc' = "judge"
    /\ UNCHANGED <<venue, intents, outcome, stream, evidence, result, runs>>

-----------------------------------------------------------------------------
Venue == \/ \E i \in DOMAIN orders : Rests(i) \/ Executes(i) \/ Refuses(i)
         \/ \E i \in cancelling : CancelActs(i)
         \/ Expires

Runner ==
    \/ Begins \/ PreparesOpen \/ Loops \/ Dispatches \/ Sends \/ Answered
    \/ Receives \/ Finds \/ FindsNothing \/ NeverCame
    \/ KnownOpen \/ Reconciles \/ Unfills \/ EndsUnfilled \/ Finalizes \/ Halts \/ PreparesClose
    \/ ReservesCancel \/ SendsCancel \/ CancelAnswered \/ ReconcilesCancel \/ Fails

Next == Venue \/ Starts \/ Crashes \/ Runner

Spec == Init /\ [][Next]_vars

-----------------------------------------------------------------------------
(* Properties.                                                             *)

\* A lifecycle that says it is flat is flat, whatever it sent before a crash,
\* and nothing it sent can trade any more; one that was blocked sent nothing.
CompleteIsFlat ==
    /\ outcome \in {"NO_FILL", "SUCCESS"} \/ result \in {"NO_FILL", "SUCCESS"} =>
          Position = 0 /\ \A i \in DOMAIN orders : ~Able(i)
    /\ outcome = "NO_FILL" => \A i \in DOMAIN orders : orders[i].filled = 0
    /\ outcome = "SUCCESS" => orders[1].filled = Lots
    /\ result = "BLOCKED" => orders = <<>>

\* Never two orders that can both trade, and never a close of what is not there.
OneOrderAtATime ==
    /\ \A i, j \in DOMAIN orders : Able(i) /\ Able(j) => i = j
    /\ \A i \in DOMAIN orders : Able(i) /\ intents[i].kind = "CLOSE" => intents[i].size = Position
=============================================================================
