--------------------------- MODULE NadoLifecycle ----------------------------
(***************************************************************************)
(* SealedLifecycleRunner over IntentStore: one position opened on the Nado *)
(* testnet by one ENTRY order, its rest taken off by at most one           *)
(* CANCEL_ALL, and closed by at most MAX_CLOSE_ATTEMPTS reduce-only CLOSE  *)
(* orders, each written down before it is sent.  Every signed request      *)
(* carries a receive window after which the venue refuses it, and the      *)
(* runner reads nothing into an observation before that window is over.    *)
(*                                                                         *)
(* The venue is not trusted further than the code trusts it: an accepted   *)
(* order may act at any time inside its window or never, an order sent as  *)
(* immediate may rest, the archive of fills may lag, and the three reads   *)
(* of an observation (orders, positions, fills) are of three instants.     *)
(***************************************************************************)
EXTENDS Integers, Sequences, Totals

CONSTANTS
    Q,                  \* the amount of the entry, in units that fill singly
    MAX_CLOSE_ATTEMPTS,
    MaxRuns             \* bound on how often run() is started

VARIABLES
    order,   \* the venue: where each request is, what is left of it, its fill
    late,    \* the requests whose receive window is over
    intents, \* the store: kind, amount, starting position, state, known fills
    status,  \* the store: RUNNING, HALTED, COMPLETE
    pc,      \* the runner: its next step, or "down"
    cur,     \* the runner: the intent it sends or reconciles
    task,    \* the runner: what an observation is for
    seen,    \* the runner: its last observation
    terminal,\* the adapter: the requests it holds a terminal status of
    outcome, \* the runner: the Reconciliation of cur
    runs     \* how often run() was started

venue  == <<order, late>>
store  == <<intents, status>>
vars   == <<order, late, intents, status, pc, cur, task, seen, terminal, outcome, runs>>

Requests == DOMAIN intents
OfKind(k) == {i \in Requests : intents[i].kind = k}
Trades    == OfKind("ENTRY") \cup OfKind("CLOSE")
Live(i)   == order[i].at \in {"FLYING", "RESTING"}

\* What n units of request i make of the position.
Signed(i, n) == IF intents[i].kind = "CLOSE" THEN 0 - n ELSE n
\* The position the venue holds.
Position == Total([i \in Requests |-> Signed(i, order[i].filled)])

NotSeen == [open |-> 0, position |-> 0, fills |-> << >>]

Init ==
    /\ order = << >> /\ late = {} /\ intents = << >> /\ status = "RUNNING"
    /\ pc = "down" /\ cur = 0 /\ task = "START" /\ seen = NotSeen
    /\ terminal = {} /\ outcome = "NONE" /\ runs = 0

-----------------------------------------------------------------------------
(* The venue.                                                              *)

\* Order i trades n units and its rest goes on at w.
Trade(i, n, w) ==
    order' = [order EXCEPT ![i] = [at |-> w, left |-> @.left - n, filled |-> @.filled + n]]

\* An accepted request acts: the entry trades and may rest, a close reduces
\* the position and no more, a cancellation takes off what rests.
Arrives(i) ==
    /\ order[i].at = "FLYING"
    /\ \/ /\ intents[i].kind = "ENTRY"
          /\ \E n \in 0..order[i].left, w \in {"GONE", "RESTING"} :
                 (w = "RESTING" => n < order[i].left) /\ Trade(i, n, w)
       \/ /\ intents[i].kind = "CLOSE"
          /\ \E n \in 0..order[i].left : n <= Position /\ Trade(i, n, "GONE")
       \/ /\ intents[i].kind = "CANCEL_ALL"
          /\ order' = [j \in Requests |-> IF Live(j) THEN [order[j] EXCEPT !.at = "GONE"]
                                          ELSE order[j]]
    /\ UNCHANGED <<late, store, pc, cur, task, seen, terminal, outcome, runs>>

RestingFills(i) ==
    /\ order[i].at = "RESTING"
    /\ \E n \in 1..order[i].left :
           Trade(i, n, IF n = order[i].left THEN "GONE" ELSE "RESTING")
    /\ UNCHANGED <<late, store, pc, cur, task, seen, terminal, outcome, runs>>

\* recv_time passes: what has not arrived never will.
WindowCloses(i) ==
    /\ i \notin late /\ order[i].at # "UNSENT"
    /\ late' = late \cup {i}
    /\ order' = [order EXCEPT ![i].at = IF @ = "FLYING" THEN "GONE" ELSE @]
    /\ UNCHANGED <<store, pc, cur, task, seen, terminal, outcome, runs>>

-----------------------------------------------------------------------------
(* Starting and failing.                                                   *)

Goto(step) == pc' = step

\* run(): the identity of the run is journalled, then a store that holds an
\* intent or is no longer RUNNING is for manual recovery only.
Start ==
    /\ pc = "down" /\ runs < MaxRuns /\ runs' = runs + 1
    /\ task' = "START" /\ cur' = 0 /\ seen' = NotSeen /\ terminal' = {} /\ outcome' = "NONE"
    /\ Goto(IF intents = << >> /\ status = "RUNNING" THEN "orders" ELSE "failed")
    /\ UNCHANGED <<venue, store>>

\* _persist_runner_failure: any error ends the run behind the halt.
Fail ==
    /\ pc = "failed"
    /\ status' = IF status = "COMPLETE" THEN status ELSE "HALTED"
    /\ Goto("down")
    /\ UNCHANGED <<venue, intents, cur, task, seen, terminal, outcome, runs>>

\* A read or a check fails that the decisions below do not name.
Breaks ==
    /\ pc \in {"orders", "positions", "fills", "enter", "cancel", "exposed"}
    /\ Goto("failed")
    /\ UNCHANGED <<venue, store, cur, task, seen, terminal, outcome, runs>>

Crash ==
    /\ pc # "down" /\ Goto("down")
    /\ UNCHANGED <<venue, store, cur, task, seen, terminal, outcome, runs>>

-----------------------------------------------------------------------------
(* An observation.                                                         *)

ReadOrders ==
    /\ pc = "orders"
    /\ seen' = [seen EXCEPT !.open =
           IF \E i \in Requests : order[i].at = "RESTING"
           THEN order[CHOOSE i \in Requests : order[i].at = "RESTING"].left ELSE 0]
    /\ Goto("positions")
    /\ UNCHANGED <<venue, store, cur, task, terminal, outcome, runs>>

ReadPositions ==
    /\ pc = "positions"
    /\ seen' = [seen EXCEPT !.position = Position]
    /\ Goto("fills")
    /\ UNCHANGED <<venue, store, cur, task, terminal, outcome, runs>>

\* Any part of the fills may be in the archive.
ReadFills ==
    /\ pc = "fills"
    /\ \E f \in [Requests -> 0..Q] :
           /\ \A i \in Requests : f[i] <= order[i].filled
           /\ seen' = [seen EXCEPT !.fills = f]
    /\ Goto(CASE task = "START" -> "enter" [] task = "JUDGE" -> "record" [] OTHER -> "barrier")
    /\ UNCHANGED <<venue, store, cur, task, terminal, outcome, runs>>

-----------------------------------------------------------------------------
(* Preparing and sending.                                                  *)

\* IntentStore.prepare: the intent is durable, nothing is sent.
Prepare(kind, amount) ==
    /\ intents' = Append(intents, [kind |-> kind, amount |-> amount, start |-> seen.position,
                                   state |-> "PREPARED", fills |-> 0])
    /\ order' = Append(order, [at |-> "UNSENT", left |-> amount, filled |-> 0])
    /\ cur' = Len(intents) + 1 /\ Goto("send")
    /\ UNCHANGED <<late, status, seen, terminal, outcome, runs, task>>

\* prepare_entry: the account is flat and nothing rests on it.
PrepareEntry ==
    /\ pc = "enter" /\ status = "RUNNING" /\ OfKind("ENTRY") = {}
    /\ seen.position = 0 /\ seen.open = 0
    /\ Prepare("ENTRY", Q)

\* prepare_cancel_all: the entry is unresolved and its order was just seen.
PrepareCancel ==
    /\ pc = "cancel" /\ status = "RUNNING" /\ OfKind("CANCEL_ALL") = {}
    /\ intents[1].state \in {"RESTING", "PARTIAL"} /\ seen.open > 0
    /\ Prepare("CANCEL_ALL", 0)

MayClose ==
    /\ status = "RUNNING" /\ seen.open = 0
    /\ \A i \in Requests : intents[i].state = "RECONCILED"

\* prepare_close: all that went before is reconciled, and the close asks for
\* what was seen of the position.
PrepareClose ==
    /\ pc = "exposed" /\ seen.position # 0
    /\ Len(SelectSeq(intents, LAMBDA r : r.kind = "CLOSE")) < MAX_CLOSE_ATTEMPTS
    /\ MayClose
    /\ Prepare("CLOSE", seen.position)

\* A preparation that is refused ends the run.
Refused ==
    /\ \/ pc = "cancel" /\ ~(status = "RUNNING" /\ seen.open > 0)
       \/ pc = "exposed" /\ seen.position # 0
          /\ ~(MayClose /\ Len(SelectSeq(intents, LAMBDA r : r.kind = "CLOSE")) < MAX_CLOSE_ATTEMPTS)
    /\ Goto("failed")
    /\ UNCHANGED <<venue, store, cur, task, seen, terminal, outcome, runs>>

NothingLeft ==
    /\ pc = "exposed" /\ seen.position = 0
    /\ task' = "FINAL" /\ Goto("orders")
    /\ UNCHANGED <<venue, store, cur, seen, terminal, outcome, runs>>

\* The request leaves and the venue answers with its identity.  A cancellation
\* is believed only when it names the entry with the rest last seen of it.
SendAccepted ==
    /\ pc = "send"
    /\ IF intents[cur].kind = "CANCEL_ALL"
       THEN /\ order[1].at = "RESTING" /\ order[1].left = seen.open
            /\ order' = [order EXCEPT ![1].at = "GONE", ![cur].at = "GONE"]
            /\ terminal' = terminal \cup {1, cur}
       ELSE /\ order' = [order EXCEPT ![cur].at = "FLYING"]
            /\ terminal' = IF intents[cur].kind = "CLOSE" THEN terminal \cup {cur} ELSE terminal
    /\ Goto("mark")
    /\ UNCHANGED <<late, store, cur, task, seen, outcome, runs>>

\* _record_execute_failure: the venue's refusal, or an answer that was lost or
\* does not fit; the request may then still act.  One transaction.
SendFails ==
    /\ pc = "send"
    /\ \E s \in {"REJECTED", "AMBIGUOUS"} :
           /\ order' = [order EXCEPT ![cur].at = IF s = "REJECTED" THEN "GONE" ELSE "FLYING"]
           /\ intents' = [intents EXCEPT ![cur].state = s]
    /\ status' = "HALTED"
    /\ Goto("failed")
    /\ UNCHANGED <<late, cur, task, seen, terminal, outcome, runs>>

MarkDispatched ==
    /\ pc = "mark"
    /\ intents' = [intents EXCEPT ![cur].state = "DISPATCHED"]
    /\ task' = "JUDGE" /\ Goto("wait")
    /\ UNCHANGED <<venue, status, cur, seen, terminal, outcome, runs>>

-----------------------------------------------------------------------------
(* Reconciling.                                                            *)

WindowIgnored(i) == i \in Requests
WindowIsOver(i) == i \in late

\* _reconcile waits for the window of the intent, then observes.
Wait ==
    /\ pc = "wait" /\ WindowIsOver(cur)
    /\ Goto("orders")
    /\ UNCHANGED <<venue, store, cur, task, seen, terminal, outcome, runs>>

\* Nothing of the intent is visible yet: it is observed again, some times.
ObserveAgain ==
    /\ pc = "record" /\ cur \notin terminal /\ intents[cur].kind = "ENTRY"
    /\ seen.open = 0 /\ seen.fills[cur] = 0
    /\ Goto("orders")
    /\ UNCHANGED <<venue, store, cur, task, seen, terminal, outcome, runs>>

\* _record_fill_evidence: a transaction of its own.
RecordFills ==
    /\ pc = "record"
    /\ intents' = [i \in Requests |-> [intents[i] EXCEPT !.fills =
                                           IF seen.fills[i] > @ THEN seen.fills[i] ELSE @]]
    /\ Goto("judge")
    /\ UNCHANGED <<venue, status, cur, task, seen, terminal, outcome, runs>>

Verdict(o, s, h) == [outcome |-> o, state |-> s, halts |-> h]
Contradictory    == Verdict("CONTRADICTORY", intents[cur].state, TRUE)
Ambiguous        == Verdict("AMBIGUOUS", "AMBIGUOUS", TRUE)

\* What was seen of the entry's order fits the fills on record.
OrderEvidenceFits == seen.open > 0 => intents[1].fills + seen.open = intents[1].amount

OfCancel == IF seen.open = 0 THEN Verdict("CANCELLED", "RECONCILED", FALSE) ELSE Ambiguous

OfEntry ==
    LET f == seen.fills[1]  ended == 1 \in terminal IN
    IF \/ seen.open > 0 /\ (ended \/ f + seen.open # intents[1].amount)
       \/ (f > 0 \/ (seen.open = 0 /\ ended)) /\ seen.position # f
                                     THEN Contradictory
    ELSE IF f = intents[1].amount    THEN Verdict("FILLED", "RECONCILED", FALSE)
    ELSE IF ended                    THEN Verdict("CANCELLED", "RECONCILED", FALSE)
    ELSE IF f > 0                    THEN Verdict("PARTIAL", "PARTIAL", seen.open = 0)
    ELSE IF seen.open > 0            THEN Verdict("RESTING", "RESTING", FALSE)
    ELSE Ambiguous

OfClose ==
    LET f == seen.fills[cur] IN
    IF seen.position # intents[cur].start - f THEN Contradictory
    ELSE IF seen.position = 0 THEN Verdict("FILLED", "RECONCILED", FALSE)
    ELSE IF f > 0             THEN Verdict("PARTIAL", "RECONCILED", TRUE)
    ELSE Verdict("CANCELLED", "RECONCILED",
             Len(SelectSeq(intents, LAMBDA r : r.kind = "CLOSE")) >= MAX_CLOSE_ATTEMPTS)

\* IntentStore.reconcile once the fills are on record: the state is written,
\* and the halt, where it is due, in a transaction after it.
Judge ==
    /\ pc = "judge"
    /\ LET v == IF ~OrderEvidenceFits THEN Contradictory
                ELSE CASE intents[cur].kind = "ENTRY" -> OfEntry
                       [] intents[cur].kind = "CLOSE" -> OfClose
                       [] OTHER                       -> OfCancel
       IN /\ intents' = [intents EXCEPT ![cur].state = v.state]
          /\ outcome' = v.outcome
          /\ Goto(IF v.halts THEN "halt" ELSE "go")
    /\ UNCHANGED <<venue, status, cur, task, seen, terminal, runs>>

Halt ==
    /\ pc = "halt" /\ status' = "HALTED" /\ Goto("go")
    /\ UNCHANGED <<venue, intents, cur, task, seen, terminal, outcome, runs>>

\* _run_order_lifecycle after a reconciliation.
Continue ==
    /\ pc = "go"
    /\ LET unresolved == outcome \in {"RESTING", "PARTIAL"} /\ intents[cur].kind = "ENTRY"
       IN CASE intents[cur].kind = "CANCEL_ALL" /\ outcome = "CANCELLED" ->
                   cur' = 1 /\ Goto("wait")
            [] unresolved /\ OfKind("CANCEL_ALL") = {} -> UNCHANGED cur /\ Goto("cancel")
            [] intents[cur].kind # "CANCEL_ALL" /\ outcome \in {"FILLED", "CANCELLED"} ->
                   UNCHANGED cur /\ Goto("exposed")
            [] OTHER -> UNCHANGED cur /\ Goto("failed")
    /\ UNCHANGED <<venue, store, task, seen, terminal, outcome, runs>>

-----------------------------------------------------------------------------
(* The end.                                                                *)

\* completion_barrier: a fresh observation is flat without an order, every
\* intent is reconciled, and the archive holds the fills on record, which net
\* to nothing.
Barrier ==
    /\ status = "RUNNING" /\ seen.open = 0 /\ seen.position = 0
    /\ \A i \in Requests : intents[i].state = "RECONCILED" /\ seen.fills[i] = intents[i].fills
    /\ Total([i \in Requests |-> Signed(i, seen.fills[i])]) = 0

Complete ==
    /\ pc = "barrier"
    /\ IF Barrier THEN status' = "COMPLETE" /\ Goto("down")
                  ELSE UNCHANGED status /\ Goto("failed")
    /\ UNCHANGED <<venue, intents, cur, task, seen, terminal, outcome, runs>>

-----------------------------------------------------------------------------
Venue  == \E i \in Requests : Arrives(i) \/ RestingFills(i) \/ WindowCloses(i)
Runner == \/ Fail \/ Breaks
          \/ ReadOrders \/ ReadPositions \/ ReadFills
          \/ PrepareEntry \/ PrepareCancel \/ PrepareClose \/ Refused \/ NothingLeft
          \/ SendAccepted \/ SendFails \/ MarkDispatched
          \/ Wait \/ ObserveAgain \/ RecordFills \/ Judge \/ Halt \/ Continue \/ Complete

Next == Venue \/ Runner \/ Start \/ Crash
Spec == Init /\ [][Next]_vars

-----------------------------------------------------------------------------
\* A lifecycle is COMPLETE only when the venue holds no position for it, none
\* of its requests can act any more, whatever was delayed, and every fill the
\* venue made is on record.
CompleteIsFlat ==
    status = "COMPLETE" =>
        /\ Position = 0
        /\ \A i \in Requests : ~Live(i) /\ intents[i].fills = order[i].filled

\* At no time, crashes and lost answers included, can two orders of the
\* lifecycle still trade, and a close that still can asks for exactly what is
\* held: no close relies on the venue's reduce-only rule to be harmless.
OneOrderAtATime ==
    \A i \in Trades : Live(i) =>
        /\ \A j \in Trades : Live(j) => i = j
        /\ intents[i].kind = "CLOSE" => order[i].left = Position
=============================================================================
