----------------------------- MODULE TwoAccount -----------------------------
(***************************************************************************)
(* TwoAccountCoordinator: a testnet lifecycle of four orders on two        *)
(* accounts, each with a SQLite journal of its own.  The counterparty      *)
(* rests a maker order, the primary takes against it (ENTRY), and the same *)
(* again the other way round (EXIT); then two REST rounds must find both   *)
(* accounts flat.  Every durable write is a step of its own, so that a     *)
(* crash may fall between any two, those of the two journals included; a   *)
(* restarted run goes on from the phase the journals agree on.             *)
(*                                                                         *)
(* A read of an account is what the account was at one instant of it: the  *)
(* adapter crosses nine reads and refuses what disagrees.  The two         *)
(* accounts are read at different instants.                                *)
(***************************************************************************)
EXTENDS Integers, Sequences

CONSTANTS
    Q,       \* MARKET_MINIMUM, in lots that may fill one by one
    MaxRuns  \* bound on how often run() is started

ASSUME TwoAccountAssumption == Q \in Nat \ {0} /\ MaxRuns \in Nat

Roles == {"PRIMARY", "COUNTERPARTY"}
Steps == {"ENTRY_MAKER", "ENTRY_TAKER", "EXIT_MAKER", "EXIT_TAKER"}

Makers   == {"ENTRY_MAKER", "EXIT_MAKER"}
Role(s)  == IF s \in Makers THEN "COUNTERPARTY" ELSE "PRIMARY"
Stage(s) == IF s \in {"ENTRY_MAKER", "ENTRY_TAKER"} THEN "ENTRY" ELSE "EXIT"
Maker(e) == IF e = "ENTRY" THEN "ENTRY_MAKER" ELSE "EXIT_MAKER"

\* Phase: that of the run, or of a step: DONE is ..._RESTING of a maker and
\* ..._RECONCILED of a taker.
RunPhases == {<<"run", k>> : k \in {"START", "INITIAL_ZERO", "FINAL_ROUND_ONE",
                                    "COMPLETE", "HALTED"}}
Phases    == RunPhases \cup (Steps \X {"PREPARED", "DISPATCHED", "DONE"})

START    == <<"run", "START">>
ZERO     == <<"run", "INITIAL_ZERO">>
ROUND    == <<"run", "FINAL_ROUND_ONE">>
COMPLETE == <<"run", "COMPLETE">>
HALTED   == <<"run", "HALTED">>

\* The phase a step is prepared in.
Before(s) == CASE s = "ENTRY_MAKER" -> ZERO
               [] s = "ENTRY_TAKER" -> <<"ENTRY_MAKER", "DONE">>
               [] s = "EXIT_MAKER"  -> <<"ENTRY_TAKER", "DONE">>
               [] s = "EXIT_TAKER"  -> <<"EXIT_MAKER", "DONE">>

IntentStates == {"NONE", "PREPARED", "DISPATCHING", "DISPATCHED", "VENUE_REJECTED",
                 "AMBIGUOUS", "RESTING", "TERMINAL"}

\* An intent whose order was accepted: its order id is known.
Accepted == {"DISPATCHED", "RESTING", "TERMINAL"}

VARIABLES
    order,   \* the venue: status, fill and number of trades of each order
    sends,   \* the venue: how often each order was sent to it
    phase, outcome, \* each journal's phase and outcome
    intent,  \* the journals: the intent of each step
    sealed,  \* each journal: the stages with a trade and a price
    spent,   \* each journal: the steps that used their one propagation resample
    final,   \* each journal: what is saved of the two final rounds
    pc,      \* where run() is
    todo,    \* its durable writes still to be made, in order
    seen, read, \* the observation, and the accounts of it already read
    report,  \* what the last run returned
    runs     \* how often run() was started

venue    == <<order, sends>>
journals == <<phase, outcome, intent, sealed, spent, final>>
memory   == <<seen, read>>
vars     == <<venue, journals, pc, todo, memory, report, runs>>

Absent == [status |-> "absent", fill |-> 0, trades |-> 0]
Orders == [status : {"absent", "flight", "refused", "OPEN", "FILLED", "CANCELLED"},
           fill : 0..Q, trades : 0..Q]

Init ==
    /\ order = [s \in Steps |-> Absent] /\ sends = [s \in Steps |-> 0]
    /\ phase = [r \in Roles |-> START] /\ outcome = [r \in Roles |-> "ACTIVE"]
    /\ intent = [s \in Steps |-> "NONE"]
    /\ sealed = [r \in Roles |-> {}] /\ spent = [r \in Roles |-> {}]
    /\ final = [r \in Roles |-> {}]
    /\ pc = "down" /\ todo = <<>>
    /\ seen = [s \in Steps |-> Absent] /\ read = {}
    /\ report = "none" /\ runs = 0

-----------------------------------------------------------------------------
(* The venue.                                                              *)

\* The position the orders of a role made, as `v` has them.
Position(v, r) ==
    IF r = "PRIMARY" THEN v["ENTRY_TAKER"].fill - v["EXIT_TAKER"].fill
                     ELSE v["EXIT_MAKER"].fill - v["ENTRY_MAKER"].fill

coordinator == <<sends, journals, pc, todo, memory, report, runs>>

Status(n, rest) == IF n = Q THEN "FILLED" ELSE rest

MakerArrives(m) ==
    /\ m \in Makers /\ order[m].status = "flight"
    /\ \E s \in {"OPEN", "refused"} : order' = [order EXCEPT ![m].status = s]
    /\ UNCHANGED coordinator

\* An IOC takes `own` of the resting maker, and `other` elsewhere.
TakerArrives(t) ==
    /\ t \notin Makers /\ order[t].status = "flight"
    /\ LET m == Maker(Stage(t)) IN
       \/ order' = [order EXCEPT ![t].status = "refused"]
       \/ \E own, other \in 0..Q :
             LET total == order[m].fill + own IN
             /\ own + other <= Q
             /\ own > 0 => order[m].status = "OPEN" /\ total <= Q
             /\ order' = [order EXCEPT
                   ![t] = [status |-> Status(own + other, "CANCELLED"),
                           fill |-> own + other,
                           trades |-> (IF own > 0 THEN 1 ELSE 0)
                                      + (IF other > 0 THEN 1 ELSE 0)],
                   ![m] = IF own = 0 THEN @
                          ELSE [status |-> Status(total, "OPEN"), fill |-> total,
                                trades |-> @.trades + 1]]
    /\ UNCHANGED coordinator

\* Somebody else takes from a resting maker.
MakerTaken(m) ==
    /\ order[m].status = "OPEN"
    /\ \E n \in (order[m].fill + 1)..Q :
          order' = [order EXCEPT ![m] = [status |-> Status(n, "OPEN"), fill |-> n,
                                         trades |-> @.trades + 1]]
    /\ UNCHANGED coordinator

\* The venue cancels what rests.
MakerCancelled(m) ==
    /\ order[m].status = "OPEN"
    /\ order' = [order EXCEPT ![m].status = "CANCELLED"]
    /\ UNCHANGED coordinator

-----------------------------------------------------------------------------
(* The journals.  A write is <<what, whose, value>>.                       *)

Current == phase["PRIMARY"]
AgreeOnOutcome == outcome["PRIMARY"] = outcome["COUNTERPARTY"] \* mutant: phases unread
Agree   == phase["PRIMARY"] = phase["COUNTERPARTY"]

Both(what, value) == <<<<what, "PRIMARY", value>>, <<what, "COUNTERPARTY", value>>>>
SetPhase(p)       == Both("phase", p)

\* set_phase, set_outcome, set_terminal, prepare, mark_dispatching,
\* record_place_result, reconcile_intent.
Put(what, who, new) ==
    LET Set(name, old)  == IF what = name THEN [old EXCEPT ![who] = new] ELSE old
        Into(name, old) == IF what = name THEN [old EXCEPT ![who] = @ \cup {new}] ELSE old
    IN /\ phase' = Set("phase", phase) /\ outcome' = Set("outcome", outcome)
       /\ intent' = Set("intent", intent) /\ sealed' = Into("sealed", sealed)
       /\ spent' = Into("spent", spent) /\ final' = Into("final", final)

\* reconcile_external_..._maker_fill: the intent and its trade at once.
PutExternalFill(m) ==
    /\ intent' = [intent EXCEPT ![m] = "TERMINAL"]
    /\ sealed' = [sealed EXCEPT ![Role(m)] = @ \cup {Stage(m)}]
    /\ UNCHANGED <<phase, outcome, spent, final>>

\* recover_entry_fill of one journal: the fill, the phase and the outcome at once.
PutRecovery(s) ==
    /\ intent' = [intent EXCEPT ![s] = "TERMINAL"]
    /\ sealed' = [sealed EXCEPT ![Role(s)] = @ \cup {"ENTRY"}]
    /\ phase' = [phase EXCEPT ![Role(s)] = <<"ENTRY_TAKER", "DONE">>]
    /\ outcome' = [outcome EXCEPT ![Role(s)] = "ACTIVE"]
    /\ UNCHANGED <<spent, final>>

\* One durable write: a transaction of one journal.
Write ==
    /\ todo # <<>>
    /\ todo' = Tail(todo)
    /\ LET w == Head(todo) IN
       CASE w[1] = "external_fill" -> PutExternalFill(w[2])
         [] w[1] = "recover"       -> PutRecovery(w[2])
         [] OTHER                  -> Put(w[1], w[2], w[3])
    /\ UNCHANGED <<venue, pc, memory, report, runs>>

Dispatches == {s \in Steps : intent[s] \notin {"NONE", "PREPARED"}}
Pending    == {s \in Steps : intent[s] \in {"DISPATCHING", "AMBIGUOUS"}}

-----------------------------------------------------------------------------
(* run().                                                                  *)

\* Where run() is when its writes are made; the observation is kept or dropped.
Then(p, writes)  == pc' = p /\ todo' = writes /\ UNCHANGED <<venue, journals, report, runs>>
Keep  == UNCHANGED memory
Fresh == read' = {} /\ seen' = [s \in Steps |-> Absent]

\* A CoordinatorSafetyError: outcome and phase are halted, and nothing is where
\* the two phases disagree or the lifecycle is complete.
HaltWrites == Both("outcome", "HALTED") \o
              (IF Agree /\ Current # COMPLETE THEN SetPhase(HALTED) ELSE <<>>)

Halted ==
    /\ pc = "halting" /\ todo = <<>>
    /\ pc' = "down"
    /\ report' = IF ~Agree THEN "raised"
                 ELSE IF Dispatches = {} THEN "BLOCKED" ELSE "FAILED"
    /\ Fresh /\ UNCHANGED <<venue, journals, todo, runs>>

Complete == /\ Agree /\ Current = COMPLETE
            /\ \A r \in Roles : outcome[r] = "COMPLETE" /\ {"one", "two"} \subseteq final[r]

Start ==
    /\ pc = "down" /\ runs < MaxRuns
    /\ runs' = runs + 1
    /\ LET Finished == Current = COMPLETE \/ \E r \in Roles : outcome[r] = "COMPLETE"
           Stopped  == outcome["PRIMARY"] = "HALTED" \/ Current = HALTED
           Goes(p, writes, rep) == pc' = p /\ todo' = writes /\ report' = rep
       IN IF Agree /\ Finished /\ Complete THEN Goes("down", <<>>, "COMPLETE")
          ELSE IF ~Agree \/ Finished THEN Goes("halting", HaltWrites, "none")
          ELSE IF Stopped THEN Goes("down", <<>>, "FAILED")
          ELSE IF Pending # {} THEN Goes("halting", HaltWrites, "none")
          ELSE Goes("observing", <<>>, "none")
    /\ Fresh /\ UNCHANGED <<venue, journals>>

Reading == {"observing", "confirming", "round"}

\* What is not there is not listed.
Visible(o) == IF o.status \in {"flight", "refused"} THEN Absent ELSE o

Read(r) ==
    /\ pc \in Reading /\ todo = <<>> /\ r \in Roles \ read
    /\ read' = read \cup {r}
    /\ seen' = [s \in Steps |-> IF Role(s) = r THEN Visible(order[s]) ELSE seen[s]]
    /\ UNCHANGED <<venue, journals, pc, todo, report, runs>>

\* _observe_after_place: an accepted order is not listed yet; one read more, and
\* the allowance is spent in both journals before the wait.
Resample ==
    /\ pc \in {"observing", "confirming"} /\ todo = <<>> /\ read # Roles
    /\ Current[2] = "DISPATCHED"
    /\ \A r \in Roles : Current[1] \notin spent[r]
    /\ Then(pc, Both("spent", Current[1])) /\ Fresh

\* Something observed is not as it must be: what the guards below name, or the
\* market, the portfolio, the signer, the private stream, the book, a deadline.
Refuse ==
    /\ pc \in Reading \cup {"sending"} /\ todo = <<>>
    /\ Then("halting", HaltWrites) /\ Fresh

Observed(p) == pc = p /\ todo = <<>> /\ read = Roles

Has(r, n) == Position(seen, r) = n
NoneOpen  == \A s \in Steps : seen[s].status # "OPEN"

\* Filled in full, by one trade.
Exact(o) == o.fill = Q /\ o.trades = 1

\* _zero_state
Zero ==
    /\ Observed("observing") /\ Current = START
    /\ NoneOpen /\ \A r \in Roles : Has(r, 0)
    /\ Then("observing", SetPhase(ZERO)) /\ Keep

\* The maker was taken by somebody else, in full, before the taker is sent.
ExternalFill(m) ==
    /\ intent[m] \in {"DISPATCHED", "TERMINAL"}
    /\ NoneOpen
    /\ seen[m].status = "FILLED" /\ Exact(seen[m])
    /\ IF m = "ENTRY_MAKER" THEN Has("COUNTERPARTY", -Q)
       ELSE Has("COUNTERPARTY", 0) /\ Has("PRIMARY", Q)

MakerProven(m) == intent[m] = "RESTING" \/ (intent[m] = "TERMINAL" /\ ExternalFill(m))

EntryTakerReady == MakerProven("ENTRY_MAKER") /\ Has("PRIMARY", 0)

ExitMakerReady == NoneOpen /\ Has("PRIMARY", Q) /\ Has("COUNTERPARTY", -Q)

ExitTakerReady ==
    /\ MakerProven("EXIT_MAKER") /\ Has("PRIMARY", Q)
    /\ Has("COUNTERPARTY", IF intent["EXIT_MAKER"] = "TERMINAL" THEN 0 ELSE -Q)

Ready(s) == CASE s = "ENTRY_MAKER" -> TRUE
              [] s = "ENTRY_TAKER" -> EntryTakerReady
              [] s = "EXIT_MAKER"  -> ExitMakerReady
              [] s = "EXIT_TAKER"  -> ExitTakerReady

\* The intent is written and then the phase; an intent already there is a replay.
Prepare(s) ==
    /\ Observed("observing") /\ Current = Before(s)
    /\ Ready(s) /\ intent[s] = "NONE"
    /\ Then("observing", <<<<"intent", s, "PREPARED">>>> \o SetPhase(<<s, "PREPARED">>))
    /\ Keep

\* Mutant: the intent is marked when the answer comes.
DispatchUnmarked(s) ==
    /\ Observed("observing") /\ Current = <<s, "PREPARED">>
    /\ \/ intent[s] = "PREPARED" /\ Then("sending", <<>>)
       \/ intent[s] \in Accepted /\ Then("observing", SetPhase(<<s, "DISPATCHED">>))
    /\ Keep

\* _dispatch_place: DISPATCHING is durable before the request leaves; an intent
\* already accepted is not sent again.
Dispatch(s) ==
    /\ Observed("observing") /\ Current = <<s, "PREPARED">>
    /\ \/ intent[s] = "PREPARED" /\ Then("sending", <<<<"intent", s, "DISPATCHING">>>>)
       \/ intent[s] \in Accepted /\ Then("observing", SetPhase(<<s, "DISPATCHED">>))
    /\ Keep

Send(s) ==
    /\ pc = "sending" /\ todo = <<>> /\ Current = <<s, "PREPARED">>
    /\ order' = [order EXCEPT ![s].status = "flight"]
    /\ sends' = [sends EXCEPT ![s] = @ + 1]
    /\ pc' = "sent"
    /\ UNCHANGED <<journals, todo, memory, report, runs>>

\* The order id, a rejection, or neither: and then the lifecycle halts.
Answer(s) ==
    /\ pc = "sent" /\ Current = <<s, "PREPARED">>
    /\ \/ /\ order[s].status \notin {"flight", "refused"}
          /\ Then("observing", <<<<"intent", s, "DISPATCHED">>>>
                               \o SetPhase(<<s, "DISPATCHED">>))
       \/ /\ order[s].status = "refused"
          /\ Then("halting", <<<<"intent", s, "VENUE_REJECTED">>>> \o HaltWrites)
       \/ Then("halting", <<<<"intent", s, "AMBIGUOUS">>>> \o HaltWrites)
    /\ Keep

\* A dispatched step is observed once more.
Confirm ==
    /\ Observed("observing") /\ Current[2] = "DISPATCHED"
    /\ Then("confirming", <<>>) /\ Fresh

\* _prove_resting, or _reconcile_external_..._maker_fill.
ProveMaker(m) ==
    /\ Observed("confirming") /\ m \in Makers /\ Current = <<m, "DISPATCHED">>
    /\ \/ /\ seen[m].status = "FILLED" /\ ExternalFill(m)
          /\ Then("observing", <<<<"external_fill", m, "TERMINAL">>>>
                               \o SetPhase(<<m, "DONE">>))
       \/ /\ seen[m].status = "OPEN" /\ seen[m].fill = 0
          /\ intent[m] \in {"DISPATCHED", "RESTING"}
          /\ Then("observing", <<<<"intent", m, "RESTING">>>> \o SetPhase(<<m, "DONE">>))
    /\ Keep

\* _pair_fill: each account's own fill, exact, whoever was on the other side.
PairFill(t) ==
    /\ Observed("confirming") /\ t \in Steps \ Makers /\ Current = <<t, "DISPATCHED">>
    /\ LET m == Maker(Stage(t)) IN
       /\ seen[t].status = "FILLED" /\ seen[m].status \in {"FILLED", "CANCELLED"}
       /\ Exact(seen[t]) /\ Exact(seen[m])
       /\ Has("COUNTERPARTY", IF Stage(t) = "ENTRY" THEN -Q ELSE 0)
       /\ Has("PRIMARY", IF Stage(t) = "ENTRY" THEN Q ELSE 0)
       /\ intent[t] \in Accepted /\ intent[m] \in Accepted
       /\ Then("observing",
               <<<<"sealed", "COUNTERPARTY", Stage(t)>>, <<"sealed", "PRIMARY", Stage(t)>>,
                 <<"intent", m, "TERMINAL">>, <<"intent", t, "TERMINAL">>>>
               \o SetPhase(<<t, "DONE">>))
    /\ Keep

\* _final_barrier: two rounds of fresh reads, the first of them durable.
Barrier ==
    /\ Observed("observing")
    /\ \/ Current = <<"EXIT_TAKER", "DONE">>
       \/ Current = ROUND /\ {"one", "id"} \subseteq final["PRIMARY"]
                          /\ "one" \in final["COUNTERPARTY"]
    /\ Then("round", <<>>) /\ Fresh

\* _prove_final_account
FinalAccount(r) ==
    /\ Has(r, 0)
    /\ \A s \in {s \in Steps : Role(s) = r} :
          /\ intent[s] = "TERMINAL" /\ Stage(s) \in sealed[r]
          /\ seen[s].status \in {"FILLED", "CANCELLED"} /\ Exact(seen[s])

\* A round whose number is already saved was cut short, and cannot be repeated:
\* its number would be another.
RoundOne ==
    /\ Observed("round") /\ Current = <<"EXIT_TAKER", "DONE">>
    /\ \A r \in Roles : FinalAccount(r) /\ "id" \notin final[r]
    /\ Then("round", Both("final", "one") \o Both("final", "id") \o SetPhase(ROUND))
    /\ Fresh

RoundTwo ==
    /\ Observed("round") /\ Current = ROUND
    /\ \A r \in Roles : FinalAccount(r)
    /\ Then("closing", Both("final", "two") \o Both("outcome", "COMPLETE")
                       \o SetPhase(COMPLETE))
    /\ Fresh

Close ==
    /\ pc = "closing" /\ todo = <<>> /\ Complete
    /\ pc' = "down" /\ report' = "COMPLETE"
    /\ UNCHANGED <<venue, journals, todo, memory, runs>>

-----------------------------------------------------------------------------
\* recover_entry_fill: the operator's, on a halted lifecycle whose entry filled
\* after all.  Orders that are FILLED stay so: the observation may be old.
Recover ==
    /\ pc = "down" /\ runs < MaxRuns
    /\ \A r \in Roles : phase[r] = HALTED /\ outcome[r] = "HALTED" /\ "EXIT" \notin sealed[r]
    /\ \A s \in Steps : IF Stage(s) = "EXIT" THEN intent[s] = "NONE"
                        ELSE /\ intent[s] \in Accepted
                             /\ order[s].status = "FILLED" /\ Exact(order[s])
    /\ Position(order, "PRIMARY") = Q /\ Position(order, "COUNTERPARTY") = -Q
    /\ pc' = "recovering"
    /\ todo' = <<<<"recover", "ENTRY_TAKER", "TERMINAL">>,
                 <<"recover", "ENTRY_MAKER", "TERMINAL">>>>
    /\ UNCHANGED <<venue, journals, memory, report, runs>>

Recovered ==
    /\ pc = "recovering" /\ todo = <<>>
    /\ pc' = "down"
    /\ UNCHANGED <<venue, journals, todo, memory, report, runs>>

\* The process dies, or is cancelled: what was written stays.
Crash ==
    /\ pc # "down"
    /\ pc' = "down" /\ todo' = <<>> /\ Fresh
    /\ UNCHANGED <<venue, journals, report, runs>>

Venue == \E s \in Steps : MakerArrives(s) \/ TakerArrives(s) \/ MakerTaken(s)
                          \/ MakerCancelled(s)

Run == \/ Write \/ Start \/ Halted \/ Resample \/ Refuse \/ Zero \/ Confirm
       \/ \E r \in Roles : Read(r)
       \/ \E s \in Steps : \/ Prepare(s) \/ Dispatch(s) \/ Send(s) \/ Answer(s)
                           \/ ProveMaker(s) \/ PairFill(s)
       \/ Barrier \/ RoundOne \/ RoundTwo \/ Close

Next == Venue \/ Run \/ Recover \/ Recovered \/ Crash

Spec == Init /\ [][Next]_vars

-----------------------------------------------------------------------------
(* Properties.                                                             *)

TypeOK ==
    /\ order \in [Steps -> Orders] /\ sends \in [Steps -> Nat]
    /\ phase \in [Roles -> Phases]
    /\ outcome \in [Roles -> {"ACTIVE", "COMPLETE", "HALTED"}]
    /\ intent \in [Steps -> IntentStates]
    /\ sealed \in [Roles -> SUBSET {"ENTRY", "EXIT"}] /\ spent \in [Roles -> SUBSET Steps]
    /\ final \in [Roles -> SUBSET {"one", "id", "two"}]
    /\ pc \in Reading \cup {"down", "sending", "sent", "halting", "closing", "recovering"}
    /\ seen \in [Steps -> Orders] /\ read \subseteq Roles
    /\ report \in {"none", "raised", "BLOCKED", "FAILED", "COMPLETE"}
    /\ runs \in 0..MaxRuns

\* A lifecycle reported COMPLETE left both accounts flat, with nothing at the venue
\* that could still fill, each of its four orders sent once and filled in full; one
\* reported BLOCKED before any write sent nothing, in this run or an earlier one.
ReportIsTrue ==
    /\ report = "COMPLETE" =>
          /\ \A s \in Steps : sends[s] = 1 /\ order[s].fill = Q
                              /\ order[s].status \in {"FILLED", "CANCELLED"}
          /\ \A r \in Roles : Position(order, r) = 0
    /\ report = "BLOCKED" => \A s \in Steps : sends[s] = 0

\* Whatever crashed, and whatever an operator recovered: a taker is only ever sent
\* after its maker stood at the venue, an exit only from a pair that is hedged to
\* the lot, and no order twice.
EachStepStandsOnTheLast ==
    /\ \A s \in Steps : sends[s] <= 1
    /\ \A t \in Steps \ Makers : sends[t] > 0 =>
          order[Maker(Stage(t))].status \in {"OPEN", "FILLED", "CANCELLED"}
    /\ \A s \in Steps : Stage(s) = "EXIT" /\ sends[s] > 0 =>
          order["ENTRY_MAKER"].fill = Q /\ order["ENTRY_TAKER"].fill = Q

\* A lifecycle that halted, or whose journals a crash left in different phases,
\* sends nothing more.
HaltedSendsNothing ==
    [][(\/ phase["PRIMARY"] # phase["COUNTERPARTY"]
         \/ outcome["PRIMARY"] = "HALTED" \/ HALTED \in {phase[r] : r \in Roles})
          => sends' = sends]_vars
=============================================================================
