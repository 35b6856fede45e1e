------------------------------- MODULE Series -------------------------------
(***************************************************************************)
(* A finite series of paired attempts (series.py): one parent journal, one *)
(* child journal per slice, a check of both positions between two slices,  *)
(* and a restart that may only reconcile the child that was interrupted.   *)
(*                                                                         *)
(* A child is its contract (PairedAttempt): a success is a full pair that  *)
(* no order can change any more; of any other result each leg is known     *)
(* only when its order is over.  Quantities are lots, positions the        *)
(* distance from the first reading.  None stands for a quantity that is    *)
(* not established.                                                        *)
(***************************************************************************)
EXTENDS Integers, Sequences, Totals

CONSTANTS
    Target,      \* total_quantity
    Slice,       \* desired_slice_quantity
    MaxRestarts, \* bound on executions after the first
    MaxForeign   \* bound on changes of the positions by somebody else

None == -1
Roles == {"source", "receiver"}

VARIABLES
    journal, \* the parent's events
    child,   \* the children: their journals and their orders
    pos,     \* how far each account moved since the series began
    foreign, \* changes by somebody else so far
    pc,      \* where this execution is
    memory,  \* completed, and what it expects of the positions
    slice,   \* the slice under way
    report,  \* the last result
    life     \* executions so far

vars == <<journal, child, pos, foreign, pc, memory, slice, report, life>>

NoReport == [done |-> 0, source |-> None, receiver |-> None, pair |-> None]

Init ==
    /\ journal = <<>> /\ child = <<>> /\ report = NoReport
    /\ pos = [r \in Roles |-> 0] /\ foreign = 0
    /\ pc = "start" /\ slice = 0 /\ life = 1
    /\ memory = [done |-> 0, expected |-> [r \in Roles |-> 0]]

-----------------------------------------------------------------------------
(* The parent journal.                                                     *)

At(ev, i) == {k \in DOMAIN journal : journal[k].ev = ev /\ journal[k].child = i}
Of(ev) == {journal[k].child : k \in {k \in DOMAIN journal : journal[k].ev = ev}}
Said(ev, i) == journal[CHOOSE k \in At(ev, i) : TRUE].said
Happened(ev) == At(ev, 0) # {}

Written(ev, i, said) == journal' = Append(journal, [ev |-> ev, child |-> i, said |-> said])
Noted(ev) == Written(ev, 0, 0)

\* _stored_series_progress.
Stored == Total([k \in DOMAIN journal |-> IF journal[k].ev = "CHILD_COMPLETE" THEN journal[k].said ELSE 0])

\* Mutant of Plus: a leg that nobody established counts as not filled.
PlusNothing(n, leg) == IF leg = None THEN n ELSE n + leg

Plus(n, leg) == IF leg = None THEN None ELSE n + leg

Lesser(s, r) == IF s <= r THEN s ELSE r

\* _paired_totals_or_none, of legs that may be unknown.
Paired(s, r) == IF s > 0 /\ r > 0 THEN Lesser(s, r) ELSE None

Full(done, s, r, pair) == [done |-> done, source |-> s, receiver |-> r, pair |-> pair]
AllOf(done) == Full(done, done, done, Paired(done, done))
Unsaid(done) == [NoReport EXCEPT !.done = done]

Report(x) == report' = x /\ pc' = "over"

-----------------------------------------------------------------------------
(* One execution.                                                          *)

\* _execute_locked, before anything is read of the venue.
Begin ==
    /\ pc = "start"
    /\ IF Happened("SERIES_COMPLETE")
       THEN Report(AllOf(Stored)) /\ UNCHANGED journal
       ELSE IF journal # <<>> /\ ~Happened("SERIES_STARTED")
       THEN Noted("SERIES_RESTART_BLOCKED") /\ Report(NoReport)
       ELSE pc' = (IF journal = <<>> THEN "preflight" ELSE "restart") /\ UNCHANGED <<journal, report>>
    /\ UNCHANGED <<child, pos, foreign, memory, slice, life>>

\* The market or an account cannot be read, or is not as configured.
Refused ==
    /\ pc \in {"preflight", "restart"}
    /\ Noted(IF pc = "restart" THEN "SERIES_RESTART_BLOCKED" ELSE "SERIES_PREFLIGHT_BLOCKED")
    /\ Report(NoReport)
    /\ UNCHANGED <<child, pos, foreign, memory, slice, life>>

Start ==
    /\ pc = "preflight"
    /\ Noted("SERIES_STARTED")
    /\ memory' = [done |-> 0, expected |-> pos]
    /\ pc' = "next"
    /\ UNCHANGED <<child, pos, foreign, slice, report, life>>

Stop == Noted("SERIES_STOPPED") /\ Report(Unsaid(memory.done))

\* _validate_continuity, between two children.
Continuous == child = <<>> \/ pos = memory.expected

\* What size_next_slice may find in the book; nothing when it is not tradeable.
Sizes == 0..Lesser(Slice, Target - memory.done)

\* The head of the loop: the series is complete, both accounts are read again
\* after a child, and the next slice is sized.
NextSlice ==
    /\ pc = "next"
    /\ IF memory.done = Target
       THEN Noted("SERIES_COMPLETE") /\ Report(AllOf(memory.done)) /\ UNCHANGED slice
       ELSE IF ~Continuous THEN Stop /\ UNCHANGED slice
       ELSE \E n \in Sizes :
              IF n = 0
              THEN Noted("SERIES_REMAINDER_UNTRADEABLE") /\ Report(Unsaid(memory.done)) /\ UNCHANGED slice
              ELSE /\ slice' = n /\ pc' = "child"
                   /\ Written("CHILD_INTENT", Len(child) + 1, n)
                   /\ UNCHANGED report
    /\ UNCHANGED <<child, pos, foreign, memory, life>>

\* The book cannot be read, is stale or of another market.
NoBook ==
    /\ pc = "next" /\ memory.done < Target
    /\ Stop
    /\ UNCHANGED <<child, pos, foreign, memory, slice, life>>

\* run_handoff on a new path: the child's journal exists from here on.
ChildOpens ==
    /\ pc = "child"
    /\ child' = Append(child, [n |-> slice, sent |-> FALSE, settled |-> FALSE, by |-> life,
                               working |-> {}, base |-> pos, fill |-> [r \in Roles |-> 0]])
    /\ pc' = "running"
    /\ UNCHANGED <<journal, pos, foreign, memory, slice, report, life>>

Current == Len(child)

\* The child has journalled its intents and asks for both orders.
ChildSends ==
    /\ pc = "running" /\ ~child[Current].sent
    /\ child' = [child EXCEPT ![Current].sent = TRUE, ![Current].working = Roles]
    /\ UNCHANGED <<journal, pos, foreign, pc, memory, slice, report, life>>

Over(k) == k.sent /\ k.working = {}
IsPair(k) ==
    /\ Over(k)
    /\ \A r \in Roles : k.fill[r] = k.n
    /\ pos["source"] - k.base["source"] = -k.n /\ pos["receiver"] - k.base["receiver"] = k.n

\* What a child can report: a success, an end of another kind, or UNKNOWN with
\* the legs it could establish.
Results(k) ==
    LET legs == {l \in [Roles -> {None} \cup 0..k.n] :
                   \A r \in Roles : l[r] # None => k.sent /\ r \notin k.working /\ l[r] = k.fill[r]}
        known == {l \in legs : \A r \in Roles : l[r] # None}
        outs == IF IsPair(k) THEN {<<"SUCCESS", l>> : l \in known}
                ELSE IF Over(k) THEN {<<"PARTIAL", l>> : l \in known}
                ELSE IF k.sent THEN {} ELSE {<<"PARTIAL", l>> : l \in legs}
    IN  {[out |-> o[1], legs |-> o[2], after |-> pos] :
           o \in outs \cup {<<"UNKNOWN", l>> : l \in legs}}

\* run_handoff of the child at hand: its own journal has its last word.
Reconciled(x) ==
    /\ x \in Results(child[Current])
    /\ child' = [child EXCEPT ![Current].settled = x.out # "UNKNOWN"]

\* The child is done, and CHILD_RESULT is written unless the process dies first.
ChildReturns ==
    /\ pc = "running"
    /\ \E x \in Results(child[Current]) :
          /\ Reconciled(x)
          /\ \/ Written("CHILD_RESULT", Current, x) /\ pc' = "result"
             \/ pc' = "down" /\ UNCHANGED journal
    /\ UNCHANGED <<pos, foreign, memory, slice, report, life>>

\* _validate_child_success.
Valid(x) ==
    /\ \A r \in Roles : x.legs[r] = slice
    /\ x.after["source"] - memory.expected["source"] = -slice
    /\ x.after["receiver"] - memory.expected["receiver"] = slice

Judge ==
    /\ pc = "result"
    /\ LET x == Said("CHILD_RESULT", Current)
           s == Plus(memory.done, x.legs["source"])
           r == Plus(memory.done, x.legs["receiver"])
           done == memory.done + slice
       IN  IF x.out = "SUCCESS" /\ Valid(x)
           THEN /\ memory' = [done |-> done, expected |-> x.after]
                /\ Written("CHILD_COMPLETE", Current, slice)
                /\ pc' = "next" /\ UNCHANGED report
           ELSE /\ Noted("SERIES_STOPPED") /\ UNCHANGED memory
                /\ Report(IF x.out = "SUCCESS" THEN Unsaid(memory.done)
                          ELSE Full(memory.done, s, r, Paired(s, r)))
    /\ UNCHANGED <<child, pos, foreign, slice, life>>

-----------------------------------------------------------------------------
(* _handle_restart: the execution after an interruption.  It never begins  *)
(* another slice.                                                          *)

Pending == Of("CHILD_INTENT") \ Of("CHILD_COMPLETE")
Blocked(x) == Noted("SERIES_RESTART_BLOCKED") /\ Report(x)
Unresolved(k) == k.sent /\ ~k.settled

\* The legs on record for child i; a reconciliation counts before a result.
LegsOf(i) ==
    IF i \in Of("SERIES_RECONCILED_CHILD") THEN Said("SERIES_RECONCILED_CHILD", i).legs
    ELSE IF i \in Of("CHILD_RESULT") THEN Said("CHILD_RESULT", i).legs
    ELSE [r \in Roles |-> None]

\* A reconciliation says a pair only of a success.
PairOnRecord(i, s, r) ==
    IF s = None \/ r = None THEN None
    ELSE IF i \in Of("SERIES_RECONCILED_CHILD") /\ Said("SERIES_RECONCILED_CHILD", i).out # "SUCCESS"
    THEN None
    ELSE Paired(s, r)

\* event_map refuses two reconciliations of one child, and a result and a
\* reconciliation must name the same legs.
Malformed(i) ==
    \/ \E j, k \in At("SERIES_RECONCILED_CHILD", i) : j # k
    \/ /\ ~Unresolved(child[i])
       /\ {i} \subseteq Of("CHILD_RESULT") \cap Of("SERIES_RECONCILED_CHILD")
       /\ Said("CHILD_RESULT", i).legs # Said("SERIES_RECONCILED_CHILD", i).legs

NothingPending ==
    /\ Pending = {}
    /\ Blocked(IF Of("CHILD_COMPLETE") = {} THEN NoReport ELSE AllOf(Stored))
    /\ UNCHANGED child

\* The intent is on record and the child never began.
NeverBegan(i) == Len(child) < i /\ Blocked(AllOf(Stored)) /\ UNCHANGED child

\* The receipts do not fit: the series answers with its completed children.
CannotTell(i) == Len(child) = i /\ Malformed(i) /\ Blocked(AllOf(Stored)) /\ UNCHANGED child

\* The child is over: what is on record is all that is said.
FromRecord(i) ==
    /\ Len(child) = i /\ ~Malformed(i) /\ ~Unresolved(child[i])
    /\ LET s == Plus(Stored, LegsOf(i)["source"])
           r == Plus(Stored, LegsOf(i)["receiver"])
       IN  Blocked(Full(Stored, s, r, PairOnRecord(i, s, r)))
    /\ UNCHANGED child

\* The child may still have a live order: it is reconciled, and nothing more;
\* that is recorded unless the process dies first.
ReconcileChild(i) ==
    /\ Len(child) = i /\ ~Malformed(i) /\ Unresolved(child[i])
    /\ \E x \in Results(child[i]) :
          LET s == Plus(Stored, x.legs["source"])
              r == Plus(Stored, x.legs["receiver"])
          IN  /\ Reconciled(x)
              /\ \/ /\ Written("SERIES_RECONCILED_CHILD", i, x)
                    /\ Report(Full(Stored, s, r, IF x.out = "SUCCESS" /\ s = r THEN Paired(s, r) ELSE None))
                 \/ pc' = "down" /\ UNCHANGED <<journal, report>>

Restart ==
    /\ pc = "restart"
    /\ \/ NothingPending
       \/ \E i \in Pending : NeverBegan(i) \/ CannotTell(i) \/ FromRecord(i) \/ ReconcileChild(i)
    /\ UNCHANGED <<pos, foreign, memory, slice, life>>

-----------------------------------------------------------------------------
(* The venue, other hands on the accounts, and the process.                *)

Sign(r) == IF r = "source" THEN -1 ELSE 1

Fill ==
    /\ \E i \in DOMAIN child, r \in Roles :
          /\ r \in child[i].working /\ child[i].fill[r] < child[i].n
          /\ child' = [child EXCEPT ![i].fill[r] = @ + 1]
          /\ pos' = [pos EXCEPT ![r] = @ + Sign(r)]
    /\ UNCHANGED <<journal, foreign, pc, memory, slice, report, life>>

OrderEnds ==
    /\ \E i \in DOMAIN child : \E r \in child[i].working :
          child' = [child EXCEPT ![i].working = @ \ {r}]
    /\ UNCHANGED <<journal, pos, foreign, pc, memory, slice, report, life>>

Foreign ==
    /\ foreign < MaxForeign /\ foreign' = foreign + 1
    /\ \E r \in Roles, d \in {-1, 1} : pos' = [pos EXCEPT ![r] = @ + d]
    /\ UNCHANGED <<journal, child, pc, memory, slice, report, life>>

Busy == pc \notin {"over", "down"}

Crash ==
    /\ Busy
    /\ pc' = "down"
    /\ UNCHANGED <<journal, child, pos, foreign, memory, slice, report, life>>

\* The operator runs the same series again: everything but the journals is lost.
Relaunch ==
    /\ ~Busy /\ life <= MaxRestarts
    /\ life' = life + 1 /\ pc' = "start" /\ slice' = 0 /\ report' = NoReport
    /\ memory' = [done |-> 0, expected |-> [r \in Roles |-> 0]]
    /\ UNCHANGED <<journal, child, pos, foreign>>

Process ==
    \/ Begin \/ Refused \/ Start \/ NextSlice \/ NoBook
    \/ ChildOpens \/ ChildSends \/ ChildReturns \/ Judge \/ Restart

Next == Process \/ Fill \/ OrderEnds \/ Foreign \/ Crash \/ Relaunch

Spec == Init /\ [][Next]_vars

-----------------------------------------------------------------------------
(* Properties.                                                             *)

Filled(r) == Total([i \in DOMAIN child |-> child[i].fill[r]])
Planned == Total([i \in DOMAIN child |-> child[i].n])

\* The answer of a restart that finds receipts of a child that do not fit,
\* whether they were repeated or a reconciliation learnt more than the result:
\* its legs are the completed children only.
ReceiptsConflict ==
    /\ journal # <<>> /\ journal[Len(journal)].ev = "SERIES_RESTART_BLOCKED"
    /\ \E i \in Pending : Len(child) = i /\ Malformed(i)

\* What the series says it traded is what its orders traded, per leg and as a
\* pair, after any interruption, and where receipts conflict no more than that.
SaysWhatTraded ==
    pc = "over" =>
      \A r \in Roles :
        /\ report[r] # None => report[r] = Filled(r) \/ (ReceiptsConflict /\ report[r] < Filled(r))
        /\ report.pair # None => report.pair <= Filled(r)
        /\ report.done <= Filled(r)

\* A slice begins only after every earlier one is a full pair with no order
\* left, in the execution that began the series, and never beyond the total.
OneSliceAtATime ==
    /\ \A i \in 1..Len(child) - 1 :
          child[i].working = {} /\ \A r \in Roles : child[i].fill[r] = child[i].n
    /\ \A i, j \in DOMAIN child : child[i].by = child[j].by
    /\ Planned <= Target

SeriesIsTrue == SaysWhatTraded /\ OneSliceAtATime
=============================================================================
