---------------------------- MODULE ExtendedLevelC ----------------------------
(***************************************************************************)
(* SealedLifecycleRunner with its OperationalIntentStore and RuntimeRun-   *)
(* Journal: one entry and one close, or the cancellation of an entry that  *)
(* rests, in a single run for ever.  A failure halts the store and blocks  *)
(* the journal, as far as they can still be written.                       *)
(*                                                                         *)
(* A check that fails, of an observation, its age or its identities, ends  *)
(* the run in one way (Fails).                                             *)
(***************************************************************************)
EXTENDS ExtendedVenue

CONSTANT MAX_RECONCILE_READS

VARIABLES
    intents,   \* the store: the state of each intent
    known,     \* the store: orders whose identity at the venue is written
    signed,    \* the store: orders whose signed payload is written
    lifecycle, \* the store: the state of the lifecycle
    journal,   \* the journal of the run
    report,    \* the report in the journal
    pc, cur,   \* where run() is, and the order it is about
    reads      \* reads of this reconciliation so far

store == <<intents, known, signed, lifecycle>>
vars == <<venue, views, store, journal, report, pc, cur, reads>>

Init ==
    /\ VenueInit
    /\ intents = [k \in Sides \cup {"CANCEL"} |-> "none"] /\ known = {} /\ signed = {}
    /\ lifecycle = <<"FLAT">> /\ journal = "none" /\ report = "none"
    /\ pc = "down" /\ cur = "ENTRY" /\ reads = 0

Marked(k, s) == intents' = [intents EXCEPT ![k] = s]
Goes(p) == pc' = p /\ reads' = 0 /\ views' = {}

\* _production_run and begin: a journal that was begun is never begun again.
Begins ==
    /\ pc = "down" /\ journal = "none" /\ journal' = "STARTED" /\ Goes("prepare")
    /\ UNCHANGED <<venue, store, report, cur>>

\* _persist_failure: each of the two writes may fail as well.
Fails ==
    /\ pc # "down" /\ Goes("down")
    /\ lifecycle' \in {lifecycle, <<"HALTED">>}
    /\ journal' \in (IF journal = "STARTED" THEN {journal, "BLOCKED"} ELSE {journal})
    /\ UNCHANGED <<venue, intents, known, signed, report, cur>>

Before(k) == IF k = "ENTRY" THEN <<"FLAT">> ELSE <<"EXPOSED">>

\* _prepare_entry, and _prepare_close of an entry that was filled.
Prepares ==
    /\ pc = "prepare" /\ lifecycle = Before(cur)
    /\ cur = "CLOSE" => intents["ENTRY"] = "RECONCILED"
    /\ Marked(cur, "PREPARED") /\ lifecycle' = <<cur, "PREPARED">> /\ Goes("claim")
    /\ UNCHANGED <<venue, known, signed, journal, report, cur>>

Claims ==
    /\ pc = "claim" /\ lifecycle = <<cur, "PREPARED">> /\ intents[cur] = "PREPARED"
    /\ Marked(cur, "CLAIMED") /\ lifecycle' = <<cur, "AMBIGUOUS">> /\ Goes("sign")
    /\ UNCHANGED <<venue, known, signed, journal, report, cur>>

BindsSigned ==
    /\ pc = "sign" /\ signed' = signed \cup {cur} /\ Goes("send")
    /\ UNCHANGED <<venue, intents, known, lifecycle, journal, report, cur>>

Sends ==
    /\ pc = "send" /\ ~expired[cur] /\ Leaves(cur) /\ pc' = "answer"
    /\ UNCHANGED <<store, journal, report, cur, reads>>

\* The answer: the order's identity, a refusal, or nothing that can be used.
Answered ==
    /\ pc = "answer"
    /\ \/ orders[cur].at # "lost" /\ Marked(cur, "ACCEPTED") /\ known' = known \cup {cur} /\ Goes("reconcile")
       \/ orders[cur].at = "lost" /\ Marked(cur, "REJECTED") /\ Goes("reconcile") /\ UNCHANGED known
       \/ Marked(cur, "AMBIGUOUS") /\ Goes("recover") /\ UNCHANGED known
    /\ lifecycle' = <<cur, "AMBIGUOUS">>
    /\ UNCHANGED <<venue, signed, journal, report, cur>>

-----------------------------------------------------------------------------
(* Observations and what they are taken for.                               *)

Looking == pc \in {"recover", "reconcile", "recover_cancel", "cancelled", "round_1", "round_2"}

Observes ==
    /\ Looking /\ views = {} /\ views' = {orders}
    /\ UNCHANGED <<venue, store, journal, report, pc, cur, reads>>

\* Found by its own identity, an order is looked at again by the venue's.
Discovers ==
    /\ Looking /\ cur \notin known /\ intents[cur] \in {"CLAIMED", "AMBIGUOUS"}
    /\ \E v \in views : Row(v, cur) # "none"
    /\ known' = known \cup {cur} /\ Marked(cur, "ACCEPTED") /\ views' = {orders}
    /\ UNCHANGED <<venue, signed, lifecycle, journal, report, pc, cur, reads>>

\* Mutant of Classified: a part of the quantity counts as a fill.
ClassifiedLoosely(outcome) ==
    /\ Looking /\ views # {}
    /\ \E row \in views :
          CASE outcome = "UNSEEN" -> Row(row, cur) = "none"
            [] outcome = "OPEN" -> Row(row, cur) = "OPEN"
            [] outcome = "FILLED" -> cur \in known /\ Row(row, cur) \in {"FILLED", "PARTIAL"}
            [] outcome = "NO_FILL" -> cur \in known /\ Row(row, cur) = "CANCELLED"

\* _resolve_and_classify: the row, the trades and the position, each as one of
\* the reads saw it.
Classified(outcome) ==
    /\ Looking /\ views # {}
    /\ \E row, trades, position \in views :
          CASE outcome = "UNSEEN" -> Row(row, cur) = "none"
            [] outcome = "OPEN" -> cur \in known /\ Row(row, cur) = "OPEN" /\ trades[cur].filled = 0
            [] outcome = "FILLED" ->
                  /\ cur \in known /\ Row(row, cur) = "FILLED" /\ trades[cur].filled = Lots
                  /\ Position(position) = (IF cur = "ENTRY" THEN Lots ELSE 0)
            [] outcome = "NO_FILL" ->
                  /\ cur \in known /\ Row(row, cur) = "CANCELLED" /\ trades[cur].filled = 0
                  /\ Position(position) = 0

\* Nothing final: the next read, and after the last one only a failure.
ReadsAgain ==
    /\ pc \in {"recover", "reconcile", "recover_cancel", "cancelled"}
    /\ \/ Classified("UNSEEN") \/ Classified("OPEN")
       \/ pc = "cancelled" /\ Classified("FILLED")
    /\ reads + 1 < MAX_RECONCILE_READS /\ reads' = reads + 1 /\ views' = {}
    /\ IF Classified("FILLED") /\ pc = "cancelled"
       THEN Marked("ENTRY", "RECONCILED") /\ lifecycle' = <<"EXPOSED">>
       ELSE UNCHANGED <<intents, lifecycle>>
    /\ UNCHANGED <<venue, known, signed, journal, report, pc, cur>>

\* Still open at the last read: an entry is to be cancelled.
StillOpen ==
    /\ pc \in {"recover", "reconcile"} /\ reads + 1 = MAX_RECONCILE_READS /\ Classified("OPEN")
    /\ pc = "reconcile" => cur = "ENTRY"
    /\ Goes(IF pc = "recover" THEN "reconcile" ELSE "cancel")
    /\ UNCHANGED <<venue, store, journal, report, cur>>

IsFilled ==
    /\ pc \in {"recover", "reconcile"} /\ Classified("FILLED")
    /\ Marked(cur, "RECONCILED") /\ lifecycle' = <<"EXPOSED">>
    /\ IF pc = "recover" THEN Goes("reconcile") /\ UNCHANGED cur
       ELSE IF cur = "ENTRY" THEN Goes("prepare") /\ cur' = "CLOSE"
       ELSE Goes("barrier") /\ UNCHANGED cur
    /\ UNCHANGED <<venue, known, signed, journal, report>>

IsUnfilled ==
    /\ pc \in {"recover", "reconcile"} /\ Classified("NO_FILL")
    /\ IF cur = "CLOSE"
       THEN Marked("CLOSE", "NO_FILL") /\ lifecycle' = <<"EXPOSED">> /\ pc = "recover" /\ Goes("reconcile")
       ELSE /\ Marked("ENTRY", "NO_FILL") /\ lifecycle' = <<"FLAT_PENDING_EXPIRY">>
            /\ Goes(IF pc = "recover" THEN "reconcile" ELSE "barrier")
    /\ UNCHANGED <<venue, known, signed, journal, report, cur>>

-----------------------------------------------------------------------------
(* The cancellation of an entry that rests.                                *)

PreparesCancel ==
    /\ pc = "cancel" /\ "ENTRY" \in known /\ lifecycle = <<"ENTRY", "AMBIGUOUS">>
    /\ Marked("CANCEL", "PREPARED") /\ lifecycle' = <<"CANCEL", "PREPARED">> /\ Goes("claim_cancel")
    /\ UNCHANGED <<venue, known, signed, journal, report, cur>>

ClaimsCancel ==
    /\ pc = "claim_cancel" /\ Marked("CANCEL", "CLAIMED") /\ lifecycle' = <<"CANCEL", "AMBIGUOUS">>
    /\ Goes("send_cancel")
    /\ UNCHANGED <<venue, known, signed, journal, report, cur>>

SendsCancel ==
    /\ pc = "send_cancel" /\ CancelLeaves /\ pc' = "cancel_answer"
    /\ UNCHANGED <<store, journal, report, cur, reads>>

CancelAnswered ==
    /\ pc = "cancel_answer"
    /\ \/ Marked("CANCEL", "ACCEPTED") /\ Goes("cancelled")
       \/ Marked("CANCEL", "AMBIGUOUS") /\ Goes("recover_cancel")
    /\ lifecycle' = <<"CANCEL", "AMBIGUOUS">>
    /\ UNCHANGED <<venue, known, signed, journal, report, cur>>

\* The entry is found cancelled: its state first, then the cancellation's.
IsCancelled ==
    /\ pc \in {"recover_cancel", "cancelled"} /\ Classified("NO_FILL")
    /\ Marked("ENTRY", "NO_FILL") /\ lifecycle' = <<"FLAT_PENDING_EXPIRY">>
    /\ Goes(IF pc = "cancelled" THEN "cancel_over" ELSE "cancel_recovered")
    /\ UNCHANGED <<venue, known, signed, journal, report, cur>>

CancelOver ==
    /\ pc \in {"cancel_over", "cancel_recovered"}
    /\ Marked("CANCEL", "RECONCILED") /\ lifecycle' = <<"FLAT_PENDING_EXPIRY">>
    /\ Goes(IF pc = "cancel_over" THEN "barrier" ELSE "cancelled")
    /\ UNCHANGED <<venue, known, signed, journal, report, cur>>

-----------------------------------------------------------------------------
(* _final_barrier: past every expiry, two rounds that show the same.       *)

Ordered == {k \in Sides : intents[k] # "none"}

PastExpiry ==
    /\ pc = "barrier" /\ (\A k \in Ordered : expired[k]) /\ Goes("round_1")
    /\ UNCHANGED <<venue, store, journal, report, cur>>

Round ==
    /\ views # {} /\ \E v \in views : ~IsOpen(v)
    /\ \E v \in views : Position(v) = 0
    /\ \A k \in Ordered : \E row, trades \in views :
          /\ Row(row, k) = (IF intents[k] = "NO_FILL" THEN "CANCELLED" ELSE "FILLED")
          /\ trades[k].filled = (IF intents[k] = "NO_FILL" THEN 0 ELSE Lots)

FirstRound ==
    /\ pc = "round_1" /\ Round /\ Goes("round_2")
    /\ UNCHANGED <<venue, store, journal, report, cur>>

SecondRound ==
    /\ pc = "round_2" /\ Round
    /\ \A k \in DOMAIN intents : intents[k] \notin {"PREPARED", "CLAIMED", "AMBIGUOUS"}
    /\ lifecycle' = <<"COMPLETE">> /\ Goes("report")
    /\ UNCHANGED <<venue, intents, known, signed, journal, report, cur>>

Reports ==
    /\ pc = "report" /\ journal = "STARTED" /\ journal' = "COMPLETE"
    /\ report' = (IF intents["ENTRY"] = "NO_FILL" THEN "NO_FILL" ELSE "SUCCESS") /\ Goes("down")
    /\ UNCHANGED <<venue, store, cur>>

Runner ==
    \/ Begins \/ Fails \/ Prepares \/ Claims \/ BindsSigned \/ Sends \/ Answered
    \/ Observes \/ Discovers \/ ReadsAgain \/ StillOpen \/ IsFilled \/ IsUnfilled
    \/ PreparesCancel \/ ClaimsCancel \/ SendsCancel \/ CancelAnswered \/ IsCancelled \/ CancelOver
    \/ PastExpiry \/ FirstRound \/ SecondRound \/ Reports

Next == Runner \/ (VenueNext /\ UNCHANGED <<store, journal, report, pc, cur, reads>>)

Spec == Init /\ [][Next]_vars

-----------------------------------------------------------------------------
(* Properties.                                                             *)

\* A lifecycle that is complete is settled for good, and the report says what
\* was traded.
CompleteIsSettled ==
    /\ lifecycle = <<"COMPLETE">> \/ report # "none" => Settled
    /\ report = "NO_FILL" => orders["ENTRY"].filled = 0
    /\ report = "SUCCESS" => orders["ENTRY"].filled = Lots /\ orders["CLOSE"].filled = Lots

\* The close is sent only of an entry that is filled and over.
CloseStandsAlone ==
    orders["CLOSE"] # Unsent => orders["ENTRY"] = [at |-> "done", filled |-> Lots]
=============================================================================
