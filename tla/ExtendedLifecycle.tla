--------------------------- MODULE ExtendedLifecycle --------------------------
(***************************************************************************)
(* ExtendedLifecycle and its IntentStore: a state machine that its caller  *)
(* drives with evidence of the venue, in any order and as often as it      *)
(* likes.  Evidence is one state of the venue: the stream has no gap, or   *)
(* two rounds of reads agree; it may be old when it is used.  The caller   *)
(* sends what it has claimed, once, at any later time.                     *)
(*                                                                         *)
(* What any check of an operation refuses leaves the store as it is; a     *)
(* contradiction that reconcile finds halts the lifecycle.                 *)
(***************************************************************************)
EXTENDS ExtendedVenue

VARIABLES
    acts,      \* the store: the state of each intent
    phase,     \* the store: the state of the lifecycle
    evidence,  \* the caller: the state of the venue it has evidence of, if any
    late,      \* the caller: whether that evidence is from after the last expiry
    sent       \* the caller: what it has sent

vars == <<venue, views, acts, phase, evidence, late, sent>>

Cancellation == "CANCEL" \* or MASS_CANCEL, in its place

Init ==
    /\ VenueInit
    /\ acts = [k \in Sides \cup {Cancellation} |-> "none"] /\ phase = <<"FLAT">>
    /\ evidence = {} /\ late = FALSE /\ sent = {}

Prepared == {k \in DOMAIN acts : acts[k] # "none"}

Gathers ==
    /\ evidence' = {orders}
    /\ late' = (\A k \in Prepared \cap Sides : expired[k] \/ orders[k].at = "lost")
    /\ UNCHANGED <<venue, views, acts, phase, sent>>

Known(k) == acts[k] # "none"
Is(k, s, p) == acts' = [acts EXCEPT ![k] = s] /\ phase' = p
Same == UNCHANGED <<venue, views, evidence, sent>>

PrepareOrder ==
    /\ evidence # {} /\ phase = <<"FLAT">> /\ ~Known("ENTRY")
    /\ Is("ENTRY", "PREPARED", <<"ENTRY", "PREPARED">>) /\ late' = FALSE /\ Same

\* The gates of an entry and of a close look at the venue in the evidence.
Fit(k, v) ==
    CASE k = "ENTRY" -> Position(v) = 0 /\ ~IsOpen(v)
      [] k = "CLOSE" -> Position(v) = Lots /\ ~IsOpen(v)
      [] OTHER -> Row(v, "ENTRY") \notin {"FILLED", "CANCELLED"}

ClaimForDispatch(k) ==
    /\ acts[k] = "PREPARED" /\ phase = <<k, "PREPARED">>
    /\ \E v \in evidence : Fit(k, v)
    /\ Is(k, "CLAIMED", <<k, "AMBIGUOUS">>) /\ Same /\ UNCHANGED late

PrepareCancellation ==
    /\ evidence # {} /\ acts["ENTRY"] = "CLAIMED" /\ phase = <<"ENTRY", "AMBIGUOUS">> /\ ~Known(Cancellation)
    /\ Is(Cancellation, "PREPARED", <<Cancellation, "PREPARED">>) /\ Same /\ UNCHANGED late

PrepareClose ==
    /\ acts["ENTRY"] = "ENTRY_RECONCILED" /\ phase = <<"EXPOSED">> /\ ~Known("CLOSE")
    /\ \A k \in DOMAIN acts : acts[k] \notin {"PREPARED", "CLAIMED"}
    /\ \E v \in evidence : Position(v) = Lots /\ ~IsOpen(v)
    /\ Is("CLOSE", "PREPARED", <<"CLOSE", "PREPARED">>) /\ late' = FALSE /\ Same

Dispatches(k) ==
    /\ acts[k] \notin {"none", "PREPARED"} /\ k \notin sent /\ sent' = sent \cup {k}
    /\ IF k = Cancellation THEN CancelLeaves ELSE Leaves(k)
    /\ UNCHANGED <<acts, phase, evidence, late>>

-----------------------------------------------------------------------------
(* reconcile.                                                              *)

Halted == phase[1] = "HALTED"
Route(k) ==
    \/ acts[k] = "CLAIMED" /\ phase = <<k, "AMBIGUOUS">>
    \/ k = Cancellation /\ acts[k] = "PREPARED" /\ phase = <<k, "PREPARED">>
    \/ k = Cancellation /\ acts[k] \in {"CANCELLED_NO_FILL", "SUPERSEDED"} /\ phase = <<"PENDING_EXPIRY">>
    \/ k = "CLOSE" /\ acts[k] = "CLOSE_RECONCILED" /\ phase = <<"EXPOSED">>

\* A filled entry leaves a position to be closed; a part of it halts.
ReconcileEntry(v) ==
    /\ Route("ENTRY") /\ ~IsOpen(v) /\ Row(v, "ENTRY") \in {"FILLED", "PARTIAL"}
    /\ Is("ENTRY", "ENTRY_RECONCILED", IF Row(v, "ENTRY") = "FILLED" THEN <<"EXPOSED">> ELSE <<"HALTED">>)

ReconcileCancel(v) ==
    /\ Route(Cancellation) /\ acts[Cancellation] \in {"PREPARED", "CLAIMED"}
    /\ LET superseded == acts[Cancellation] = "PREPARED"
           Both(a, e, p) ==
              /\ acts' = [acts EXCEPT ![Cancellation] = IF superseded THEN "SUPERSEDED" ELSE a, !["ENTRY"] = e]
              /\ phase' = p
       IN  \/ /\ Row(v, "ENTRY") = "CANCELLED" /\ Position(v) = 0 /\ ~IsOpen(v)
              /\ Both("CANCELLED_NO_FILL", "ENTRY_CANCELLED", <<"PENDING_EXPIRY">>)
           \/ /\ Row(v, "ENTRY") = "FILLED" /\ Position(v) = Lots
              /\ Both("NO_CANCEL_EFFECT", "ENTRY_RECONCILED", <<"EXPOSED">>)

\* Mutant of FinishCancel: an entry that the evidence does not show is over.
FinishUnseen(v) ==
    /\ acts[Cancellation] \in {"PREPARED", "CLAIMED"} /\ Position(v) = 0 /\ ~IsOpen(v)
    /\ phase' = <<"COMPLETE">> /\ UNCHANGED acts

\* Complete when the evidence is from after the last expiry.
FinishCancel(v) ==
    /\ Route(Cancellation) /\ acts[Cancellation] \in {"CANCELLED_NO_FILL", "SUPERSEDED"}
    /\ late /\ Row(v, "ENTRY") = "CANCELLED" /\ Position(v) = 0 /\ ~IsOpen(v)
    /\ phase' = <<"COMPLETE">> /\ UNCHANGED acts

ReconcileClose(v) ==
    /\ Route("CLOSE") /\ ~IsOpen(v)
    /\ \/ Row(v, "CLOSE") = "FILLED" /\ Row(v, "ENTRY") = "FILLED" /\ Position(v) = 0
          /\ Is("CLOSE", "CLOSE_RECONCILED", <<"EXPOSED">>)
       \/ acts["CLOSE"] = "CLAIMED" /\ Row(v, "CLOSE") = "CANCELLED"
          /\ Is("CLOSE", "CLOSE_REJECTED", <<"HALTED">>)

FinishClose(v) ==
    /\ acts["CLOSE"] = "CLOSE_RECONCILED" /\ phase = <<"EXPOSED">> /\ late
    /\ Row(v, "CLOSE") = "FILLED" /\ Row(v, "ENTRY") = "FILLED" /\ Position(v) = 0 /\ ~IsOpen(v)
    /\ \A k \in DOMAIN acts : acts[k] \notin {"PREPARED", "CLAIMED"}
    /\ phase' = <<"COMPLETE">> /\ UNCHANGED acts

\* A contradiction in what was found.
Contradicts(k) ==
    /\ Known(k) /\ Route(k) /\ ~Halted /\ phase' = <<"HALTED">> /\ UNCHANGED acts

Reconcile ==
    /\ \E v \in evidence : \/ ReconcileEntry(v) \/ ReconcileCancel(v) \/ FinishCancel(v)
                           \/ ReconcileClose(v) \/ FinishClose(v)
                           \/ \E k \in DOMAIN acts : Contradicts(k)
    /\ Same /\ UNCHANGED late

-----------------------------------------------------------------------------
\* The venue moves on; the evidence stays what it was.
VenueMoves ==
    /\ \/ \E k \in Sides : Rests(k) \/ Executes(k) \/ Expires(k)
       \/ CancelActs
    /\ UNCHANGED <<acts, phase, evidence, late, sent>>

Next ==
    \/ Gathers \/ PrepareOrder \/ PrepareCancellation \/ PrepareClose \/ Reconcile
    \/ \E k \in DOMAIN acts : ClaimForDispatch(k) \/ Dispatches(k)
    \/ VenueMoves

Spec == Init /\ [][Next]_vars

-----------------------------------------------------------------------------
(* Properties.                                                             *)

\* A complete lifecycle is settled for good, in whatever order it was driven.
CompleteIsSettled == phase = <<"COMPLETE">> => Settled

\* EXPOSED names a position that is there, until a close is claimed.
ExposedIsHeld == phase = <<"EXPOSED">> /\ acts["CLOSE"] = "none" => Position(orders) = Lots
=============================================================================
