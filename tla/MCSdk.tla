-------------------------------- MODULE MCSdk -------------------------------
(***************************************************************************)
(* Model checking of the SDK adapter's components, side by side: three     *)
(* calls of the sender, two of them with one transaction; three mutations  *)
(* of one account, of every kind; an evidence file whose queue is shorter  *)
(* than what it is offered.  They share no state: which tells the one that *)
(* runs.                                                                   *)
(***************************************************************************)
EXTENDS WsSender, NonceDomain, FiniteSets, TLC

CONSTANTS c1, c2, c3, h1, h2

CONSTANTS MaxRecords, QueueSize, BatchSize, MaxOffers, MaxCancels

ASSUME BatchAssumption == BatchSize \in Nat \ {0}

MCHashOf == c1 :> h1 @@ c2 :> h1 @@ c3 :> h2

VARIABLES which, kind, holder, at, nonce, token, reserved, blocked, sent, venueNext

domain == <<kind, holder, at, nonce, token, reserved, blocked, sent, venueNext>>

VARIABLES
    queue, accepted, dropped, failed, shut, fd, writer, ended, session, reason,
    cancels, interrupted, thread, job, disk, seal, offered

evidenceVars ==
    <<queue, accepted, dropped, failed, shut, fd, writer, ended, session, reason,
      cancels, interrupted, thread, job, disk, seal, offered>>

E == INSTANCE StreamEvidence WITH closed <- shut

N == INSTANCE Nonces WITH lock <- holder, pc <- at

SdkInit ==
    /\ Init /\ N!Init /\ E!Init
    /\ \/ which = "sender" /\ kind = [t \in Tasks |-> "order"]
       \/ which = "nonces"
       \/ which = "evidence" /\ kind = [t \in Tasks |-> "order"]

SdkNext ==
    /\ \/ which = "sender" /\ Next /\ UNCHANGED <<domain, evidenceVars>>
       \/ which = "nonces" /\ N!Next /\ UNCHANGED <<vars, evidenceVars>>
       \/ which = "evidence" /\ E!Next /\ UNCHANGED <<vars, domain>>
    /\ UNCHANGED which

SdkSpec ==
    /\ SdkInit /\ [][SdkNext]_<<vars, which, domain, evidenceVars>>
    /\ N!Fairness /\ E!Fairness

\* The evidence file says what it holds and is never written to once closed.
EvidenceIsTrue == E!EvidenceIsTrue

\* Two transactions of one client are never sent with one nonce, and a
\* reservation is always one that its task can still use or release.
NoncesAreTrue == N!SentNoncesDiffer /\ N!ReservationsAreLive

\* What was begun ends: every reserved nonce is in the end sent or given
\* back, and a session of the evidence file ends.
WhatBeginsEnds == N!ReservationsEnd /\ (which = "evidence" => E!SessionEnds)
=============================================================================
