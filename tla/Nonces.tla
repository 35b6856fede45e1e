------------------------------- MODULE Nonces -------------------------------
(***************************************************************************)
(* The nonce domain of one account and API key in the SDK adapter          *)
(* (hood_handoff/sdk.py): reservation, signing, consumption and release of *)
(* nonces by concurrent mutations, which the engine may cancel at every    *)
(* await.  The venue (external) gives the same next nonce until it has     *)
(* executed a transaction under it.                                        *)
(***************************************************************************)
EXTENDS NonceDomain, FiniteSets

\* "order": prepare_order without a reservation, or after one; "cancel":
\* cancel_order, which has no prepared object; "leverage": a setting change.
Kinds == {"order", "cancel", "leverage"}

VARIABLES
    kind,      \* what each task does
    lock,      \* the holder of the account/key preparation lock
    pc,        \* where each task is
    nonce,     \* the nonce each task works with
    token,     \* does the task hold a ReservedNonce in state RESERVED?
    reserved,  \* _nonce_reservations: the task that holds each nonce
    blocked,   \* _blocked_nonces
    sent,      \* tasks whose transaction was handed to the transport
    venueNext  \* the nonce the venue expects

vars == <<kind, lock, pc, nonce, token, reserved, blocked, sent, venueNext>>

Init ==
    /\ kind \in [Tasks -> Kinds]
    /\ lock = NoTask
    /\ pc = [t \in Tasks |-> "idle"]
    /\ nonce = [t \in Tasks |-> 0]
    /\ token = [t \in Tasks |-> FALSE]
    /\ reserved = [n \in Nonce |-> NoTask]
    /\ blocked = {}
    /\ sent = {}
    /\ venueNext = 0

Goto(t, where) == pc' = [pc EXCEPT ![t] = where]

Locked(t) == lock = NoTask /\ lock' = t
Unlocked(t) == lock = t /\ lock' = NoTask

\* _assert_nonce_available
Available(n) == reserved[n] = NoTask /\ n \notin blocked

\* _owns_nonce
Owns(t) == token[t] /\ reserved[nonce[t]] = t

\* Mutant of Blocked: the reservation ends without a trace of its use.
BlockedForgotten(n) ==
    /\ reserved' = [reserved EXCEPT ![n] = NoTask]
    /\ blocked' = blocked

\* _block_nonce
Blocked(n) ==
    /\ reserved' = [reserved EXCEPT ![n] = NoTask]
    /\ blocked' = blocked \cup {n}

\* reserve_order_nonce takes the lock and asks the venue for the next nonce.
StartReserve(t) ==
    /\ pc[t] = "idle" /\ kind[t] = "order"
    /\ Locked(t)
    /\ Goto(t, "reserving")
    /\ UNCHANGED <<kind, nonce, token, reserved, blocked, sent, venueNext>>

\* The answer is reserved, or refused when the client holds or used it.
Reserve(t) ==
    /\ pc[t] = "reserving"
    /\ Unlocked(t)
    /\ nonce' = [nonce EXCEPT ![t] = venueNext]
    /\ IF Available(venueNext)
       THEN /\ token' = [token EXCEPT ![t] = TRUE]
            /\ reserved' = [reserved EXCEPT ![venueNext] = t]
            /\ Goto(t, "reserved")
       ELSE /\ Goto(t, "failed")
            /\ UNCHANGED <<token, reserved>>
    /\ UNCHANGED <<kind, blocked, sent, venueNext>>

\* prepare_order, cancel_order and update_leverage_fraction take the lock.  A
\* reservation that is not owned any more refuses.
StartSign(t) ==
    /\ pc[t] \in {"idle", "reserved"}
    /\ Locked(t)
    /\ Goto(t, "signing")
    /\ pc[t] = "reserved" => Owns(t)
    /\ \/ token[t] /\ UNCHANGED nonce
       \/ ~token[t] /\ nonce' = [nonce EXCEPT ![t] = venueNext]
    /\ UNCHANGED <<kind, token, reserved, blocked, sent, venueNext>>

\* An order's signature is registered under its nonce, whose reservation it
\* takes over; without one the nonce must be available after the signing.
SignOrder(t) ==
    /\ pc[t] = "signing" /\ kind[t] = "order"
    /\ Unlocked(t)
    /\ IF token[t] \/ Available(nonce[t])
       THEN /\ reserved' = [reserved EXCEPT ![nonce[t]] = t]
            /\ token' = [token EXCEPT ![t] = FALSE]
            /\ Goto(t, "ready")
       ELSE /\ Goto(t, "failed")
            /\ UNCHANGED <<reserved, token>>
    /\ UNCHANGED <<kind, nonce, blocked, sent, venueNext>>

\* A cancel and a setting check the nonce after they read it (the lock keeps it
\* as it is until they have signed), block it and send: no await separates the
\* block from the entry of the transport.
SignAndSend(t) ==
    /\ pc[t] = "signing" /\ kind[t] # "order"
    /\ Unlocked(t)
    /\ IF Available(nonce[t])
       THEN /\ Blocked(nonce[t])
            /\ sent' = sent \cup {t}
            /\ Goto(t, "sent")
       ELSE /\ Goto(t, "failed")
            /\ UNCHANGED <<reserved, blocked, sent>>
    /\ UNCHANGED <<kind, nonce, token, venueNext>>

\* submit_prepared_order: the preparation is consumed and its nonce blocked
\* before the transport is entered; a passed barrier invalidates it instead.
Submit(t) ==
    /\ pc[t] = "ready"
    /\ lock = NoTask
    /\ Blocked(nonce[t])
    /\ sent' = sent \cup {t}
    /\ Goto(t, "sent")
    /\ UNCHANGED <<kind, lock, nonce, token, venueNext>>

\* Mutant of Invalidate: the object is invalidated, its nonce stays reserved.
InvalidateKeepingNonce(t) ==
    /\ pc[t] \in {"ready", "reserved", "abandoned"}
    /\ lock = NoTask
    /\ Goto(t, "failed")
    /\ token' = [token EXCEPT ![t] = FALSE]
    /\ UNCHANGED <<kind, lock, nonce, reserved, blocked, sent, venueNext>>

\* invalidate_prepared_order and invalidate_reserved_nonce, called for
\* everything the attempt prepared and did not send (_release_unsent_orders).
Invalidate(t) ==
    /\ pc[t] \in {"ready", "reserved", "abandoned"}
    /\ lock = NoTask
    /\ pc[t] # "ready" => Owns(t)
    /\ reserved' = [reserved EXCEPT ![nonce[t]] = NoTask]
    /\ token' = [token EXCEPT ![t] = FALSE]
    /\ Goto(t, "failed")
    /\ UNCHANGED <<kind, lock, nonce, blocked, sent, venueNext>>

\* Mutant of Interrupted: a cancelled signing forgets its reservation.
InterruptedForgetting(t) ==
    /\ pc[t] \in {"reserving", "signing"}
    /\ Unlocked(t)
    /\ Goto(t, "failed")
    /\ token' = [token EXCEPT ![t] = FALSE]
    /\ UNCHANGED <<kind, nonce, reserved, blocked, sent, venueNext>>

\* The nonce read or the signing fails, times out or is cancelled: the lock is
\* released; a reservation stays with the task, only to be invalidated.
Interrupted(t) ==
    /\ pc[t] \in {"reserving", "signing"}
    /\ Unlocked(t)
    /\ Goto(t, IF token[t] THEN "abandoned" ELSE "failed")
    /\ UNCHANGED <<kind, nonce, token, reserved, blocked, sent, venueNext>>

\* The venue (external) executes a sent transaction under the nonce it expects.
VenueExecutes ==
    /\ venueNext < MaxNonce
    /\ \E t \in sent : nonce[t] = venueNext
    /\ venueNext' = venueNext + 1
    /\ UNCHANGED <<kind, lock, pc, nonce, token, reserved, blocked, sent>>

Task(t) ==
    \/ StartReserve(t) \/ Reserve(t) \/ StartSign(t) \/ SignOrder(t)
    \/ SignAndSend(t) \/ Submit(t) \/ Invalidate(t) \/ Interrupted(t)

Next == VenueExecutes \/ \E t \in Tasks : Task(t)

Spec == Init /\ [][Next]_vars

\* The engine's finally clauses release whatever an attempt prepared and did
\* not send, and every await of a task is bounded.
Fairness == \A t \in Tasks : SF_vars(Submit(t) \/ Invalidate(t))
                           /\ WF_vars(Reserve(t) \/ SignOrder(t) \/ SignAndSend(t))

-----------------------------------------------------------------------------
(* Properties.                                                             *)

TypeOK ==
    /\ kind \in [Tasks -> Kinds]
    /\ lock \in Tasks \cup {NoTask}
    /\ pc \in [Tasks -> {"idle", "reserving", "reserved", "signing", "ready",
                         "abandoned", "sent", "failed"}]
    /\ nonce \in [Tasks -> Nonce]
    /\ token \in [Tasks -> BOOLEAN]
    /\ reserved \in [Nonce -> Tasks \cup {NoTask}]
    /\ blocked \subseteq Nonce
    /\ sent \subseteq Tasks
    /\ venueNext \in Nonce

\* One client never hands two transactions with one nonce to the transport,
\* whichever mutations are prepared concurrently, cancelled or abandoned.
SentNoncesDiffer ==
    \A t, u \in sent : nonce[t] = nonce[u] => t = u

\* A reservation is always one that its task can still use or release: nothing
\* cancelled or failed leaves a nonce reserved for nobody, and a used nonce is
\* never reserved again.
ReservationsAreLive ==
    \A n \in Nonce : reserved[n] # NoTask =>
        /\ nonce[reserved[n]] = n
        /\ n \notin blocked
        /\ \/ token[reserved[n]] /\ pc[reserved[n]] \in {"reserved", "signing", "abandoned"}
           \/ pc[reserved[n]] = "ready"

\* Every reserved nonce is in the end sent or given back, so a retry or a
\* recovery on the account is not refused for good (_release_unsent_orders).
ReservationsEnd ==
    \A n \in Nonce : reserved[n] # NoTask ~> reserved[n] = NoTask
=============================================================================
