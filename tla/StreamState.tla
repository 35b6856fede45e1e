----------------------------- MODULE StreamState -----------------------------
(***************************************************************************)
(* The private read stream of one client: the frames of one connection,    *)
(* the projection that judges their continuity (`observer`), the caches    *)
(* that answer reads (`reads`), the hints that wake a waiter, and the      *)
(* local admission of a source order between two looks at them.  Frames    *)
(* come as the venue or the wire make them: repeated, regressing, with     *)
(* gaps, malformed.  Time is one bit per reading: fresh, or older than the *)
(* age a reader allows.                                                    *)
(***************************************************************************)
EXTENDS Integers, FiniteSets

CONSTANTS
    Keys,       \* (account, client_order_index), of one account
    Nonces,     \* of the book
    MaxFrames,  \* ObserverLimits.max_frames
    None

\* What an order frame says of one order, and whether it ends it.
States == [filled : 0..1, end : BOOLEAN]

VARIABLES
    stream,      \* "none", "up" or "down": one stream in a client's life
    frames,
    stopped,     \* observer.stopped_reason
    malformed, conflicts,   \* the observer's counters, as "any"
    bookNonce, bookSnapshot,
    lastOrders,  \* the observer's: what was last accepted of each order
    snapshotSeen,   \* observer.private_snapshot_accounts
    bookFresh,   \* book_received_at: None when unset, else still fresh?
    exact, version, consumed,   \* exact_orders, order_versions, consumed hints
    depth, depthFresh,   \* reads: which book the depth is, and book_at
    orders,      \* reads: the cached state of each order and its age
    invalid,     \* reads.invalid_orders
    anchor       \* what begin_ws_admission returned

\* What really happened, for the properties.
VARIABLES
    shown,     \* every state a read could have returned of each order
    first,     \* the states first received since the last `Age`
    spent,    \* the events that have already woken a waiter
    event,     \* the number of accepted events of each order
    disturbed, \* an event of another order, a bad frame or an end since `anchor`
    granted    \* a view was granted although `disturbed`

observer == <<frames, stopped, malformed, conflicts, bookNonce, bookSnapshot, lastOrders, snapshotSeen>>
hints == <<bookFresh, exact, version, consumed>>
reads == <<depth, depthFresh, orders, invalid>>
seen == <<shown, first, spent, event, disturbed, granted>>
vars == <<stream, observer, hints, reads, anchor, seen>>

Empty(x) == [k \in Keys |-> x]

Init ==
    /\ stream = "none" /\ frames = 0 /\ stopped = FALSE
    /\ malformed = FALSE /\ conflicts = FALSE
    /\ bookNonce = None /\ bookSnapshot = FALSE
    /\ lastOrders = Empty(None) /\ snapshotSeen = FALSE
    /\ bookFresh = None /\ exact = Empty(None)
    /\ version = Empty(0) /\ consumed = Empty(0)
    /\ depth = None /\ depthFresh = FALSE
    /\ orders = Empty(None) /\ invalid = {}
    /\ anchor = None
    /\ shown = Empty({}) /\ first = Empty({}) /\ spent = Empty({})
    /\ event = Empty(0) /\ disturbed = FALSE /\ granted = FALSE

-----------------------------------------------------------------------------
(***************************************************************************)
(* What a reader is told.                                                  *)
(***************************************************************************)

\* StreamReads.book
Book == IF depth # None /\ depthFresh THEN depth ELSE None

\* StreamReads.order
Order(k) == IF orders[k] # None /\ orders[k].fresh THEN orders[k].state ELSE None

\* observed_order: of a connected stream only.
Observed(k) == IF stream = "up" THEN Order(k) ELSE None

\* A cached order that has not ended.
Active(k) == orders[k] # None /\ ~orders[k].state.end

SubscriptionReady ==
    /\ stream = "up" /\ ~stopped
    /\ bookSnapshot /\ bookFresh = TRUE
    /\ snapshotSeen

\* exact_terminal_hint
TerminalHint(k) ==
    /\ stream = "up"
    /\ exact[k] # None /\ exact[k].state.end /\ exact[k].fresh

\* What a step that changes the caches adds to what was told.
Told(up, ords) ==
    shown' = [k \in Keys |-> shown[k] \cup
                 (IF up /\ ords[k] # None /\ ords[k].fresh THEN {ords[k].state} ELSE {})]

-----------------------------------------------------------------------------
(***************************************************************************)
(* The connection.                                                         *)
(***************************************************************************)

\* ReadStreamSession.run, connected: the client starts one stream only.
Connect ==
    /\ stream = "none"
    /\ stream' = "up"
    /\ UNCHANGED <<observer, hints, reads, anchor, seen>>

\* Mutant: the order caches outlive the connection, and so do the hints.
ForgetBook ==
    /\ stream' = "down"
    /\ depth' = None /\ depthFresh' = FALSE
    /\ bookNonce' = None /\ bookSnapshot' = FALSE
    /\ bookFresh' = None /\ disturbed' = TRUE
    /\ UNCHANGED <<orders, invalid, lastOrders, snapshotSeen, exact, version, consumed>>
    /\ UNCHANGED <<shown, first, spent, event, granted, anchor>>

\* disconnected: every channel and every hint is forgotten.
Forget ==
    /\ stream' = "down"
    /\ depth' = None /\ depthFresh' = FALSE /\ orders' = Empty(None) /\ invalid' = {}
    /\ bookNonce' = None /\ bookSnapshot' = FALSE
    /\ lastOrders' = Empty(None) /\ snapshotSeen' = FALSE
    /\ bookFresh' = None /\ exact' = Empty(None)
    /\ version' = Empty(0) /\ consumed' = Empty(0)
    /\ disturbed' = TRUE
    /\ UNCHANGED <<shown, first, spent, event, granted, anchor>>

\* The socket fails, the stop is set or the lifetime ends.
Disconnect ==
    /\ stream = "up"
    /\ Forget
    /\ UNCHANGED <<frames, stopped, malformed, conflicts>>

\* feed: a frame that the observer does not survive (a server error, a limit).
StoppingFrame ==
    /\ stream = "up" /\ frames < MaxFrames
    /\ frames' = frames + 1 /\ stopped' = TRUE
    /\ Forget
    /\ UNCHANGED <<malformed, conflicts>>

\* Everything received so far becomes older than a reader allows.
Age ==
    /\ stream = "up"
    /\ bookFresh' = (IF bookFresh = None THEN None ELSE FALSE)
    /\ exact' = [k \in Keys |-> IF exact[k] = None THEN None ELSE [exact[k] EXCEPT !.fresh = FALSE]]
    /\ orders' = [k \in Keys |-> IF orders[k] = None THEN None ELSE [orders[k] EXCEPT !.fresh = FALSE]]
    /\ depthFresh' = FALSE
    /\ first' = Empty({})
    /\ UNCHANGED <<stream, observer, version, consumed, depth, invalid, anchor>>
    /\ UNCHANGED <<shown, spent, event, disturbed, granted>>

-----------------------------------------------------------------------------
(***************************************************************************)
(* feed: the projection first, then the caches, then the hints.            *)
(***************************************************************************)

Frame == stream = "up" /\ ~stopped /\ frames < MaxFrames /\ frames' = frames + 1

\* Not JSON, or not an object: the caches are cleared, the sticky set too.
GarbledFrame ==
    /\ Frame
    /\ malformed' = TRUE
    /\ depth' = None /\ depthFresh' = FALSE /\ orders' = Empty(None) /\ invalid' = {}
    /\ disturbed' = TRUE
    /\ UNCHANGED <<stream, stopped, conflicts, bookNonce, bookSnapshot, lastOrders, snapshotSeen>>
    /\ UNCHANGED <<hints, anchor, shown, first, spent, event, granted>>

\* Mutant: an update repairs a depth that was dropped.
ReadBookRepaired(label, n, good) ==
    IF label \notin {"snapshot", "update"} \/ ~good
    THEN depth' = None /\ depthFresh' = FALSE
    ELSE /\ depth' = (IF label = "update" /\ depth = None THEN 0 ELSE n)
         /\ depthFresh' = TRUE

\* StreamReads.feed of the book: the depth follows what the projection said.
\* `good` depth parses, is bounded and does not cross.
ReadBook(label, n, good) ==
    IF label \notin {"snapshot", "update"} \/ ~good
    THEN depth' = None /\ depthFresh' = FALSE
    ELSE IF label = "update" /\ depth = None
    THEN UNCHANGED <<depth, depthFresh>>
    ELSE depth' = n /\ depthFresh' = TRUE

\* StreamProjection._book: a snapshot anchors, an update continues, a gap
\* or a frame without nonce ends the anchor.
BookFrame(kind, begin, n, good) ==
    LET label == CASE kind = "snapshot" -> "snapshot"
                   [] kind = "bare" -> "none"
                   [] ~bookSnapshot -> "unanchored"
                   [] begin # bookNonce \/ n <= bookNonce -> "gap"
                   [] OTHER -> "update"
        kept == label \in {"snapshot", "update"}
    IN  /\ Frame
        /\ malformed' = (malformed \/ label = "none")
        /\ bookSnapshot' = kept
        /\ bookNonce' = (IF kept THEN n ELSE IF label = "gap" THEN None ELSE bookNonce)
        /\ bookFresh' = (IF kept THEN TRUE ELSE IF label = "none" THEN bookFresh ELSE None)
        /\ ReadBook(label, n, good)
        /\ disturbed' = (disturbed \/ label = "none")
        /\ UNCHANGED <<stream, stopped, conflicts, lastOrders, snapshotSeen>>
        /\ UNCHANGED <<exact, version, consumed, orders, invalid, anchor>>
        /\ UNCHANGED <<shown, first, spent, event, granted>>

-----------------------------------------------------------------------------
Regresses(prior, s) == (prior.end /\ s # prior) \/ s.filled < prior.filled

\* StreamProjection._orders: how one well-formed item compares with the last.
Judged(k, s) ==
    CASE lastOrders[k] = s -> "duplicate"
      [] lastOrders[k] # None /\ Regresses(lastOrders[k], s) -> "conflict"
      [] OTHER -> "order"

\* Mutant: a repetition renews the age of what is cached.
CachedRenewing(k, s, judged, whole, prior) ==
    CASE k \in invalid -> None
      [] judged = "duplicate" /\ whole /\ prior # None /\ prior.state = s
            -> [state |-> s, fresh |-> TRUE]
      [] judged = "order" /\ whole /\ (prior = None \/ ~Regresses(prior.state, s))
            -> [state |-> s, fresh |-> TRUE]
      [] OTHER -> None

\* StreamReads.feed of one item, after a subscription frame dropped `prior`:
\* the cached entry is dropped before the new one is judged, a repetition
\* keeps its age, and an order once doubted is never read again.
Cached(k, s, judged, whole, prior) ==
    CASE k \in invalid -> None
      [] judged = "duplicate" /\ whole /\ prior # None /\ prior.state = s -> prior
      [] judged = "order" /\ whole /\ (prior = None \/ ~Regresses(prior.state, s))
            -> [state |-> s, fresh |-> TRUE]
      [] OTHER -> None

\* Mutant: a conflict leaves the hint of the order where it was.
HintKeeping(k, s, judged) ==
    IF judged = "order"
    THEN /\ exact' = [exact EXCEPT ![k] = [state |-> s, fresh |-> TRUE, event |-> event'[k]]]
         /\ version' = [version EXCEPT ![k] = @ + 1]
         /\ UNCHANGED consumed
    ELSE UNCHANGED <<exact, version, consumed>>

\* The exact order hints of feed.
Hint(k, s, judged) ==
    CASE judged = "order" ->
            /\ exact' = [exact EXCEPT ![k] = [state |-> s, fresh |-> TRUE, event |-> event'[k]]]
            /\ version' = [version EXCEPT ![k] = @ + 1]
            /\ UNCHANGED consumed
      [] judged = "conflict" ->
            /\ exact' = [exact EXCEPT ![k] = None]
            /\ version' = [version EXCEPT ![k] = 0]
            /\ consumed' = [consumed EXCEPT ![k] = 0]
      [] OTHER -> UNCHANGED <<exact, version, consumed>>

\* A frame of the private orders with one order: `whole` when it carries
\* every field a read needs, None when not even the projection accepts it.
OrderFrame(kind, k, s, whole) ==
    LET judged == IF s = None THEN "junk" ELSE Judged(k, s)
        sub == kind = "subscribed"
        prior == IF sub THEN None ELSE orders[k]
        entry == IF s = None THEN None ELSE Cached(k, s, judged, whole, prior)
        good == judged \in {"order", "duplicate"}
    IN  /\ Frame
        /\ malformed' = (malformed \/ judged = "junk")
        /\ conflicts' = (conflicts \/ judged = "conflict")
        /\ lastOrders' = (IF judged = "order" THEN [lastOrders EXCEPT ![k] = s] ELSE lastOrders)
        /\ snapshotSeen' = (snapshotSeen \/ (sub /\ good))
        /\ orders' = [j \in Keys |-> IF j = k THEN entry ELSE IF sub THEN None ELSE orders[j]]
        /\ invalid' = (IF entry = None THEN invalid \cup {k} ELSE invalid)
        /\ event' = (IF judged = "order" THEN [event EXCEPT ![k] = @ + 1] ELSE event)
        /\ first' = (IF judged = "order" THEN [first EXCEPT ![k] = @ \cup {s}] ELSE first)
        /\ Hint(k, s, judged)
        /\ Told(TRUE, orders')
        /\ disturbed' = (disturbed \/ ~good \/ (judged = "order" /\ anchor # None /\ anchor.key # k))
        /\ UNCHANGED <<stream, stopped, bookNonce, bookSnapshot, bookFresh>>
        /\ spent' = (IF judged = "conflict" /\ exact[k] # None
                     THEN [spent EXCEPT ![k] = @ \cup {exact[k].event}] ELSE spent)
        /\ UNCHANGED <<depth, depthFresh, anchor, granted>>

\* A frame of the private orders that names none of this market.
NoOrderFrame(kind) ==
    /\ Frame
    /\ snapshotSeen' = (snapshotSeen \/ kind = "subscribed")
    /\ orders' = (IF kind = "subscribed" THEN Empty(None) ELSE orders)
    /\ UNCHANGED <<stream, stopped, malformed, conflicts, bookNonce, bookSnapshot, lastOrders>>
    /\ UNCHANGED <<hints, depth, depthFresh, invalid, anchor, seen>>

-----------------------------------------------------------------------------
(***************************************************************************)
(* The readers.                                                            *)
(***************************************************************************)

\* Mutant: a waiter does not consume the hint that woke it.
WaitTerminalHintAgain(k) ==
    /\ version[k] > consumed[k] /\ TerminalHint(k)
    /\ UNCHANGED consumed
    /\ spent' = [spent EXCEPT ![k] = @ \cup {exact[k].event}]
    /\ UNCHANGED <<stream, observer, bookFresh, exact, version, reads, anchor>>
    /\ UNCHANGED <<shown, first, event, disturbed, granted>>

\* wait_terminal_hint: a version that woke no waiter, and a recent end.
\* Whatever wakes a waiter, it looks again; so a wait is this step.
WaitTerminalHint(k) ==
    /\ version[k] > consumed[k] /\ TerminalHint(k)
    /\ consumed' = [consumed EXCEPT ![k] = version[k]]
    /\ spent' = [spent EXCEPT ![k] = @ \cup {exact[k].event}]
    /\ UNCHANGED <<stream, observer, bookFresh, exact, version, reads, anchor>>
    /\ UNCHANGED <<shown, first, event, disturbed, granted>>

\* begin_ws_admission, before the source order `k` is exposed.
BeginAdmission(k) ==
    /\ anchor = None
    /\ SubscriptionReady
    /\ ~malformed /\ ~conflicts /\ invalid = {}
    /\ Book # None
    /\ \A j \in Keys : ~Active(j)
    /\ anchor' = [key |-> k, version |-> version] /\ disturbed' = FALSE
    /\ UNCHANGED <<stream, observer, hints, reads, shown, first, spent, event, granted>>

\* Mutant: the view looks at the orders that are active now, not at what
\* the others went through.
NoOtherChanged(a) ==
    \A j \in Keys \ {a.key} : ~Active(j)

\* ws_admission_view: no other order moved and none is active.
OthersUntouched(a) ==
    \A j \in Keys \ {a.key} :
        /\ version[j] = a.version[j]
        /\ ~Active(j)

\* ws_admission_view: nothing invalid came since the anchor.
NothingInvalid == ~malformed /\ ~conflicts /\ invalid = {} /\ Book # None

\* ws_admission_view: the answer lets the receiver's order go.
GrantView ==
    /\ anchor # None
    /\ SubscriptionReady /\ NothingInvalid /\ OthersUntouched(anchor)
    /\ granted' = (granted \/ disturbed)
    /\ UNCHANGED <<stream, observer, hints, reads, anchor, shown, first, spent, event, disturbed>>

-----------------------------------------------------------------------------
Next ==
    \/ Connect \/ Disconnect \/ StoppingFrame \/ Age \/ GarbledFrame
    \/ \E n \in Nonces, b \in Nonces, good \in BOOLEAN, kind \in {"snapshot", "update", "bare"} :
          BookFrame(kind, b, n, good)
    \/ \E kind \in {"subscribed", "update"}, k \in Keys, s \in States \cup {None}, whole \in BOOLEAN :
          OrderFrame(kind, k, s, whole)
    \/ \E kind \in {"subscribed", "update"} : NoOrderFrame(kind)
    \/ \E k \in Keys : WaitTerminalHint(k) \/ BeginAdmission(k)
    \/ GrantView

Spec == Init /\ [][Next]_vars

-----------------------------------------------------------------------------
\* The book that a reader is given is the one the last nonce names: every
\* update since the snapshot of this connection is in it, in order.
BookIsTrue == Book # None => bookSnapshot /\ Book = bookNonce

\* What is read of an order was first received by this connection no longer
\* ago than the reader allows, and goes back on nothing that was read before.
ReadsAreTrue ==
    \A k \in Keys : Order(k) # None =>
        /\ stream = "up"
        /\ Order(k) \in first[k]
        /\ \A s \in shown[k] : ~Regresses(s, Order(k))

\* An event wakes one waiter at most, and none once it is contradicted.
HintsAreTrue ==
    \A k \in Keys : exact[k] # None /\ exact[k].fresh /\ version[k] > consumed[k] =>
        /\ stream = "up" /\ exact[k].state = lastOrders[k]
        /\ exact[k].event \notin spent[k]

\* A view is granted only over a stretch of one connection in which nothing
\* came but the source order's own events and the book.
AdmissionIsClean == ~granted

StreamIsTrue == BookIsTrue /\ ReadsAreTrue /\ HintsAreTrue /\ AdmissionIsClean
=============================================================================
