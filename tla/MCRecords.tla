------------------------------ MODULE MCRecords ------------------------------
(***************************************************************************)
(* Model checking of what is written down and read back, side by side.     *)
(* Of an attempt: the journal of three processes on one path, and a read   *)
(* stream of three frames about two orders.  Of the paper runtime: the book  *)
(* of one market of RISEx, Lighter or Nado, with four changes, two          *)
(* sessions and two faults; and the Extended socket, with two markets, two  *)
(* sessions of three frames and two faults, silences or changes of the      *)
(* catalog.  They share no state: which tells the one that runs.           *)
(***************************************************************************)
EXTENDS MCJournal

CONSTANTS
    Keys, Nonces, MaxFrames, None,
    Kinds, BookAttempts, BookCapacity, BookOverflows, MaxBookChanges, MaxBookSessions,
    MaxBookFaults,
    Markets, Queue, SocketCapacity, SocketOverflows, MaxSocketFrames, MaxSocketChanges,
    MaxSocketSessions, MaxSocketTroubles

\* The venues that BookRecovery tells apart, and a market that changes so often.
ASSUME BooksAssumption ==
    Kinds \subseteq {"RISEX", "LIGHTER", "NADO"} /\ MaxSocketChanges \in Nat

VARIABLES
    which,
    stream, frames, stopped, malformed, conflicts, bookNonce, bookSnapshot, lastOrders,
    snapshotSeen, bookFresh, exact, version, consumed, depth, depthFresh, orders, invalid,
    anchor, shown, first, spent, accepted, disturbed, granted,
    venue, made, on, asked, wire, faults, turn, stage, copy, ready, keeper, flow, episode,
    task, ref, seen,
    symbols, head, phys, queue, src, sess, cursor, place, book, live, ep, conf, req, troubles,
    got, routed

streamVars ==
    <<stream, frames, stopped, malformed, conflicts, bookNonce, bookSnapshot, lastOrders,
      snapshotSeen, bookFresh, exact, version, consumed, depth, depthFresh, orders, invalid,
      anchor, shown, first, spent, accepted, disturbed, granted>>
bookVars ==
    <<venue, made, on, asked, wire, faults, turn, stage, copy, ready, keeper, flow, episode,
      task, ref, seen>>
socketVars ==
    <<symbols, head, phys, queue, src, sess, cursor, place, book, live, ep, conf, req,
      troubles, got, routed>>

Stream == INSTANCE StreamState WITH event <- accepted
Book == INSTANCE BookRecovery WITH
    Attempts <- BookAttempts, Capacity <- BookCapacity, Overflows <- BookOverflows,
    MaxChanges <- MaxBookChanges,
    MaxSessions <- MaxBookSessions, MaxFaults <- MaxBookFaults,
    kind <- venue, head <- made, sess <- turn, pc <- stage, book <- copy, live <- ready,
    owner <- keeper, ep <- episode
Socket == INSTANCE AggregateBook WITH
    Capacity <- SocketCapacity, Overflows <- SocketOverflows, MaxFrames <- MaxSocketFrames,
    MaxChanges <- MaxSocketChanges, MaxSessions <- MaxSocketSessions,
    MaxTroubles <- MaxSocketTroubles,
    pc <- place, spent <- troubles

\* Where a part does not run, one of its initial states will do.
RecordsInit ==
    /\ Init /\ Stream!Init /\ Book!Init /\ Socket!Init
    /\ which \in {"journal", "stream", "book", "socket"}
    /\ which # "book" => venue = CHOOSE k \in Kinds : TRUE
    /\ which # "socket" => symbols = Markets

BookOnly == UNCHANGED <<which, vars, streamVars, socketVars>>
SocketOnly == UNCHANGED <<which, vars, streamVars, bookVars>>

\* One disjunct per action, so that the run counts each of them.
RecordsNext ==
    \/ which = "journal" /\ Next /\ UNCHANGED <<which, streamVars, bookVars, socketVars>>
    \/ which = "stream" /\ Stream!Next /\ UNCHANGED <<which, vars, bookVars, socketVars>>
    \/ which = "book" /\ Book!Change /\ BookOnly
    \/ which = "book" /\ Book!Subscribed /\ BookOnly
    \/ which = "book" /\ Book!Connect /\ BookOnly
    \/ which = "book" /\ Book!Fetched /\ BookOnly
    \/ which = "book" /\ Book!Joined /\ BookOnly
    \/ which = "book" /\ Book!Drop /\ BookOnly
    \/ which = "book" /\ Book!Wake /\ BookOnly
    \/ which = "book" /\ Book!Refused /\ BookOnly
    \/ which = "book" /\ Book!FirstSnapshot /\ BookOnly
    \/ which = "book" /\ Book!RecoverySnapshot /\ BookOnly
    \/ which = "book" /\ Book!RecoverySnapshotFails /\ BookOnly
    \/ which = "book" /\ Book!Buffered /\ BookOnly
    \/ which = "book" /\ Book!Overflow /\ BookOnly
    \/ which = "book" /\ Book!DeltaApplied /\ BookOnly
    \/ which = "book" /\ Book!DeltaGap /\ BookOnly
    \/ which = "book" /\ Book!RescueAsks /\ BookOnly
    \/ which = "book" /\ Book!RescueAnswered /\ BookOnly
    \/ which = "book" /\ Book!RescueFails /\ BookOnly
    \/ which = "book" /\ Book!RescueDisplaced /\ BookOnly
    \/ which = "book" /\ Book!RescueWakes /\ BookOnly
    \/ which = "book" /\ Book!TimerFires /\ BookOnly
    \/ which = "book" /\ Book!RefreshAsks /\ BookOnly
    \/ which = "book" /\ Book!RefreshAnswered /\ BookOnly
    \/ which = "socket" /\ Socket!Send /\ SocketOnly
    \/ which = "socket" /\ Socket!SourceEnds /\ SocketOnly
    \/ which = "socket" /\ Socket!Connect /\ SocketOnly
    \/ which = "socket" /\ Socket!Drop /\ SocketOnly
    \/ which = "socket" /\ Socket!Wake /\ SocketOnly
    \/ which = "socket" /\ Socket!Ping /\ SocketOnly
    \/ which = "socket" /\ Socket!FailSequence /\ SocketOnly
    \/ which = "socket" /\ Socket!Ignored /\ SocketOnly
    \/ which = "socket" /\ Socket!Snapshot /\ SocketOnly
    \/ which = "socket" /\ Socket!DeltaApplied /\ SocketOnly
    \/ which = "socket" /\ Socket!DeltaGap /\ SocketOnly
    \/ which = "socket" /\ Socket!Buffered /\ SocketOnly
    \/ which = "socket" /\ Socket!CheckHealth /\ SocketOnly
    \/ which = "socket" /\ Socket!RecoverHealth /\ SocketOnly
    \/ which = "socket" /\ Socket!Reconcile /\ SocketOnly

RecordsSpec ==
    RecordsInit /\ [][RecordsNext]_<<vars, which, streamVars, bookVars, socketVars>>

\* What the read stream tells its readers is of its own connection.
StreamIsTrue == Stream!StreamIsTrue

\* A book the paper runtime trades on is the venue's, without a hole, and the
\* running socket's where it says so; and a book that was lost has somebody at
\* work on it as long as its socket is read.
BooksAreTrue ==
    /\ Book!BookIsWhole /\ Book!StreamBookIsCurrent /\ Book!SomebodyMends
    /\ Socket!BooksAreCurrent /\ Socket!RecoveryIsOwned
=============================================================================
