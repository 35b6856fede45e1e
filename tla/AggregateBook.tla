---------------------------- MODULE AggregateBook ---------------------------
(***************************************************************************)
(* The one socket that carries the Extended books of all markets           *)
(* (src/risex_farmer/runtime.py): its frames are numbered over all markets, *)
(* so that a missing number is a loss for all of them; a change of the      *)
(* catalog changes which markets are routed and leaves the socket alone; a *)
(* reader puts the frames in a bounded queue; and a health check replaces  *)
(* a socket that went quiet.                                               *)
(*                                                                         *)
(* As in BookRecovery a book is the set of the changes it shows.           *)
(***************************************************************************)
EXTENDS Integers, Sequences

CONSTANTS Markets,
          Queue,          \* the frames the reader keeps (4096)
          Capacity,       \* the deltas an episode buffers (2048)
          Overflows,      \* the overflows it survives, less one (3)
          MaxFrames, MaxChanges, MaxSessions, MaxTroubles  \* bounds

VARIABLES
    symbols,  \* the markets that are routed
    head,     \* the changes the venue has made to each market
    phys,     \* the number of the last frame on the socket
    queue,    \* the frames the reader keeps
    src,      \* the socket: open, eof, broken
    sess,     \* the last stream session
    pc,       \* where the stream task is: none, down, read, sleep
    cursor,   \* _extended_book_sequence_state of the session
    book,     \* per market: connected, ok, its sequence, the changes it shows
    live,     \* _live_book_ready
    ep,       \* the recovery episode of each market
    conf,     \* whether the connection was confirmed
    req,      \* the health recovery that is queued
    spent,    \* faults, silences and changes of the catalog so far
    got,      \* the last change of each market that the session has read
    routed    \* the markets that were routed when the session connected

venueVars == <<head, phys, queue, src>>
vars == <<symbols, venueVars, sess, pc, cursor, book, live, ep, conf, req, spent, got, routed>>

NoSeq == -1
NoBook == [conn |-> FALSE, ok |-> FALSE, seq |-> NoSeq, has |-> {}]
NoEpisode == [sess |-> 0, buf |-> <<>>, end |-> "NONE", over |-> 0]
NoRequest == [on |-> FALSE, sess |-> 0, moved |-> FALSE]
Nothing == [m \in Markets |-> 0]

Lost(b) == [b EXCEPT !.ok = FALSE, !.seq = NoSeq, !.has = {}]
Usable(m) == book[m].conn /\ book[m].ok
Open(m) == ep[m].end = "OPEN"

Fault == spent < MaxTroubles /\ spent' = spent + 1

Init ==
    /\ symbols \in (SUBSET Markets) \ {{}}
    /\ head = Nothing /\ phys = 0 /\ queue = <<>> /\ src = "eof"
    /\ sess = 1 /\ pc = "down" /\ cursor = NoSeq
    /\ book = [m \in Markets |-> NoBook] /\ live = [m \in Markets |-> FALSE]
    /\ ep = [m \in Markets |-> NoEpisode]
    /\ conf = FALSE /\ req = NoRequest
    /\ spent = 0
    /\ got = Nothing /\ routed = {}

-----------------------------------------------------------------------------
(* The venue and the reader. *)

\* A frame reaches the reader; when its queue is full the socket is given up.
Ingress(frames) ==
    IF Len(queue) + Len(frames) > Queue THEN src' = "broken" /\ UNCHANGED queue
    ELSE queue' = queue \o frames /\ UNCHANGED src

\* The venue sends the next change of a market, or its whole book with any
\* number of changes it has not sent.  A frame may be lost or come twice.
Send ==
    \E m \in Markets, t \in {"delta", "snap"}, sent \in {"once", "twice", "lost"},
       at \in 0..MaxChanges :
        LET f == [m |-> m, t |-> t, at |-> at, seq |-> phys + 1]
        IN  /\ pc = "read" /\ src = "open" /\ phys < MaxFrames
            /\ at >= head[m] /\ (t = "delta" => at = head[m] + 1)
            /\ head' = [head EXCEPT ![m] = at]
            /\ phys' = phys + 1
            /\ CASE sent = "once" -> Ingress(<<f>>) /\ UNCHANGED spent
                 [] sent = "twice" -> Ingress(<<f, f>>) /\ Fault
                 [] OTHER -> UNCHANGED <<queue, src>> /\ Fault
            /\ UNCHANGED <<symbols, sess, pc, cursor, book, live, ep, conf, req, got, routed>>

\* The socket ends: at its end the frames in the queue are still read, at a
\* close or an error they are not.
SourceEnds ==
    /\ pc = "read" /\ src = "open"
    /\ Fault
    /\ src' \in {"eof", "broken"}
    /\ UNCHANGED <<symbols, head, phys, queue, sess, pc, cursor, book, live, ep, conf, req,
                   got, routed>>

-----------------------------------------------------------------------------
(* The stream task. *)

\* Every routed market loses its book.
MarkDisconnected ==
    /\ book' = [m \in Markets |->
                   IF m \in symbols THEN [Lost(book[m]) EXCEPT !.conn = FALSE] ELSE book[m]]
    /\ live' = [m \in Markets |-> live[m] /\ m \notin symbols]

\* A new session, with a socket of its own.
NewSession ==
    /\ sess < MaxSessions /\ sess' = sess + 1
    /\ pc' = "down" /\ cursor' = NoSeq
    /\ queue' = <<>> /\ src' = "eof" /\ phys' = 0 /\ got' = Nothing

Confirmed == conf' = TRUE /\ req' = [req EXCEPT !.moved = req.on]
Unconfirmed == conf' = FALSE /\ req' = [req EXCEPT !.moved = req.on]

NewEpisode == [NoEpisode EXCEPT !.sess = sess, !.end = "OPEN"]

\* At a connection an episode of an earlier session is taken over; one that
\* is complete only when there still is a book.
Displaced(m) ==
    CASE ep[m].end = "NONE" -> book[m].ok
      [] ep[m].end = "OPEN" -> ep[m].sess # sess
      [] ep[m].end = "COMPLETE" -> book[m].ok
      [] OTHER -> TRUE

\* The connection: every routed market waits for its own snapshot.
Connect ==
    /\ pc = "down"
    /\ pc' = "read" /\ src' = "open"
    /\ ep' = [m \in Markets |-> IF m \in symbols /\ Displaced(m) THEN NewEpisode ELSE ep[m]]
    /\ book' = [m \in Markets |->
                   IF m \in symbols THEN [Lost(book[m]) EXCEPT !.conn = TRUE] ELSE book[m]]
    /\ live' = [m \in Markets |-> live[m] /\ m \notin symbols]
    /\ Confirmed
    /\ routed' = symbols
    /\ UNCHANGED <<symbols, head, phys, queue, sess, cursor, spent, got>>

\* The connection fails, or what was readable of the socket has been read.
Drop ==
    /\ \/ pc = "down" /\ Fault
       \/ pc = "read" /\ UNCHANGED spent /\ (src = "broken" \/ (src = "eof" /\ queue = <<>>))
    /\ MarkDisconnected /\ Unconfirmed
    /\ pc' = "sleep" /\ queue' = <<>> /\ src' = "eof" /\ phys' = 0 /\ got' = Nothing
    /\ UNCHANGED <<symbols, head, sess, cursor, ep, routed>>

Wake ==
    /\ pc = "sleep"
    /\ NewSession
    /\ UNCHANGED <<symbols, head, book, live, ep, conf, req, spent, routed>>

\* A ping or a pong: every routed market is told it is connected.
Ping ==
    /\ pc = "read" /\ src # "eof"
    /\ Confirmed
    /\ book' = [m \in Markets |-> [book[m] EXCEPT !.conn = @ \/ m \in symbols]]
    /\ UNCHANGED <<symbols, venueVars, sess, pc, cursor, live, ep, spent, got, routed>>

\* The next frame in the queue.
Frame == Head(queue)
Readable == pc = "read" /\ src # "broken" /\ queue # <<>>

\* Mutant: a missing number is not noticed.
AnyLater == cursor = NoSeq \/ Frame.seq > cursor

Continues == cursor = NoSeq \/ Frame.seq = cursor + 1

Taken ==
    /\ Readable /\ Continues
    /\ queue' = Tail(queue)
    /\ cursor' = Frame.seq
    /\ got' = [got EXCEPT ![Frame.m] = Frame.at]
    /\ UNCHANGED <<symbols, head, phys, src, sess, pc, spent, routed>>

\* A number is missing or comes again: the whole socket fails, its
\* recoveries are forgotten, and a new one is started at once.
FailSequence ==
    /\ Readable /\ ~Continues
    /\ MarkDisconnected /\ Unconfirmed
    /\ ep' = [m \in Markets |-> IF m \in symbols /\ Open(m) THEN NoEpisode ELSE ep[m]]
    /\ NewSession
    /\ UNCHANGED <<symbols, head, spent, routed>>

\* A frame of a market that is not routed, or whose recovery has failed, or
\* whose recovery belongs to an earlier session: only the cursor moves.
Ignored ==
    /\ Taken
    /\ \/ Frame.m \notin symbols
       \/ ep[Frame.m].end = "FAILED"
       \/ Open(Frame.m) /\ ep[Frame.m].sess # sess /\ Frame.t = "snap"
    /\ UNCHANGED <<book, live, ep, conf, req>>

Routed == Taken /\ Frame.m \in symbols
Shows(f) == [conn |-> TRUE, ok |-> TRUE, seq |-> f.seq, has |-> 1..f.at]

\* A snapshot, in a recovery of this session or outside of one.  The buffered
\* deltas are all of earlier frames, so none of them is applied to it.
Snapshot ==
    /\ Routed /\ Frame.t = "snap"
    /\ ep[Frame.m].end \in {"NONE", "COMPLETE"} \/ (Open(Frame.m) /\ ep[Frame.m].sess = sess)
    /\ book' = [book EXCEPT ![Frame.m] = Shows(Frame)]
    /\ live' = [live EXCEPT ![Frame.m] = TRUE]
    /\ ep' = IF Open(Frame.m)
             THEN [ep EXCEPT ![Frame.m] = [@ EXCEPT !.end = "COMPLETE", !.buf = <<>>]] ELSE ep
    /\ Confirmed

Grown(b, f) == [b EXCEPT !.conn = TRUE, !.seq = f.seq, !.has = @ \cup {f.at}]

\* A delta that continues the market's book; the numbers between belong to
\* other markets.
DeltaApplied ==
    /\ Routed /\ Frame.t = "delta" /\ ep[Frame.m].end \in {"NONE", "COMPLETE"}
    /\ book[Frame.m].ok /\ Frame.seq > book[Frame.m].seq
    /\ book' = [book EXCEPT ![Frame.m] = Grown(@, Frame)]
    /\ live' = [live EXCEPT ![Frame.m] = TRUE]
    /\ Confirmed
    /\ UNCHANGED ep

\* A delta without a book: the market waits for a snapshot.
DeltaGap ==
    /\ Routed /\ Frame.t = "delta" /\ ep[Frame.m].end \in {"NONE", "COMPLETE"}
    /\ ~book[Frame.m].ok
    /\ book' = [book EXCEPT ![Frame.m] = NoBook]
    /\ live' = [live EXCEPT ![Frame.m] = FALSE]
    /\ ep' = [ep EXCEPT ![Frame.m] = NewEpisode]
    /\ UNCHANGED <<conf, req>>

\* A delta during a recovery: buffered, or when the buffer is full dropped
\* with it; too often and the recovery fails.
Buffered ==
    /\ Routed /\ Frame.t = "delta" /\ Open(Frame.m)
    /\ LET e == ep[Frame.m]
           full == Len(e.buf) >= Capacity
       IN  /\ ep' = [ep EXCEPT ![Frame.m] =
                 IF ~full THEN [e EXCEPT !.buf = Append(@, Frame.seq)]
                 ELSE [e EXCEPT !.buf = <<>>, !.over = @ + 1,
                                !.end = IF e.over + 1 >= Overflows THEN "FAILED" ELSE "OPEN"]]
           /\ book' = IF full THEN [book EXCEPT ![Frame.m] = Lost(@)] ELSE book
    /\ UNCHANGED <<live, conf, req>>

-----------------------------------------------------------------------------
(* The health check, in a task of its own. *)

\* No confirmation for too long: a recovery of this socket is queued.
CheckHealth ==
    /\ pc = "read" /\ conf /\ ~req.on
    /\ Fault
    /\ req' = [on |-> TRUE, sess |-> sess, moved |-> FALSE]
    /\ UNCHANGED <<symbols, venueVars, sess, pc, cursor, book, live, ep, conf, got, routed>>

RequestIsCurrent == req.sess = sess /\ pc # "none" /\ conf /\ ~req.moved

\* The queued recovery runs: a socket that is still the same and still silent
\* is replaced.
RecoverHealth ==
    /\ req.on /\ req' = NoRequest
    /\ IF RequestIsCurrent
       THEN /\ MarkDisconnected /\ conf' = FALSE /\ NewSession
            /\ UNCHANGED <<head>>
       ELSE UNCHANGED <<venueVars, sess, pc, cursor, book, live, conf, got>>
    /\ UNCHANGED <<symbols, ep, spent, routed>>

-----------------------------------------------------------------------------
(* The catalog. *)

\* Markets come and go.  One that is added waits for its own evidence; the
\* socket is started for the first market and cancelled after the last.
Reconcile ==
    \E wanted \in SUBSET Markets :
        /\ wanted # symbols /\ Fault
        /\ symbols' = wanted
        /\ book' = [m \in Markets |-> IF m \in wanted \ symbols THEN Lost(book[m]) ELSE book[m]]
        /\ live' = [m \in Markets |-> live[m] /\ m \in wanted \cap symbols]
        /\ CASE wanted = {} ->
                   /\ pc' = "none" /\ queue' = <<>> /\ src' = "eof" /\ cursor' = NoSeq
                   /\ Unconfirmed
                   /\ UNCHANGED <<phys, sess, got>>
             [] wanted # {} /\ pc = "none" -> NewSession /\ Unconfirmed
             [] OTHER -> UNCHANGED <<phys, queue, src, sess, pc, cursor, conf, req, got>>
        /\ UNCHANGED <<head, ep, routed>>

Next ==
    \/ Send \/ SourceEnds
    \/ Connect \/ Drop \/ Wake \/ Ping
    \/ FailSequence \/ Ignored \/ Snapshot \/ DeltaApplied \/ DeltaGap \/ Buffered
    \/ CheckHealth \/ RecoverHealth
    \/ Reconcile

Spec == Init /\ [][Next]_vars

-----------------------------------------------------------------------------
\* The book of a routed market that is given out shows every change the venue
\* made up to the last frame the running session has read of it: no loss on
\* the shared socket, no time out of the routing and no other session's frame
\* has left a hole.
BooksAreCurrent ==
    \A m \in symbols : Usable(m) =>
        /\ pc = "read"
        /\ book[m].has = 1..got[m]
        /\ book[m].seq <= cursor
        /\ live[m] /\ ep[m].end \in {"NONE", "COMPLETE"}

\* While the socket is read, a routed market that recovers does so for the
\* running session, whose next snapshot of it ends the recovery; only a
\* market that was not routed when the session connected can be left with a
\* recovery of an earlier one.
RecoveryIsOwned ==
    pc = "read" => \A m \in symbols \cap routed : Open(m) => ep[m].sess = sess
=============================================================================
