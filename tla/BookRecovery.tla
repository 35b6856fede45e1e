---------------------------- MODULE BookRecovery ----------------------------
(***************************************************************************)
(* The public book of one market in the paper runtime, on a socket that    *)
(* carries all markets of its venue (RISEx, Lighter or Nado): the stream   *)
(* task that connects, subscribes and reads, the recovery episode that     *)
(* buffers while the book is lost, the background REST rescue, the timer   *)
(* of a Lighter recovery, and the periodic refresh that reads the same     *)
(* book over REST (src/risex_farmer/runtime.py, market_data.py).           *)
(*                                                                         *)
(* The venue's book is the number of changes made to it; a book here is    *)
(* the set of the changes it shows.  A REST book of RISEx or Lighter has no *)
(* sequence, one of Nado has.                                              *)
(***************************************************************************)
EXTENDS Integers, Sequences

CONSTANTS Kinds,          \* the venues to follow, of {"RISEX", "LIGHTER", "NADO"}
          Capacity,       \* the deltas an episode buffers (2048)
          Overflows,      \* the overflows it survives, less one (3)
          Attempts,       \* the attempts of a REST rescue (3)
          MaxChanges, MaxSessions, MaxFaults  \* bounds of the venue and of the network

VARIABLES
    kind,     \* the venue
    head,     \* the changes the venue has made
    on,       \* whether the venue sends deltas on the socket
    asked,    \* subscriptions it has not answered with a snapshot yet
    wire,     \* the frames on the socket, in order
    faults,   \* what went wrong so far
    sess,     \* the stream session the runtime owns
    pc,       \* where the stream task is: down, fetch, join, read or sleep
    book,     \* the book: connected, ok, its sequence, the changes it shows
    live,     \* _live_book_ready
    owner,    \* _risex_ws_book_sessions: the session that owns a RISEx book
    flow,     \* _trade_stream_ready
    ep,       \* the recovery episode
    task,     \* the task the episode owns: a REST rescue or a Lighter timer
    ref,      \* the refresh under way
    seen      \* the sequence of the last frame the session has read

venueVars == <<head, on, asked, wire>>
bookVars == <<book, live, owner, flow>>
vars == <<kind, venueVars, faults, sess, pc, bookVars, ep, task, ref, seen>>

NoSeq == -1
Delta(m, n) == [t |-> "delta", from |-> m, to |-> n]
Snap(n) == [t |-> "snap", from |-> 0, to |-> n]

NoTask == [t |-> "none", n |-> 0, from |-> 0]
NoEpisode == [sess |-> 0, buf |-> <<>>, end |-> "NONE", over |-> 0]
NoRefresh == [on |-> FALSE, from |-> 0, moved |-> FALSE]

Lost(b) == [b EXCEPT !.ok = FALSE, !.seq = NoSeq, !.has = {}]
Cut(b) == [Lost(b) EXCEPT !.conn = FALSE]
Shows(n, seq) == [conn |-> TRUE, ok |-> TRUE, seq |-> seq, has |-> 1..n]

\* What a REST call that was sent when the venue had made m changes may answer.
Answers(m) == (IF m = 0 THEN 0 ELSE m - 1)..head

\* The sequence a REST book carries.
RestSequence(n) == IF kind = "NADO" THEN n ELSE NoSeq

Usable == book.conn /\ book.ok /\ (kind = "LIGHTER" => book.seq # NoSeq)
Open == ep.end = "OPEN"
Owns == Open /\ ep.sess = sess

-----------------------------------------------------------------------------
(* The rules by which a delta continues a book. *)

Absolute(b, f) == [b EXCEPT !.has = @ \cup (f.from + 1)..f.to, !.seq = f.to]

NadoDelta(b, f) ==
    IF f.to <= b.seq THEN b ELSE IF f.from > b.seq THEN Lost(b) ELSE Absolute(b, f)

LighterDelta(b, f) ==
    IF b.seq # NoSeq /\ f.from = b.seq THEN Absolute(b, f) ELSE Lost(b)

\* The checksum is the venue's whole book.
RisexUpdate(b, f) ==
    IF f.to > b.seq /\ Absolute(b, f).has = 1..f.to THEN Absolute(b, f) ELSE Lost(b)

ApplyDelta(b, f) ==
    IF ~b.ok THEN Lost(b)
    ELSE CASE kind = "NADO" -> NadoDelta(b, f)
           [] kind = "LIGHTER" -> LighterDelta(b, f)
           [] OTHER -> RisexUpdate(b, f)

Ordered(buf) == \A i \in 1..(Len(buf) - 1) : buf[i].to < buf[i + 1].to

\* A book after the buffered deltas that are later than it.
CaughtUp(b, buf) ==
    LET made[i \in 0..Len(buf)] ==
            IF i = 0 THEN b
            ELSE IF buf[i].to > b.seq THEN ApplyDelta(made[i - 1], buf[i])
            ELSE made[i - 1]
    IN  made[Len(buf)]

\* The book a snapshot and the buffered deltas make; it is not ok when they
\* do not fit (the ValueErrors).
BuildRecoveryBook(n, seq) ==
    IF seq = NoSeq THEN IF kind = "LIGHTER" THEN Lost(book) ELSE Shows(n, seq)
    ELSE IF kind = "RISEX" /\ ~Ordered(ep.buf) THEN Lost(book)
    ELSE CaughtUp(Shows(n, seq), ep.buf)

-----------------------------------------------------------------------------
(* What the handlers share. *)

\* Session, revision or invalidation moved: a refresh of RISEx notices.
Moved == ref' = [ref EXCEPT !.moved = ref.on]

MarkDisconnected ==
    /\ book' = Cut(book) /\ live' = FALSE /\ owner' = 0
    /\ Moved

NewEpisode == [sess |-> sess, buf |-> <<>>, end |-> "OPEN", over |-> 0]

Rescue == [t |-> "try", n |-> 1, from |-> 0]
Timer == [t |-> "timer", n |-> 0, from |-> 0]

\* A recovery that found its book: it is published and the episode is over.
PublishRecoverySnapshot(b) ==
    /\ book' = b /\ live' = TRUE
    /\ owner' = IF kind = "RISEX" THEN ep.sess ELSE owner
    /\ ep' = [ep EXCEPT !.end = "COMPLETE", !.buf = <<>>]
    /\ Moved

\* A snapshot outside a recovery.
RecoverSnapshot(n, seq, websocket) ==
    /\ book' = Shows(n, seq)
    /\ live' = (live \/ kind # "RISEX" \/ websocket)
    /\ owner' = IF kind = "RISEX" /\ websocket THEN sess ELSE owner
    /\ Moved

\* The RISEx channel is dropped and taken again, in an episode of its own.
ResubscribeRisexOrderbooks ==
    /\ ep' = NewEpisode
    /\ on' = FALSE /\ asked' = asked + 1

-----------------------------------------------------------------------------
(* The venue. *)

\* It changes its book and says so to its subscribers; Nado may put two
\* changes into a frame.  A frame may be lost on the venue's side or come twice.
Change ==
    \E n \in 1..(IF kind = "NADO" THEN 2 ELSE 1), sent \in {"once", "twice", "lost"} :
        LET f == Delta(head, head + n)
        IN  /\ head + n <= MaxChanges
            /\ head' = head + n
            /\ ~on => sent = "once"
            /\ sent # "once" => faults < MaxFaults
            /\ faults' = IF sent = "once" THEN faults ELSE faults + 1
            /\ wire' = IF ~on \/ sent = "lost" THEN wire
                       ELSE IF sent = "once" THEN Append(wire, f)
                       ELSE wire \o <<f, f>>
            /\ UNCHANGED <<kind, on, asked, sess, pc, bookVars, ep, task, ref, seen>>

\* It answers a subscription with its book and sends the changes from there.
Subscribed ==
    /\ asked > 0
    /\ asked' = asked - 1 /\ on' = TRUE
    /\ wire' = Append(wire, Snap(head))
    /\ UNCHANGED <<kind, head, faults, sess, pc, bookVars, ep, task, ref, seen>>

-----------------------------------------------------------------------------
(* The stream task. *)

\* A recovery of an earlier session, failed or not, is replaced by one of this.
Displaced == ep.end \in {"OPEN", "FAILED"} /\ ~Owns

ReplaceDisplaced ==
    IF Displaced
    THEN /\ ep' = NewEpisode
         /\ task' = CASE kind = "NADO" -> Rescue [] kind = "LIGHTER" -> Timer [] OTHER -> NoTask
    ELSE UNCHANGED <<ep, task>>

\* A connection: subscribe, and wait for what will give the book.
Connect ==
    /\ pc = "down"
    /\ ReplaceDisplaced
    /\ on' = (kind = "NADO")
    /\ asked' = CASE kind = "NADO" -> 0 [] kind = "RISEX" /\ Displaced -> 2 [] OTHER -> 1
    /\ book' = IF kind = "LIGHTER" THEN Lost([book EXCEPT !.conn = TRUE])
               ELSE [book EXCEPT !.conn = TRUE]
    /\ pc' = CASE kind = "LIGHTER" \/ (kind = "RISEX" /\ Displaced) -> "read"
               [] kind = "NADO" /\ (Displaced \/ Owns) -> "join"
               [] OTHER -> "fetch"
    /\ UNCHANGED <<kind, head, wire, faults, sess, live, owner, flow, ref, seen>>

\* The REST book that a connection without a recovery starts from; that of
\* RISEx does not become live.
Fetched ==
    /\ pc = "fetch"
    /\ \E n \in Answers(head) : RecoverSnapshot(n, RestSequence(n), FALSE)
    /\ flow' = (flow \/ kind = "NADO")
    /\ pc' = "read"
    /\ UNCHANGED <<kind, venueVars, faults, sess, ep, task, seen>>

\* The Nado recovery that the connection waited for has ended.
Joined ==
    /\ pc = "join" /\ task.t = "none"
    /\ flow' = (flow \/ ep.end = "COMPLETE")
    /\ pc' = "read"
    /\ UNCHANGED <<kind, venueVars, faults, sess, book, live, owner, ep, task, ref, seen>>

\* The socket, the connection or the first fetch fails.  An episode goes on,
\* and so does its task.
Drop ==
    /\ pc \in {"down", "fetch", "read"}
    /\ faults < MaxFaults /\ faults' = faults + 1
    /\ MarkDisconnected
    /\ flow' = FALSE
    /\ pc' = "sleep"
    /\ on' = FALSE /\ asked' = 0 /\ wire' = <<>>
    /\ UNCHANGED <<kind, head, sess, ep, task, seen>>

\* The pause is over: a new session.
Wake ==
    /\ pc = "sleep" /\ sess < MaxSessions
    /\ sess' = sess + 1 /\ seen' = 0
    /\ pc' = "down"
    /\ owner' = 0 /\ live' = (live /\ kind # "RISEX")
    /\ Moved
    /\ UNCHANGED <<kind, venueVars, faults, book, flow, ep, task>>

\* The next frame is read.
Frame(t) ==
    /\ pc = "read" /\ wire # <<>> /\ Head(wire).t = t
    /\ wire' = Tail(wire)
    /\ seen' = Head(wire).to
    /\ UNCHANGED <<kind, head, faults, sess, pc>>

Quiet == UNCHANGED <<on, asked>>

\* A frame for an episode that failed is refused; one of RISEx never waits for
\* a frame, as its channel is taken again when it fails.
Refused ==
    /\ ep.end = "FAILED"
    /\ Frame("delta") \/ Frame("snap")
    /\ Quiet /\ UNCHANGED <<bookVars, ep, task, ref>>

\* A snapshot while nothing recovers.
FirstSnapshot ==
    /\ ep.end \in {"NONE", "COMPLETE"}
    /\ Frame("snap")
    /\ RecoverSnapshot(Head(wire).to, Head(wire).to, TRUE)
    /\ flow' = TRUE
    /\ Quiet /\ UNCHANGED <<ep, task>>

\* A snapshot for the recovery: the buffered deltas are applied to it.
RecoverySnapshot ==
    /\ Owns
    /\ Frame("snap")
    /\ BuildRecoveryBook(Head(wire).to, Head(wire).to).ok
    /\ PublishRecoverySnapshot(BuildRecoveryBook(Head(wire).to, Head(wire).to))
    /\ task' = IF task.t = "timer" THEN NoTask ELSE task
    /\ flow' = TRUE
    /\ Quiet

\* They do not fit: Lighter gives up for this session, RISEx subscribes again.
RecoverySnapshotFails ==
    /\ Owns
    /\ Frame("snap")
    /\ ~BuildRecoveryBook(Head(wire).to, Head(wire).to).ok
    /\ MarkDisconnected
    /\ task' = NoTask
    /\ IF kind = "RISEX" THEN ResubscribeRisexOrderbooks
       ELSE ep' = [ep EXCEPT !.end = "FAILED", !.buf = <<>>] /\ Quiet
    /\ UNCHANGED flow

\* A delta during a recovery is buffered.
Buffered ==
    /\ Owns /\ Len(ep.buf) < Capacity
    /\ Frame("delta")
    /\ ep' = [ep EXCEPT !.buf = Append(@, Head(wire))]
    /\ Quiet /\ UNCHANGED <<bookVars, task, ref>>

\* The buffer is full: it is dropped with the delta.  A REST rescue starts
\* afresh, on RISEx nothing; too often and the recovery fails, and RISEx
\* subscribes again.
Overflow ==
    /\ Owns /\ Len(ep.buf) >= Capacity
    /\ Frame("delta")
    /\ book' = Lost(book)
    /\ IF ep.over + 1 < Overflows
       THEN /\ ep' = [ep EXCEPT !.buf = <<>>, !.over = @ + 1]
            /\ task' = IF kind = "RISEX" THEN task ELSE Rescue
            /\ Quiet
       ELSE /\ task' = NoTask
            /\ IF kind = "RISEX" THEN ResubscribeRisexOrderbooks
               ELSE ep' = [ep EXCEPT !.buf = <<>>, !.end = "FAILED"] /\ Quiet
    /\ UNCHANGED <<live, owner, flow, ref>>

\* A delta that continues the book.
DeltaApplied ==
    /\ ep.end \in {"NONE", "COMPLETE"}
    /\ kind = "RISEX" => owner = sess
    /\ Frame("delta")
    /\ ApplyDelta(book, Head(wire)).ok
    /\ book' = ApplyDelta(book, Head(wire))
    /\ live' = TRUE /\ flow' = TRUE
    /\ Moved
    /\ Quiet /\ UNCHANGED <<owner, ep, task>>

\* A delta that does not, or one for a RISEx book the socket does not own:
\* the book is lost and a recovery begins.
DeltaGap ==
    /\ ep.end \in {"NONE", "COMPLETE"}
    /\ Frame("delta")
    /\ (kind = "RISEX" /\ owner # sess) \/ ~ApplyDelta(book, Head(wire)).ok
    /\ MarkDisconnected
    /\ CASE kind = "NADO" -> ep' = NewEpisode /\ task' = Rescue /\ Quiet
         [] kind = "LIGHTER" ->
                ep' = NewEpisode /\ task' = Timer /\ asked' = asked + 1 /\ UNCHANGED on
         [] OTHER -> ResubscribeRisexOrderbooks /\ UNCHANGED task
    /\ UNCHANGED flow

-----------------------------------------------------------------------------
(* The tasks of an episode. *)

\* An attempt of the rescue asks for the REST book.
RescueAsks ==
    /\ task.t = "try"
    /\ task' = IF Owns THEN [task EXCEPT !.t = "asked", !.from = head] ELSE NoTask
    /\ UNCHANGED <<kind, venueVars, faults, sess, pc, bookVars, ep, ref, seen>>

\* The answer, for an episode that is still the session's, and fits.
RescueAnswered ==
    /\ task.t = "asked" /\ Owns
    /\ \E n \in Answers(task.from) :
          /\ BuildRecoveryBook(n, RestSequence(n)).ok
          /\ PublishRecoverySnapshot(BuildRecoveryBook(n, RestSequence(n)))
    /\ task' = NoTask
    /\ UNCHANGED <<kind, venueVars, faults, sess, pc, flow, seen>>

\* Or it does not fit, or there is none: once more after a pause, or failed.
RescueFails ==
    /\ task.t = "asked" /\ Owns
    /\ \/ /\ \E n \in Answers(task.from) : ~BuildRecoveryBook(n, RestSequence(n)).ok
          /\ UNCHANGED faults
       \/ faults < MaxFaults /\ faults' = faults + 1
    /\ IF task.n < Attempts
       THEN task' = [task EXCEPT !.t = "sleep"] /\ UNCHANGED ep
       ELSE task' = NoTask /\ ep' = [ep EXCEPT !.end = "FAILED"]
    /\ UNCHANGED <<kind, venueVars, sess, pc, bookVars, ref, seen>>

\* An answer for an episode that is not the session's any more.
RescueDisplaced ==
    /\ task.t = "asked" /\ ~Owns
    /\ task' = NoTask
    /\ UNCHANGED <<kind, venueVars, faults, sess, pc, bookVars, ep, ref, seen>>

RescueWakes ==
    /\ task.t = "sleep"
    /\ task' = [Rescue EXCEPT !.n = task.n + 1]
    /\ UNCHANGED <<kind, venueVars, faults, sess, pc, bookVars, ep, ref, seen>>

\* No snapshot came on the Lighter socket in time.
TimerFires ==
    /\ task.t = "timer"
    /\ task' = NoTask
    /\ IF Owns THEN ep' = [ep EXCEPT !.end = "FAILED", !.buf = <<>>] /\ book' = Lost(book)
       ELSE UNCHANGED <<ep, book>>
    /\ UNCHANGED <<kind, venueVars, faults, sess, pc, live, owner, flow, ref, seen>>

-----------------------------------------------------------------------------
(* The periodic refresh. *)

OwnedRisexBook == owner = sess /\ live /\ book.conn /\ book.ok /\ ~Open

\* A book the stream keeps is not read over REST.
Kept ==
    CASE kind = "RISEX" -> OwnedRisexBook
      [] kind = "LIGHTER" -> Open \/ Usable
      [] OTHER -> flow /\ Usable

RefreshAsks ==
    /\ ~ref.on /\ ~Kept
    /\ ref' = [on |-> TRUE, from |-> head, moved |-> FALSE]
    /\ UNCHANGED <<kind, venueVars, faults, sess, pc, bookVars, ep, task, seen>>

\* What the stream did meanwhile: RISEx looks at its session, revisions and
\* recovery, Lighter at its book, Nado at nothing.
Overtaken ==
    CASE kind = "RISEX" -> ref.moved \/ Open
      [] kind = "LIGHTER" -> Usable
      [] OTHER -> FALSE

RefreshAnswered ==
    /\ ref.on
    /\ ref' = NoRefresh
    /\ \/ Overtaken /\ UNCHANGED book
       \/ ~Overtaken /\ \E n \in Answers(ref.from) : book' = Shows(n, RestSequence(n))
    /\ UNCHANGED <<kind, venueVars, faults, sess, pc, live, owner, flow, ep, task, seen>>

-----------------------------------------------------------------------------
Init ==
    /\ kind \in Kinds
    /\ head = 0 /\ on = FALSE /\ asked = 0 /\ wire = <<>> /\ faults = 0
    /\ sess = 1 /\ pc = "down"
    /\ book = [conn |-> FALSE, ok |-> FALSE, seq |-> NoSeq, has |-> {}]
    /\ live = FALSE /\ owner = 0 /\ flow = FALSE
    /\ ep = NoEpisode /\ task = NoTask /\ ref = NoRefresh /\ seen = 0

Read ==
    \/ Refused \/ FirstSnapshot \/ RecoverySnapshot \/ RecoverySnapshotFails
    \/ Buffered \/ Overflow
    \/ DeltaApplied \/ DeltaGap

Next ==
    \/ Change \/ Subscribed
    \/ Connect \/ Fetched \/ Joined \/ Drop \/ Wake \/ Read
    \/ RescueAsks \/ RescueAnswered \/ RescueFails \/ RescueDisplaced \/ RescueWakes
    \/ TimerFires
    \/ RefreshAsks \/ RefreshAnswered

Spec == Init /\ [][Next]_vars

-----------------------------------------------------------------------------
\* A book that is given out shows every change up to one, and its sequence is
\* that one: nothing lost, doubled or late has left a hole in it.
BookIsWhole ==
    book.ok => \E n \in 0..head : book.has = 1..n /\ book.seq \in {NoSeq, n}

\* A RISEx book the socket owns and a Lighter book that may be used are the
\* running socket's, up to the last frame read: no REST book, no older
\* session and no recovery under way has had a hand in them.
StreamBookIsCurrent ==
    (kind = "RISEX" /\ owner # 0) \/ (kind = "LIGHTER" /\ Usable) =>
        /\ pc = "read" /\ ~Open
        /\ live /\ book.conn /\ book.ok /\ book.seq = seen
        /\ kind = "RISEX" => owner = sess

SnapshotComes == asked > 0 \/ \E i \in DOMAIN wire : wire[i].t = "snap"

\* While the socket is read, a book that is not usable has somebody at work on
\* it: a rescue, a timer or a snapshot on its way; only a failed recovery of
\* Lighter or Nado waits for the next session.
SomebodyMends ==
    pc = "read" =>
        /\ kind = "RISEX" => owner = sess \/ SnapshotComes
        /\ kind # "RISEX" /\ Open => Owns /\ task.t # "none"
        /\ kind = "LIGHTER" /\ ep.end \in {"NONE", "COMPLETE"} => Usable \/ SnapshotComes
        /\ kind = "NADO" /\ ep.end \in {"NONE", "COMPLETE"} => Usable
=============================================================================
