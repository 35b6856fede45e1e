------------------------------ MODULE WsSender ------------------------------
(***************************************************************************)
(* WarmTxSender (hood_handoff/ws_sender.py): one warmed WebSocket through  *)
(* which concurrent tasks send signed transactions, one at a time, each    *)
(* waiting for the answer that carries its own request identifier.         *)
(*                                                                         *)
(* A frame handed to the socket may reach the venue at any later moment or *)
(* never, also when the write timed out or raised; the venue may answer    *)
(* late or twice; the connection may end and the sender may be closed at   *)
(* any await.                                                              *)
(***************************************************************************)
EXTENDS Naturals, Sequences, FiniteSets

CONSTANTS
    Calls,       \* the calls of send; each has its own request identifier
    Hashes,      \* signed transactions, named by their hash
    HashOf,      \* the transaction of each call
    NoCall,
    MaxAnswers   \* bound on the frames the venue sends

ASSUME NoCallAssumption == NoCall \notin Calls
ASSUME HashAssumption == HashOf \in [Calls -> Hashes]
ASSUME AnswersAssumption == MaxAnswers \in Nat

\* What an answer frame is to _read: a code in 100..499 with the hash of the
\* transaction or none; error 21602 alone; any other error or code, or a code
\* with the hash of another transaction.
Answers == {"ack", "rejected", "undecidable"}

\* How a call of send ends: it returns "ack" or "rejected", or it raises.
\* "refused" and "expired" are raised before the frame is handed to the socket.
Results == Answers \cup {"none", "refused", "expired", "timeout", "ended", "broken"}

Frames == [id : Calls, answer : Answers]

VARIABLES
    closed,    \* _closed
    reading,   \* the reader task is alive
    socket,    \* _socket is not None
    lock,      \* the holder of _send_lock
    attempted, \* _sent_hashes
    pending,   \* _pending_id, and with it _pending_hash and _pending
    future,    \* the pending future: "none" until it is set
    pc,        \* where each call is
    result,    \* how each call ended
    handed,    \* calls whose frame was handed to the socket
    inflight,  \* calls whose frame may still reach the venue
    received,  \* calls whose frame the venue received
    answers,   \* every frame the venue sent, in order
    read       \* how many of them the reader has read

vars == <<closed, reading, socket, lock, attempted, pending, future, pc,
          result, handed, inflight, received, answers, read>>
wire == <<handed, inflight, received, answers, read>>

Init ==
    /\ closed = FALSE /\ reading = TRUE /\ socket = TRUE
    /\ lock = NoCall
    /\ attempted = {}
    /\ pending = NoCall
    /\ future = "none"
    /\ pc = [c \in Calls |-> "idle"]
    /\ result = [c \in Calls |-> "none"]
    /\ handed = {} /\ inflight = {}
    /\ received = {}
    /\ answers = <<>> /\ read = 0

End(c, how) ==
    /\ pc' = [pc EXCEPT ![c] = "done"]
    /\ result' = [result EXCEPT ![c] = how]

\* The readiness check, made before the lock is awaited.
Enter(c) ==
    /\ pc[c] = "idle"
    /\ IF socket /\ reading /\ ~closed
       THEN /\ pc' = [pc EXCEPT ![c] = "queued"]
            /\ UNCHANGED result
       ELSE End(c, "refused")
    /\ UNCHANGED <<closed, reading, socket, lock, attempted, pending, future, wire>>

\* Mutant of Lock: the hash is not marked before the write.
LockMarkingLate(c) ==
    /\ pc[c] = "queued"
    /\ lock = NoCall
    /\ socket
    /\ HashOf[c] \notin attempted
    /\ lock' = c
    /\ pending' = c /\ future' = "none"
    /\ handed' = handed \cup {c} /\ inflight' = inflight \cup {c}
    /\ pc' = [pc EXCEPT ![c] = "writing"]
    /\ UNCHANGED <<closed, reading, socket, attempted, result, received, answers, read>>

\* With the lock, and no await in between: a passed deadline and a hash that
\* was attempted refuse; otherwise the hash is marked and the request becomes
\* the pending one before the frame is handed to the socket.
Lock(c) ==
    /\ pc[c] = "queued"
    /\ lock = NoCall
    /\ \/ /\ \E why \in {"expired"} \cup (IF HashOf[c] \in attempted THEN {"refused"} ELSE {}) :
                End(c, why)
          /\ UNCHANGED <<lock, attempted, pending, future, handed, inflight>>
       \/ /\ HashOf[c] \notin attempted
          /\ attempted' = attempted \cup {HashOf[c]}
          /\ IF socket
             THEN /\ lock' = c
                  /\ pending' = c /\ future' = "none"
                  /\ handed' = handed \cup {c} /\ inflight' = inflight \cup {c}
                  /\ pc' = [pc EXCEPT ![c] = "writing"]
                  /\ UNCHANGED result
             ELSE /\ End(c, "broken")
                  /\ UNCHANGED <<lock, pending, future, handed, inflight>>
    /\ UNCHANGED <<closed, reading, socket, received, answers, read>>

\* The finally clause of send, and the release of the lock.
Leave(c, how) ==
    /\ End(c, how)
    /\ lock' = NoCall
    /\ pending' = NoCall /\ future' = "none"

Written(c) ==
    /\ pc[c] = "writing"
    /\ pc' = [pc EXCEPT ![c] = "waiting"]
    /\ UNCHANGED <<closed, reading, socket, lock, attempted, pending, future,
                   result, wire>>

\* The write raises or times out: the frame may have left all the same.
WriteFails(c) ==
    /\ pc[c] = "writing"
    /\ \E how \in {"timeout", "broken"} : Leave(c, how)
    /\ UNCHANGED <<closed, reading, socket, attempted, wire>>

\* The answer wait times out only while the future is not set.
WaitExpires(c) ==
    /\ pc[c] = "waiting"
    /\ future = "none"
    /\ Leave(c, "timeout")
    /\ UNCHANGED <<closed, reading, socket, attempted, wire>>

Resume(c) ==
    /\ pc[c] = "waiting"
    /\ future # "none"
    /\ Leave(c, future)
    /\ UNCHANGED <<closed, reading, socket, attempted, wire>>

\* Mutant of Read: the identifier of the frame is not compared.
ReadAnyIdentifier ==
    /\ reading /\ socket
    /\ read < Len(answers)
    /\ read' = read + 1
    /\ future' = IF future = "none" /\ pending # NoCall
                 THEN answers[read + 1].answer
                 ELSE future
    /\ UNCHANGED <<closed, reading, socket, lock, attempted, pending, pc,
                   result, handed, inflight, received, answers>>

\* _read: a frame counts only for a pending future that is not yet set and
\* only under its own identifier; every other frame is dropped.
Read ==
    /\ reading /\ socket
    /\ read < Len(answers)
    /\ read' = read + 1
    /\ future' = IF future = "none" /\ answers[read + 1].id = pending
                 THEN answers[read + 1].answer
                 ELSE future
    /\ UNCHANGED <<closed, reading, socket, lock, attempted, pending, pc,
                   result, handed, inflight, received, answers>>

\* The connection ends: the reader fails the pending future and stops.
ConnectionEnds ==
    /\ reading
    /\ reading' = FALSE
    /\ future' = IF pending # NoCall /\ future = "none" THEN "ended" ELSE future
    /\ UNCHANGED <<closed, socket, lock, attempted, pending, pc, result, wire>>

\* close, up to its first await: the flag, the pending future, the reader.
Close ==
    /\ ~closed
    /\ closed' = TRUE
    /\ future' = IF pending # NoCall /\ future = "none" THEN "ended" ELSE future
    /\ reading' = FALSE
    /\ UNCHANGED <<socket, lock, attempted, pending, pc, result, wire>>

CloseSocket ==
    /\ closed /\ socket
    /\ socket' = FALSE
    /\ UNCHANGED <<closed, reading, lock, attempted, pending, future, pc, result, wire>>

(* The venue (external): receives a handed frame at most once, answers the *)
(* frames it received in any order, and an answer may be sent again.       *)

Receive(c) ==
    /\ c \in inflight
    /\ inflight' = inflight \ {c}
    /\ received' = received \cup {c}
    /\ UNCHANGED <<closed, reading, socket, lock, attempted, pending, future,
                   pc, result, handed, answers, read>>

Answer(c) ==
    /\ c \in received
    /\ Len(answers) < MaxAnswers
    /\ \E a \in Answers : answers' = Append(answers, [id |-> c, answer |-> a])
    /\ UNCHANGED <<closed, reading, socket, lock, attempted, pending, future,
                   pc, result, handed, inflight, received, read>>

Task(c) ==
    \/ Enter(c) \/ Lock(c) \/ Written(c) \/ WriteFails(c) \/ WaitExpires(c) \/ Resume(c)

Next ==
    \/ \E c \in Calls : Task(c) \/ Receive(c) \/ Answer(c)
    \/ Read \/ ConnectionEnds \/ Close \/ CloseSocket

Spec == Init /\ [][Next]_vars

-----------------------------------------------------------------------------
(* Properties.                                                             *)

TypeOK ==
    /\ closed \in BOOLEAN /\ reading \in BOOLEAN /\ socket \in BOOLEAN
    /\ lock \in Calls \cup {NoCall}
    /\ attempted \subseteq Hashes
    /\ pending \in Calls \cup {NoCall}
    /\ future \in Answers \cup {"none", "ended"}
    /\ pc \in [Calls -> {"idle", "queued", "writing", "waiting", "done"}]
    /\ result \in [Calls -> Results]
    /\ handed \subseteq Calls /\ inflight \subseteq Calls
    /\ received \subseteq Calls
    /\ answers \in Seq(Frames)
    /\ read \in 0..Len(answers)

\* A signed transaction is handed to the socket by at most one call, and so
\* reaches the venue at most once: "a failed or canceled write can have reached
\* the peer and must never be replayed by this sender".
NoReplay ==
    \A c, d \in handed : HashOf[c] = HashOf[d] => c = d

\* An answer that send gives its caller is one the venue sent for that very
\* request, also when an earlier request was abandoned and answered late.
AnswerIsOwn ==
    \A c \in Calls : result[c] \in Answers =>
        \E i \in DOMAIN answers : answers[i] = [id |-> c, answer |-> result[c]]
=============================================================================
