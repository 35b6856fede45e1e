---------------------------- MODULE StreamEvidence ----------------------------
(***************************************************************************)
(* The evidence file of a read stream: rows offered without waiting to a   *)
(* bounded queue, a writer task that hands batches to a thread, and a      *)
(* close that drains, seals and gives the descriptor back.  The disk may   *)
(* be slow, a write may fail, and whoever owns the session may cancel it   *)
(* at any of its awaits, more than once: wait_for in stop_read_stream      *)
(* hands on the cancellation of its caller and has a timer of its own.     *)
(* The waits of close differ between Python 3.11 and 3.12, whose wait_for  *)
(* keeps its timer armed after a cancellation: both are allowed.           *)
(***************************************************************************)
EXTENDS Integers, Sequences

CONSTANTS
    MaxRecords,   \* max_records
    QueueSize,    \* queue_size
    BatchSize,    \* rows a batch of the writer holds
    MaxOffers,    \* rows the session offers, a bound of the model
    MaxCancels    \* cancellations from outside, a bound of the model

End == 0    \* the None that close puts in the queue

VARIABLES
    queue, accepted, dropped, failed, closed,
    fd,        \* "none", "open" or "closed"
    writer,    \* "none", "waiting", "writing", "draining", "done" or "dead"
    ended,     \* the writer's batch met the end of the queue
    session,   \* where the task of ReadStreamSession.run is; "abandoned": it
               \* has left close without giving the descriptor back
    reason,    \* why it closes: "stopped" or "other"
    cancels,   \* how often it was cancelled
    interrupted, \* how often whoever waits for the thread was (ghost)
    thread,    \* "idle", "running", "ok" or "bad"
    job,       \* what the thread writes: rows, and the seal after it
    disk,      \* the rows in the file, in order
    seal,      \* the session_end in the file
    offered    \* rows offered so far

book == <<queue, accepted, dropped, offered>>
file == <<fd, thread, job, disk, seal>>
waits == <<cancels, interrupted>>
evidence == <<book, failed, closed, writer, ended, session, reason, waits, file>>

NoSeal == [complete |-> FALSE, rows |-> 0]
NoJob == [rows |-> <<>>, seal |-> NoSeal]

Init ==
    /\ queue = <<>> /\ accepted = 0 /\ dropped = 0 /\ offered = 0
    /\ failed = FALSE /\ closed = FALSE
    /\ fd = "none" /\ writer = "none" /\ ended = FALSE
    /\ session = "new" /\ reason = "other" /\ cancels = 0 /\ interrupted = 0
    /\ thread = "idle" /\ job = NoJob /\ disk = <<>> /\ seal = NoSeal

-----------------------------------------------------------------------------
(***************************************************************************)
(* The disk: a thread that nothing interrupts.                             *)
(***************************************************************************)

\* What `_write_rows` handed over reaches the file, or the write fails;
\* a seal that was written may still fail its fsync.  (Under a descriptor
\* that was closed meanwhile it is one or the other, too.)
ThreadEnds ==
    /\ thread = "running"
    /\ \/ thread' = "ok" /\ disk' = disk \o job.rows /\ seal' = job.seal
       \/ thread' = "bad" /\ UNCHANGED disk /\ seal' \in {seal, job.seal}
    /\ UNCHANGED <<book, failed, closed, writer, ended, session, reason, waits, fd, job>>

-----------------------------------------------------------------------------
(***************************************************************************)
(* The producer: the stream's events and the engine's milestones.          *)
(***************************************************************************)

\* Mutant: a full queue loses a row that nobody counts.
OfferQuietly(safe) ==
    LET lost == \/ ~safe \/ closed \/ failed \/ writer = "none"
                \/ accepted >= MaxRecords \/ Len(queue) = QueueSize
    IN  /\ session # "new" /\ offered < MaxOffers
        /\ offered' = offered + 1
        /\ IF lost
           THEN /\ dropped' = (IF Len(queue) = QueueSize THEN dropped ELSE dropped + 1)
                /\ UNCHANGED <<queue, accepted>>
           ELSE /\ queue' = Append(queue, offered') /\ accepted' = accepted + 1
                /\ UNCHANGED dropped
        /\ UNCHANGED <<failed, closed, writer, ended, session, reason, waits, file>>

\* offer, offer_milestone and _offer_row: never waits, counts what it loses.
Offer(safe) ==
    LET lost == \/ ~safe \/ closed \/ failed \/ writer = "none"
                \/ accepted >= MaxRecords \/ Len(queue) = QueueSize
    IN  /\ session # "new" /\ offered < MaxOffers
        /\ offered' = offered + 1
        /\ IF lost THEN dropped' = dropped + 1 /\ UNCHANGED <<queue, accepted>>
           ELSE /\ queue' = Append(queue, offered') /\ accepted' = accepted + 1
                /\ UNCHANGED dropped
        /\ UNCHANGED <<failed, closed, writer, ended, session, reason, waits, file>>

-----------------------------------------------------------------------------
(***************************************************************************)
(* The writer task.                                                        *)
(***************************************************************************)

\* _drain: what is queued goes to the thread, BatchSize rows at most; nothing
\* comes after the end.
WriterTakes ==
    LET n == IF Len(queue) < BatchSize THEN Len(queue) ELSE BatchSize
        last == queue[n] = End
        rows == SubSeq(queue, 1, IF last THEN n - 1 ELSE n)
    IN  /\ writer = "waiting" /\ queue # <<>>
        /\ queue' = SubSeq(queue, n + 1, Len(queue)) /\ ended' = last
        /\ IF rows = <<>> THEN writer' = "done" /\ UNCHANGED <<thread, job, interrupted>>
           ELSE /\ writer' = "writing" /\ thread' = "running"
                /\ job' = [NoJob EXCEPT !.rows = rows] /\ interrupted' = 0
        /\ UNCHANGED <<accepted, dropped, offered, failed, closed, session, reason, cancels>>
        /\ UNCHANGED <<fd, disk, seal>>

\* _drain, when the thread is back; a cancelled one only waited for it.
WriterWritten ==
    /\ writer \in {"writing", "draining"} /\ thread \in {"ok", "bad"}
    /\ thread' = "idle" /\ job' = NoJob
    /\ writer' = (IF writer = "draining" \/ thread = "bad" THEN "dead"
                  ELSE IF ended THEN "done" ELSE "waiting")
    /\ failed' = (failed \/ writer' = "dead")
    /\ UNCHANGED <<book, closed, ended, session, reason, waits, fd, disk, seal>>

\* Mutant: a cancelled write is left to its thread.
WriterCancelledAtOnce ==
    /\ writer' = (IF writer \in {"waiting", "writing", "draining"} THEN "dead" ELSE writer)
    /\ interrupted' = interrupted + (IF writer \in {"writing", "draining"} THEN 1 ELSE 0)
    /\ failed' = TRUE

\* The writer is cancelled: at the queue at once, in a write after it - but
\* a second time ends the wait for the thread.
WriterCancelled ==
    /\ writer' = (CASE writer \in {"waiting", "draining"} -> "dead"
                    [] writer = "writing" -> "draining"
                    [] OTHER -> writer)
    /\ interrupted' = interrupted + (IF writer \in {"writing", "draining"} THEN 1 ELSE 0)
    /\ failed' = TRUE

-----------------------------------------------------------------------------
(***************************************************************************)
(* The session: start, read, close.                                        *)
(***************************************************************************)

\* start: the file is created and its first row written through.
StartFile ==
    /\ session = "new"
    /\ session' = "starting" /\ fd' = "open" /\ thread' = "running"
    /\ UNCHANGED <<book, failed, closed, writer, ended, reason, waits, job, disk, seal>>

\* start, when the thread is back: the writer begins, or the descriptor is
\* given back and the close of a file that never began does nothing.
Started ==
    /\ session \in {"starting", "startDraining"} /\ thread \in {"ok", "bad"}
    /\ thread' = "idle"
    /\ IF session = "starting" /\ thread = "ok"
       THEN session' = "reading" /\ writer' = "waiting" /\ UNCHANGED <<fd, closed>>
       ELSE session' = "over" /\ fd' = "closed" /\ closed' = TRUE /\ UNCHANGED writer
    /\ UNCHANGED <<book, failed, ended, reason, waits, job, disk, seal>>

\* run, finally: close begins, and waits for room for the end or, when the
\* writer is already dead, for the writer.
Close(why) ==
    /\ session = "reading"
    /\ session' = (IF writer = "dead" THEN "joining" ELSE "putting")
    /\ closed' = TRUE /\ reason' = why
    /\ UNCHANGED <<book, failed, writer, ended, waits, file>>

Put ==
    /\ session = "putting" /\ Len(queue) < QueueSize
    /\ queue' = Append(queue, End) /\ session' = "joining"
    /\ UNCHANGED <<accepted, dropped, offered, failed, closed, writer, ended, reason, waits, file>>

\* Mutant: nothing bounds the wait for room in the queue.
CloseWaitsForRoom ==
    /\ \/ session = "joining" /\ writer \in {"waiting", "writing"}
       \/ session = "leaving" /\ writer = "draining"
    /\ session' = "unwinding"
    /\ WriterCancelled
    /\ UNCHANGED <<book, closed, ended, reason, cancels, file>>

\* The three and the five seconds of close: the writer is cancelled, by the
\* finally or by wait_for, which may be armed still after a cancellation.
CloseTimesOut ==
    /\ \/ session = "putting" /\ Len(queue) = QueueSize /\ session' = "gathering"
       \/ /\ \/ session = "joining" /\ writer \in {"waiting", "writing"}
             \/ session = "leaving" /\ writer = "draining"
          /\ session' = "unwinding"
    /\ WriterCancelled
    /\ UNCHANGED <<book, closed, ended, reason, cancels, file>>

\* What close gives back.
Release ==
    /\ session' = "over" /\ fd' = "closed" /\ writer' = "none"

\* Mutant: the seal is complete whenever the writer ended well.
JoinedProudly ==
    /\ session = "joining" /\ writer \in {"done", "dead"}
    /\ IF writer = "done"
       THEN /\ session' = "sealing" /\ thread' = "running" /\ interrupted' = 0
            /\ job' = [NoJob EXCEPT !.seal = [complete |-> reason = "stopped", rows |-> offered]]
            /\ UNCHANGED <<fd, writer, failed>>
       ELSE Release /\ failed' = TRUE /\ UNCHANGED <<thread, job, interrupted>>
    /\ UNCHANGED <<book, closed, ended, reason, cancels, disk, seal>>

\* close: a writer that ended well is sealed, a dead one is not.
Joined ==
    /\ session = "joining" /\ writer \in {"done", "dead"}
    /\ IF writer = "done"
       THEN /\ session' = "sealing" /\ thread' = "running" /\ interrupted' = 0
            /\ job' = [NoJob EXCEPT !.seal = [complete |-> dropped = 0 /\ reason = "stopped",
                                             rows |-> offered]]
            /\ UNCHANGED <<fd, writer, failed>>
       ELSE Release /\ failed' = TRUE /\ UNCHANGED <<thread, job, interrupted>>
    /\ UNCHANGED <<book, closed, ended, reason, cancels, disk, seal>>

Sealed ==
    /\ session \in {"sealing", "sealDraining"} /\ thread \in {"ok", "bad"}
    /\ thread' = "idle" /\ Release
    /\ failed' = (failed \/ thread = "bad" \/ session = "sealDraining")
    /\ UNCHANGED <<book, closed, ended, reason, waits, job, disk, seal>>

\* close, finally: the cancelled writer is waited for before the descriptor
\* is given back - unless that wait was cancelled itself.
Unwound ==
    /\ session \in {"leaving", "unwinding", "gathering", "quitting"} /\ writer \in {"done", "dead"}
    /\ IF session = "quitting" THEN session' = "abandoned" /\ UNCHANGED <<fd, writer>> ELSE Release
    /\ failed' = TRUE
    /\ UNCHANGED <<book, closed, ended, reason, waits, thread, job, disk, seal>>

\* A cancellation of the session where it waits for its own thread.
Interrupt ==
    /\ interrupted' = interrupted + 1
    /\ \/ /\ session \in {"starting", "sealing"}
          /\ session' = (IF session = "starting" THEN "startDraining" ELSE "sealDraining")
          /\ UNCHANGED <<closed, failed, fd, writer>>
       \/ /\ session \in {"startDraining", "sealDraining"}
          /\ Release /\ closed' = TRUE /\ failed' = (failed \/ session = "sealDraining")
    /\ UNCHANGED reason

\* The same where close waits for the writer: at the queue; in wait_for; in
\* the finally, whose own wait then never comes to the descriptor.
Unsettle ==
    /\ \/ session = "putting" /\ session' = "gathering"
       \/ session = "joining" /\ session' = "leaving"
       \/ session \in {"leaving", "unwinding"} /\ session' \in {"unwinding", "gathering"}
       \/ session \in {"gathering", "quitting"} /\ session' = "quitting"
    /\ WriterCancelled
    /\ UNCHANGED <<closed, reason, fd>>

\* stop_read_stream after its five seconds, or its caller: wherever the
\* session's task waits.  In run's finally, at the lock of the state, it
\* skips close altogether.
Cancel ==
    /\ cancels < MaxCancels /\ cancels' = cancels + 1
    /\ \/ Interrupt
       \/ Unsettle
       \/ /\ session = "reading"
          /\ \/ /\ closed' = TRUE /\ reason' = "other"
                /\ session' = (IF writer = "dead" THEN "joining" ELSE "putting")
             \/ session' = "abandoned" /\ UNCHANGED <<closed, reason>>
          /\ UNCHANGED <<writer, failed, fd, interrupted>>
    /\ UNCHANGED <<book, ended, thread, job, disk, seal>>

-----------------------------------------------------------------------------
SessionStep ==
    Started \/ Put \/ CloseTimesOut \/ Joined \/ Sealed \/ Unwound

Next ==
    \/ ThreadEnds \/ WriterTakes \/ WriterWritten
    \/ \E safe \in BOOLEAN : Offer(safe)
    \/ StartFile \/ SessionStep \/ Cancel
    \/ \E why \in {"stopped", "other"} : Close(why)

\* The loop runs the tasks, the disk answers in the end, and a session lives
\* no longer than its lifetime.
Fairness ==
    /\ WF_evidence(ThreadEnds) /\ WF_evidence(WriterTakes \/ WriterWritten)
    /\ WF_evidence(SessionStep)
    /\ WF_evidence(\E why \in {"stopped", "other"} : Close(why))

Spec == Init /\ [][Next]_evidence /\ Fairness

-----------------------------------------------------------------------------
\* A file that calls itself complete holds every row that was offered until
\* it said so, in order.
SealIsTrue == seal.complete => disk = [n \in 1..seal.rows |-> n]

\* The descriptor is given back under a thread that writes to it only when
\* the wait for that thread was interrupted twice, and never by the time
\* limits of close alone ("Drain uncancellable disk IO before close can
\* reuse the descriptor": one interruption is drained, a second is not).
DescriptorIsIdle ==
    fd = "closed" /\ thread = "running" => interrupted >= 2 /\ cancels > 0

EvidenceIsTrue == SealIsTrue /\ DescriptorIsIdle

\* Once begun, a session ends and gives the descriptor back, however slow
\* the disk; it ends without that only when it was cancelled.
SessionEnds ==
    session # "new" ~> \/ session = "over" /\ fd = "closed"
                       \/ session = "abandoned" /\ cancels > 0
=============================================================================
