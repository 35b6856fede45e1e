------------------------------ MODULE Journal ------------------------------
(***************************************************************************)
(* DurableJournal (hood_handoff/journal.py): the write-ahead JSONL file    *)
(* that decides whether an attempt may send orders, used by the skeleton   *)
(* of HandoffEngine.execute (hood_handoff/engine.py), which opens it,      *)
(* claims its lock, appends, sends after a durable intent, and releases.   *)
(*                                                                         *)
(* Several processes open the same path, each once, under its own run id.  *)
(* A process may die between any two steps and the machine may lose power. *)
(***************************************************************************)
EXTENDS Naturals, Sequences, FiniteSets

CONSTANTS
    Procs,           \* the processes that open the path; each is one run id
    NoProc,          \* "the lock is free"
    MaxPowerLosses,  \* bound on the power losses of a behaviour
    MaxFailures,     \* bound on failed system calls of a behaviour
    EntryMayBeLost   \* may power loss forget the entry of a file whose data
                     \* was synced, when its directory was not?

ASSUME NoProcAssumption  == NoProc \notin Procs
ASSUME BoundsAssumption  == MaxPowerLosses \in Nat /\ MaxFailures \in Nat
ASSUME EntryAssumption   == EntryMayBeLost \in BOOLEAN

\* COMPLETE with outcome UNKNOWN is the event "UNKNOWN"; PREFLIGHT_BLOCKED and
\* PREVIEW, the terminal events without a mutation, are "BLOCKED".
Legs == {"source", "receiver"}
Intent == [source |-> "SOURCE_DISPATCH_INTENT", receiver |-> "RECEIVER_DISPATCH_INTENT"]
Intents == {Intent[leg] : leg \in Legs}
Events == Intents \cup {"STARTED", "DIAGNOSTIC", "BLOCKED", "COMPLETE", "UNKNOWN"}

\* The deferrable ones (EXECUTION_DIAGNOSTICS).
Deferred == {"DIAGNOSTIC"}

Records == [sequence : Nat, run : Procs, event : Events]

\* How the file ends: after a newline, after a whole record whose newline was
\* not written, or in bytes that no longer decode.
Ends == {"clean", "unterminated", "torn"}

Images == [exists : BOOLEAN, lines : Seq(Records), end : Ends]

NoFile == [exists |-> FALSE, lines |-> <<>>, end |-> "clean"]

VARIABLES
    file,      \* the file as processes read it (page cache)
    stable,    \* the image that data syncs made durable
    entry,     \* is the file's directory entry durable?
    owner,     \* the process that holds the attempt lock
    pc,        \* where each process is
    next,      \* where it goes when its flush has succeeded
    sequence,  \* DurableJournal._sequence
    pending,   \* DurableJournal._pending: enqueued, not flushed
    failed,    \* DurableJournal._write_failed
    created,   \* this flush created the file
    cancels,   \* how often the task was cancelled while its worker flushed
    worker,    \* where a worker is for which its task no longer waits
    batch,     \* what was queued when the task stopped waiting
    subject,   \* the run a process writes about: its own or the resumed one
    sent,      \* the orders each process sent (what the venue saw)
    losses, failures

writerVars == <<sequence, pending, failed, created, subject>>
workerVars == <<cancels, worker, batch>>
vars == <<file, stable, entry, owner, pc, next, sent, losses, failures,
          writerVars, workerVars>>

-----------------------------------------------------------------------------
(* What a reader of the file finds.                                        *)

Readable(f) == f.end # "torn"

ToRange(s) == {s[i] : i \in DOMAIN s}

\* _read_last_sequence: the greatest sequence of the decodable lines.
LastSequence(f) ==
    IF f.lines = <<>> THEN 0
    ELSE CHOOSE n \in {r.sequence : r \in ToRange(f.lines)} :
            \A r \in ToRange(f.lines) : r.sequence <= n

HasEvent(s, run, event) ==
    \E i \in DOMAIN s : s[i].run = run /\ s[i].event = event

\* The last event recorded for a run.
LastEvent(s, run) ==
    LET mine == {i \in DOMAIN s : s[i].run = run}
    IN  s[CHOOSE i \in mine : \A j \in mine : j <= i].event

\* A run with a dispatch intent whose last event is no terminal one.
Unresolved(s, run) ==
    /\ \E intent \in Intents : HasEvent(s, run, intent)
    /\ LastEvent(s, run) \notin {"BLOCKED", "COMPLETE"}

UnresolvedRuns(s) == {run \in Procs : Unresolved(s, run)}

\* Mutant of CompletedMutation: a proven outcome is not looked at.
CompletedOnlyUnknown(s) == \E run \in Procs : HasEvent(s, run, "UNKNOWN")

\* COMPLETE counts whatever its outcome, UNKNOWN included.
CompletedMutation(s) ==
    \E run \in Procs : HasEvent(s, run, "COMPLETE") \/ HasEvent(s, run, "UNKNOWN")

-----------------------------------------------------------------------------
Init ==
    /\ file = NoFile /\ stable = NoFile /\ entry = FALSE
    /\ owner = NoProc
    /\ pc = [p \in Procs |-> "new"]
    /\ next = [p \in Procs |-> "release"]
    /\ sequence = [p \in Procs |-> 0]
    /\ pending = [p \in Procs |-> <<>>]
    /\ failed = [p \in Procs |-> FALSE]
    /\ created = [p \in Procs |-> FALSE]
    /\ cancels = [p \in Procs |-> 0]
    /\ worker = [p \in Procs |-> "none"]
    /\ batch = [p \in Procs |-> <<>>]
    /\ subject = [p \in Procs |-> p]
    /\ sent = {}
    /\ losses = 0 /\ failures = 0

Sending == [source |-> "send_source", receiver |-> "send_receiver"]
Answered == [source |-> "source_answered", receiver |-> "receiver_answered"]

Goto(p, where) == pc' = [pc EXCEPT ![p] = where]

\* The constructor reads the last sequence; an undecodable file refuses.
Construct(p) ==
    /\ pc[p] = "new"
    /\ IF Readable(file)
       THEN /\ sequence' = [sequence EXCEPT ![p] = LastSequence(file)]
            /\ Goto(p, "open")
       ELSE /\ Goto(p, "done")
            /\ UNCHANGED sequence
    /\ UNCHANGED <<file, stable, entry, owner, next, pending, failed, created,
                   workerVars, subject, sent, losses, failures>>

\* Mutant of Acquire: the sequence read by the constructor is kept.
AcquireKeepingSequence(p) ==
    /\ pc[p] = "open"
    /\ owner = NoProc /\ Readable(file)
    /\ owner' = p
    /\ Goto(p, "claimed")
    /\ UNCHANGED <<file, stable, entry, next, workerVars, sent, losses,
                   failures, writerVars>>

\* acquire_attempt: a non-blocking flock, then the sequence is read again
\* under the lock; a file that became undecodable gives the lock back.
Acquire(p) ==
    /\ pc[p] = "open"
    /\ IF owner = NoProc /\ Readable(file)
       THEN /\ owner' = p
            /\ sequence' = [sequence EXCEPT ![p] = LastSequence(file)]
            /\ Goto(p, "claimed")
       ELSE /\ Goto(p, "done")
            /\ UNCHANGED <<owner, sequence>>
    /\ UNCHANGED <<file, stable, entry, next, pending, failed, created,
                   workerVars, subject, sent, losses, failures>>

\* _enqueue: the record takes the next sequence number.
Enqueued(p, run, event) ==
    /\ ~failed[p]
    /\ sequence' = [sequence EXCEPT ![p] = @ + 1]
    /\ pending' = [pending EXCEPT ![p] = Append(@,
            [sequence |-> sequence[p] + 1, run |-> run, event |-> event])]

\* append: enqueue, then flush the whole queue before going on to `then`.
AppendFlush(p, run, event, then) ==
    /\ Enqueued(p, run, event)
    /\ next' = [next EXCEPT ![p] = then]
    /\ Goto(p, "write")

(* The attempt: _execute_locked reads the journal under the lock.          *)

\* An unresolved run is only reconciled, and a path that completed refuses, as
\* does one that an abandoned worker made undecodable since the claim.
Admit(p) ==
    /\ pc[p] = "claimed"
    /\ \/ /\ ~Readable(file)
          /\ Goto(p, "release")
          /\ UNCHANGED <<next, sequence, pending, subject>>
       \/ /\ Readable(file)
          /\ UnresolvedRuns(file.lines) # {}
          /\ \E run \in UnresolvedRuns(file.lines) :
                subject' = [subject EXCEPT ![p] = run]
          /\ Goto(p, "resume")
          /\ UNCHANGED <<next, sequence, pending>>
       \/ /\ Readable(file)
          /\ UnresolvedRuns(file.lines) = {}
          /\ CompletedMutation(file.lines)
          /\ Goto(p, "release")
          /\ UNCHANGED <<next, sequence, pending, subject>>
       \/ /\ Readable(file)
          /\ UnresolvedRuns(file.lines) = {}
          /\ ~CompletedMutation(file.lines)
          /\ AppendFlush(p, p, "STARTED", "preflight")
          /\ UNCHANGED subject
    /\ UNCHANGED <<file, stable, entry, owner, failed, created, workerVars,
                   sent, losses, failures>>

\* A refused preflight or a preview is terminal; a diagnostic is deferred: it
\* is queued and reaches the disk with the next record that flushes.
Preflight(p) ==
    /\ pc[p] = "preflight"
    /\ \/ AppendFlush(p, p, "BLOCKED", "release")
       \/ AppendFlush(p, p, Intent["source"], Sending["source"])
       \/ /\ \A i \in DOMAIN pending[p] : pending[p][i].event \notin Deferred
          /\ Enqueued(p, p, "DIAGNOSTIC")
          /\ UNCHANGED <<next, pc>>
    /\ UNCHANGED <<file, stable, entry, owner, failed, created, workerVars,
                   subject, sent, losses, failures>>

\* A mutation leaves only after the flush of its intent has returned.
Send(p, leg) ==
    /\ pc[p] = Sending[leg]
    /\ sent' = sent \cup {<<p, leg>>}
    /\ Goto(p, Answered[leg])
    /\ UNCHANGED <<file, stable, entry, owner, next, workerVars, losses,
                   failures, writerVars>>

\* Mutant of IntendReceiver: the intent is deferred like a diagnostic.
IntendReceiverDeferred(p) ==
    /\ pc[p] = Answered["source"]
    /\ Enqueued(p, p, Intent["receiver"])
    /\ Goto(p, Sending["receiver"])
    /\ UNCHANGED <<file, stable, entry, owner, next, failed, created,
                   workerVars, subject, sent, losses, failures>>

\* The admitted pair goes on to its second order, in an asynchronous flush.
IntendReceiver(p) ==
    /\ pc[p] = Answered["source"]
    /\ AppendFlush(p, p, Intent["receiver"], Sending["receiver"])
    /\ UNCHANGED <<file, stable, entry, owner, failed, created, workerVars,
                   subject, sent, losses, failures>>

\* A dispatched or a resumed run ends in COMPLETE, with its evidence or UNKNOWN.
Complete(p) ==
    /\ pc[p] \in {Answered[leg] : leg \in Legs} \cup {"resume"}
    /\ \E event \in {"COMPLETE", "UNKNOWN"} :
          AppendFlush(p, subject[p], event, "release")
    /\ UNCHANGED <<file, stable, entry, owner, failed, created, workerVars,
                   subject, sent, losses, failures>>

(* _flush_pending: create or open for append, write, fsync, then fsync the *)
(* parent directory when the file was created here.                        *)

\* Whole records appended to an image; a record appended after one without
\* its newline fuses with it, and the line no longer decodes.
Extended(f, records, end) ==
    IF records = <<>> /\ end = "clean" THEN [f EXCEPT !.exists = TRUE]
    ELSE IF f.end = "clean"
    THEN [exists |-> TRUE, lines |-> f.lines \o records, end |-> end]
    ELSE [f EXCEPT !.end = "torn"]

\* What a flush of the process may write: the queue, and, while another flush
\* of the same queue may empty it, what it found there before.
Joined(p) == IF cancels[p] = 2 THEN {pending[p], batch[p]} ELSE {pending[p]}

\* A short write leaves some whole records and part of the following one.
WrittenShort(records) ==
    \E n \in 0..Len(records), end \in Ends :
        /\ n = 0 => end # "unterminated"
        /\ n = Len(records) => end = "unterminated"
        /\ file' = Extended(file, SubSeq(records, 1, n), end)

Write(p) ==
    /\ pc[p] = "write"
    /\ created' = [created EXCEPT ![p] = ~file.exists]
    /\ \E records \in Joined(p) : file' = Extended(file, records, "clean")
    /\ Goto(p, "fsync")
    /\ UNCHANGED <<stable, entry, owner, next, sequence, pending, failed,
                   workerVars, subject, sent, losses, failures>>

\* Any failure of a flush poisons this writer and ends its attempt.
Poison(p) ==
    /\ failures < MaxFailures
    /\ failures' = failures + 1
    /\ failed' = [failed EXCEPT ![p] = TRUE]
    /\ Goto(p, "release")

WriteFails(p) ==
    /\ pc[p] = "write"
    /\ Poison(p)
    /\ \E records \in Joined(p) : WrittenShort(records)
    /\ created' = [created EXCEPT ![p] = ~file.exists]
    /\ UNCHANGED <<stable, entry, owner, next, sequence, pending, workerVars,
                   subject, sent, losses>>

\* What the attempt does once a flush returns: a cancelled one only releases.
Flushed(p) ==
    /\ pending' = [pending EXCEPT ![p] = <<>>]
    /\ Goto(p, IF cancels[p] > 0 THEN "release" ELSE next[p])

Fsync(p) ==
    /\ pc[p] = "fsync"
    /\ stable' = file
    /\ IF created[p] THEN Goto(p, "fsyncdir") /\ UNCHANGED pending
                     ELSE Flushed(p)
    /\ UNCHANGED <<file, entry, owner, next, sequence, failed, created,
                   workerVars, subject, sent, losses, failures>>

FsyncDir(p) ==
    /\ pc[p] = "fsyncdir"
    /\ entry' = TRUE
    /\ Flushed(p)
    /\ UNCHANGED <<file, stable, owner, next, sequence, failed, created,
                   workerVars, subject, sent, losses, failures>>

FsyncFails(p) ==
    /\ pc[p] \in {"fsync", "fsyncdir"}
    /\ Poison(p)
    /\ UNCHANGED <<file, stable, entry, owner, next, sequence, pending,
                   created, workerVars, subject, sent, losses>>

\* append_many_async: a cancelled task drains the worker that flushes.
Flushing == {"write", "fsync", "fsyncdir"}

\* Mutant of Cancel: the cancelled task unlocks while its worker still flushes.
CancelUndrained(p) ==
    /\ pc[p] \in Flushing
    /\ next[p] = Sending["receiver"]
    /\ cancels[p] = 0
    /\ cancels' = [cancels EXCEPT ![p] = 1]
    /\ owner' = NoProc
    /\ UNCHANGED <<file, stable, entry, pc, next, worker, batch, sent, losses,
                   failures, writerVars>>

Cancel(p) ==
    /\ pc[p] \in Flushing
    /\ next[p] = Sending["receiver"]
    /\ cancels[p] = 0
    /\ cancels' = [cancels EXCEPT ![p] = 1]
    /\ UNCHANGED <<file, stable, entry, owner, pc, next, worker, batch, sent,
                   losses, failures, writerVars>>

\* A second cancellation reaches `await task`: the drain is given up.  A worker
\* that did not begin is cancelled with it; one that did goes on by itself.  The
\* file exists since the source's intent, so no directory is synced.  A third
\* one finds the task on its way out already.
CancelDraining(p) ==
    /\ pc[p] \in {"write", "fsync"}
    /\ next[p] = Sending["receiver"]
    /\ cancels[p] = 1
    /\ cancels' = [cancels EXCEPT ![p] = 2]
    /\ \E left \in {pc[p]} \cup (IF pc[p] = "write" THEN {"none"} ELSE {}) :
          worker' = [worker EXCEPT ![p] = left]
    /\ batch' = [batch EXCEPT ![p] = pending[p]]
    /\ Goto(p, "release")
    /\ UNCHANGED <<file, stable, entry, owner, next, sent, losses, failures,
                   writerVars>>

(* The worker whose task left it: the rest of its flush, beside the flush  *)
(* of release_attempt and beside the attempts of other processes.          *)

WorkerLeaves(p) == worker' = [worker EXCEPT ![p] = "none"]

WorkerWrites(p) ==
    /\ worker[p] = "write"
    /\ \/ /\ \E records \in Joined(p) : file' = Extended(file, records, "clean")
          /\ worker' = [worker EXCEPT ![p] = "fsync"]
       \/ /\ pending[p] = <<>>
          /\ WorkerLeaves(p)
          /\ UNCHANGED file
    /\ UNCHANGED <<stable, entry, owner, pc, next, cancels, batch, sent, losses,
                   failures, writerVars>>

WorkerSyncs(p) ==
    /\ worker[p] = "fsync"
    /\ stable' = file
    /\ pending' = [pending EXCEPT ![p] = <<>>]
    /\ WorkerLeaves(p)
    /\ UNCHANGED <<file, entry, owner, pc, next, sequence, failed, created, subject,
                   cancels, batch, sent, losses, failures>>

WorkerFails(p) ==
    /\ worker[p] # "none"
    /\ failures < MaxFailures
    /\ failures' = failures + 1
    /\ failed' = [failed EXCEPT ![p] = TRUE]
    /\ IF worker[p] = "write" THEN \E records \in Joined(p) : WrittenShort(records)
                             ELSE UNCHANGED file
    /\ WorkerLeaves(p)
    /\ UNCHANGED <<stable, entry, owner, pc, next, sequence, pending, created, subject,
                   cancels, batch, sent, losses>>

\* release_attempt: flush what is queued unless poisoned, then unlock.
Release(p) ==
    /\ pc[p] = "release"
    /\ IF ~failed[p] /\ pending[p] # <<>>
       THEN /\ Goto(p, "write")
            /\ next' = [next EXCEPT ![p] = "release"]
            /\ UNCHANGED owner
       ELSE /\ owner' = NoProc
            /\ Goto(p, "done")
            /\ UNCHANGED next
    /\ UNCHANGED <<file, stable, entry, sent, losses, failures, writerVars,
                   workerVars>>

(* The environment.                                                        *)

Alive(p) == pc[p] \notin {"new", "done"}

\* The process dies: its descriptors close, so its flock is released; what it
\* wrote stays in the page cache.
Crash(p) ==
    /\ Alive(p) \/ worker[p] # "none"
    /\ WorkerLeaves(p)
    /\ Goto(p, "done")
    /\ owner' = IF owner = p THEN NoProc ELSE owner
    /\ UNCHANGED <<file, stable, entry, next, cancels, batch, sent, losses,
                   failures, writerVars>>

\* What power loss may leave between the durable image and the cached one.
Survivors ==
    LET n == Len(stable.lines) IN
    {stable}
    \cup {[exists |-> TRUE, lines |-> SubSeq(file.lines, 1, k), end |-> e] :
             k \in (n + 1)..Len(file.lines), e \in Ends}
    \cup (IF file # stable THEN {[stable EXCEPT !.exists = TRUE, !.end = "torn"]}
                           ELSE {})
    \cup (IF EntryMayBeLost /\ ~entry THEN {NoFile} ELSE {})

\* Every live process dies and the machine restarts from a surviving image.
PowerLoss ==
    /\ losses < MaxPowerLosses
    /\ losses' = losses + 1
    /\ file' \in Survivors
    /\ stable' = file'
    /\ entry' = file'.exists
    /\ owner' = NoProc
    /\ pc' = [p \in Procs |-> IF Alive(p) THEN "done" ELSE pc[p]]
    /\ worker' = [p \in Procs |-> "none"]
    /\ UNCHANGED <<next, cancels, batch, sent, failures, writerVars>>

Step(p) ==
    \/ Construct(p) \/ Acquire(p) \/ Admit(p) \/ Preflight(p)
    \/ (\E leg \in Legs : Send(p, leg)) \/ IntendReceiver(p) \/ Complete(p)
    \/ Write(p) \/ Fsync(p) \/ FsyncDir(p) \/ Release(p)

Worker(p) == WorkerWrites(p) \/ WorkerSyncs(p) \/ WorkerFails(p)

Fault(p) ==
    WriteFails(p) \/ FsyncFails(p) \/ Cancel(p) \/ CancelDraining(p) \/ Crash(p)

Next == PowerLoss \/ \E p \in Procs : Step(p) \/ Worker(p) \/ Fault(p)

Spec == Init /\ [][Next]_vars

-----------------------------------------------------------------------------
(* Properties.                                                             *)

Places == {"new", "open", "claimed", "preflight", "resume", "release", "done",
           "write", "fsync", "fsyncdir", "send_source", "send_receiver",
           "source_answered", "receiver_answered"}

TypeOK ==
    /\ file \in Images /\ stable \in Images /\ entry \in BOOLEAN
    /\ owner \in Procs \cup {NoProc}
    /\ pc \in [Procs -> Places]
    /\ next \in [Procs -> Places]
    /\ sequence \in [Procs -> Nat]
    /\ pending \in [Procs -> Seq(Records)]
    /\ failed \in [Procs -> BOOLEAN]
    /\ created \in [Procs -> BOOLEAN]
    /\ cancels \in [Procs -> 0..2]
    /\ worker \in [Procs -> {"none", "write", "fsync"}]
    /\ batch \in [Procs -> Seq(Records)]
    /\ subject \in [Procs -> Procs]
    /\ sent \subseteq Procs \X Legs
    /\ losses \in Nat /\ failures \in Nat

\* The runs whose task was cancelled again while it drained its worker.
Abandoned == {p \in Procs : cancels[p] = 2}

\* The sequence numbers of the file strictly increase, whichever processes
\* wrote it and however their attempts ended: acquire_attempt refreshes the
\* sequence under the lock "so the next durable append cannot reuse" one.  The
\* records of an abandoned run are excepted: release_attempt flushes the queue
\* that its worker flushes too, and may unlock before that one has written.
SequencesIncrease ==
    \A i, j \in DOMAIN file.lines :
        i < j => \/ file.lines[i].sequence < file.lines[j].sequence
                 \/ file.lines[i].run \in Abandoned \/ file.lines[j].run \in Abandoned

\* A flush runs only under the attempt lock, also when the task that asked for
\* it was cancelled (append_many_async drains its worker before the release).
\* Only a second cancellation leaves a flush without the lock, and then the
\* order that it was to authorise never leaves.
FlushHoldsLock ==
    \A p \in Procs :
        pc[p] \in Flushing \/ worker[p] # "none" =>
            owner = p \/ (p \in Abandoned /\ <<p, "receiver">> \notin sent)

\* Whatever a process sent, the image that power loss leaves either records it
\* as an intent or no longer decodes, so that every later attempt refuses: the
\* flush returns before the mutation call proceeds.
SentIsDurable ==
    \A e \in sent :
        HasEvent(stable.lines, e[1], Intent[e[2]]) \/ ~Readable(stable)

\* At most one process ever sends under one journal path, whatever crashes,
\* failed writes, cancellations and power losses come between: the others
\* find an unresolved or a completed run, or an undecodable file.
NoReplay ==
    \A a, b \in sent : a[1] = b[1]

\* The comment in _flush_pending: "The first mutation must survive loss of the
\* new directory entry, not merely loss of the file's cached data."
FirstMutationSurvivesEntryLoss ==
    sent # {} => entry

\* The comment in _flush_pending on a short or failed append: "Preserve that
\* prefix and prevent any later mutation from treating the journal as a
\* trustworthy append stream."  No mutation leaves under an undecodable file.
NoSendUnderUndecodableJournal ==
    [][sent' # sent => Readable(file)]_vars
=============================================================================
