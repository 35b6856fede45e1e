------------------------------ MODULE SdkProofs -----------------------------
(***************************************************************************)
(* Theorems about the components of the SDK adapter, for any calls,        *)
(* mutations, nonces, answers and rows.                                    *)
(***************************************************************************)
EXTENDS MCSdk, SequenceTheorems, TLAPS

Busy(c) == pc[c] \in {"writing", "waiting"}

\* The inductive form of NoReplay: the hash of every handed frame is marked,
\* by a call that has left the queue for good.
HandedInv ==
    /\ pc \in [Calls -> {"idle", "queued", "writing", "waiting", "done"}]
    /\ handed \subseteq Calls
    /\ \A c \in handed :
          /\ pc[c] \notin {"idle", "queued"}
          /\ HashOf[c] \in attempted
    /\ NoReplay

LEMMA HandedInit == Init => HandedInv
BY DEF Init, HandedInv, NoReplay

LEMMA HandedStep == HandedInv /\ [Next]_vars => HandedInv'
<1> SUFFICES ASSUME HandedInv, [Next]_vars PROVE HandedInv' OBVIOUS
<1> USE DEF HandedInv, NoReplay
<1>1. CASE UNCHANGED vars BY <1>1 DEF vars
<1>2. ASSUME NEW c \in Calls, Task(c) PROVE HandedInv'
    <2>1. CASE Enter(c) BY <2>1 DEF Enter, End, wire
    <2>2. CASE Lock(c) BY <2>2 DEF Lock, End
    <2>3. CASE Written(c) BY <2>3 DEF Written, wire
    <2>4. CASE WriteFails(c) BY <2>4 DEF WriteFails, Leave, End, wire
    <2>5. CASE WaitExpires(c) BY <2>5 DEF WaitExpires, Leave, End, wire
    <2>6. CASE Resume(c) BY <2>6 DEF Resume, Leave, End, wire
    <2> QED BY <1>2, <2>1, <2>2, <2>3, <2>4, <2>5, <2>6 DEF Task
<1>3. ASSUME NEW c \in Calls, Receive(c) \/ Answer(c) PROVE HandedInv' BY <1>3 DEF Receive, Answer
<1>4. CASE Read \/ ConnectionEnds \/ Close \/ CloseSocket BY <1>4 DEF Read, ConnectionEnds, Close, CloseSocket, wire
<1> QED BY <1>1, <1>2, <1>3, <1>4 DEF Next

\* Whatever calls, failures and reconnections come, no signed transaction is
\* handed to the socket twice (the marking in send, before socket.send).
THEOREM NeverReplayed == Spec => []NoReplay
<1>1. HandedInv => NoReplay BY DEF HandedInv
<1> QED BY <1>1, HandedInit, HandedStep, PTL DEF Spec

-----------------------------------------------------------------------------
\* A frame of the log of answers.
Sent(id, answer) == \E i \in DOMAIN answers : answers[i] = [id |-> id, answer |-> answer]

\* The inductive form of AnswerIsOwn: the call that writes or waits holds the
\* lock and is the pending one, and an answer in the future is its own.
OwnInv ==
    /\ pc \in [Calls -> {"idle", "queued", "writing", "waiting", "done"}]
    /\ result \in [Calls -> Results]
    /\ answers \in Seq(Frames)
    /\ read \in 0..Len(answers)
    /\ future \in Answers \cup {"none", "ended"}
    /\ \A c \in Calls : Busy(c) => lock = c /\ pending = c
    /\ future \in Answers => Sent(pending, future)
    /\ AnswerIsOwn

LEMMA OwnInit == Init => OwnInv
BY DEF Init, OwnInv, Busy, AnswerIsOwn, Answers, Results

LEMMA OwnStep == OwnInv /\ [Next]_vars => OwnInv'
<1> SUFFICES ASSUME OwnInv, [Next]_vars PROVE OwnInv' OBVIOUS
<1> USE DEF OwnInv, Busy
<1>1. CASE UNCHANGED vars BY <1>1 DEF vars, AnswerIsOwn, Sent
<1>2. ASSUME NEW c \in Calls, Task(c) PROVE OwnInv'
    <2>0. UNCHANGED <<answers, read>> BY <1>2 DEF Task, Enter, Lock, Written, WriteFails, WaitExpires, Resume, wire
    <2>1. CASE Enter(c) BY <2>0, <2>1 DEF Enter, End, AnswerIsOwn, Sent, Results, Answers
    <2>2. CASE Lock(c) BY <2>0, <2>2, NoCallAssumption DEF Lock, End, AnswerIsOwn, Sent, Results, Answers
    <2>3. CASE Written(c) BY <2>0, <2>3 DEF Written, AnswerIsOwn, Sent
    <2>4. CASE WriteFails(c) BY <2>0, <2>4 DEF WriteFails, Leave, End, AnswerIsOwn, Sent, Results, Answers
    <2>5. CASE WaitExpires(c) BY <2>0, <2>5 DEF WaitExpires, Leave, End, AnswerIsOwn, Sent, Results, Answers
    <2>6. CASE Resume(c) BY <2>0, <2>6 DEF Resume, Leave, End, AnswerIsOwn, Sent, Results, Answers
    <2> QED BY <1>2, <2>1, <2>2, <2>3, <2>4, <2>5, <2>6 DEF Task
<1>3. ASSUME NEW c \in Calls, Receive(c) PROVE OwnInv' BY <1>3 DEF Receive, AnswerIsOwn, Sent
<1>4. ASSUME NEW c \in Calls, Answer(c) PROVE OwnInv'
    <2>1. PICK a \in Answers : answers' = Append(answers, [id |-> c, answer |-> a]) BY <1>4 DEF Answer
    <2>2. [id |-> c, answer |-> a] \in Frames BY DEF Frames
    <2>3. /\ answers' \in Seq(Frames)
          /\ read \in 0..Len(answers')
          /\ \A i \in DOMAIN answers : i \in DOMAIN answers' /\ answers'[i] = answers[i]
      BY <2>1, <2>2
    <2>4. UNCHANGED <<lock, pending, future, pc, result, read>> BY <1>4 DEF Answer
    <2>5. \A id, b : Sent(id, b) => Sent(id, b)' BY <2>3 DEF Sent
    <2>6. (future \in Answers => Sent(pending, future))'
        <3>1. UNCHANGED <<pending, future>> BY <2>4
        <3>2. ASSUME future \in Answers
              PROVE  \E i \in DOMAIN answers' : answers'[i] = [id |-> pending, answer |-> future]
            <4>1. PICK i \in DOMAIN answers : answers[i] = [id |-> pending, answer |-> future] BY <3>2 DEF Sent
            <4>. QED BY <2>3, <4>1
        <3>3. SUFFICES ASSUME (future \in Answers)' PROVE Sent(pending, future)' OBVIOUS
        <3>4. PICK i \in DOMAIN answers' : answers'[i] = [id |-> pending', answer |-> future'] BY <3>1, <3>2, <3>3
        <3>. QED BY <3>4 DEF Sent
    <2>7. AnswerIsOwn'
        <3>1. \A d \in Calls, b \in Answers : result[d] = b => Sent(d, b)' BY <2>5 DEF AnswerIsOwn, Sent
        <3>. QED BY <2>4, <3>1 DEF AnswerIsOwn, Sent
    <2>8. \A d \in Calls : Busy(d)' => lock' = d /\ pending' = d BY <2>4
    <2>. HIDE DEF Busy
    <2> QED BY <2>3, <2>4, <2>6, <2>7, <2>8
<1>5. CASE Read
    <2>1. read + 1 \in DOMAIN answers /\ read' \in 0..Len(answers) BY <1>5 DEF Read
    <2>2. /\ answers[read + 1] \in Frames
          /\ answers[read + 1] = [id |-> answers[read + 1].id,
                                  answer |-> answers[read + 1].answer]
          /\ answers[read + 1].answer \in Answers
        <3>1. answers[read + 1] \in Frames BY <2>1
        <3> QED BY <3>1 DEF Frames
    <2>3. UNCHANGED <<lock, pending, pc, result, answers>> BY <1>5 DEF Read
    <2>4. future' \in Answers \cup {"none", "ended"} BY <1>5, <2>2 DEF Read
    <2>5. future' \in Answers => Sent(pending, future') BY <1>5, <2>1, <2>2 DEF Read, Sent
    <2> QED BY <1>5, <2>1, <2>3, <2>4, <2>5 DEF Read, AnswerIsOwn, Sent
<1>6. CASE ConnectionEnds \/ Close \/ CloseSocket
  BY <1>6 DEF ConnectionEnds, Close, CloseSocket, wire, AnswerIsOwn, Sent, Answers
<1> QED BY <1>1, <1>2, <1>3, <1>4, <1>5, <1>6 DEF Next

\* An answer that send returns was sent by the venue for that very request,
\* however late, repeated or interleaved the frames are (the identifier check).
THEOREM OnlyOwnAnswers == Spec => []AnswerIsOwn
<1>1. OwnInv => AnswerIsOwn BY DEF OwnInv
<1> QED BY <1>1, OwnInit, OwnStep, PTL DEF Spec

-----------------------------------------------------------------------------
\* The inductive form of both invariants: a sent nonce is blocked, and the
\* registry and the tasks that hold a reservation agree in both directions.
NonceInv ==
    /\ N!TypeOK
    /\ \A t \in sent : at[t] = "sent" /\ nonce[t] \in blocked
    /\ \A t \in Tasks : at[t] = "ready" \/ token[t] => reserved[nonce[t]] = t
    /\ \A t \in Tasks : token[t] => at[t] \in {"reserved", "signing", "abandoned"}
    /\ \A t \in Tasks : at[t] \in {"reserved", "abandoned"} => token[t]
    /\ \A t \in Tasks : token[t] \/ at[t] = "reserving" => kind[t] = "order"
    /\ N!SentNoncesDiffer
    /\ N!ReservationsAreLive

LEMMA NonceInit == N!Init => NonceInv
BY NoTaskAssumption, NonceAssumption DEF N!Init, NonceInv, N!TypeOK, N!SentNoncesDiffer,
  N!ReservationsAreLive, N!Nonce

LEMMA NonceStep == NonceInv /\ [N!Next]_N!vars => NonceInv'
<1> SUFFICES ASSUME NonceInv, [N!Next]_N!vars PROVE NonceInv' OBVIOUS
<1> USE NoTaskAssumption DEF NonceInv, N!TypeOK, N!SentNoncesDiffer, N!ReservationsAreLive
<1>1. CASE UNCHANGED N!vars BY <1>1 DEF N!vars
<1>2. CASE N!VenueExecutes BY <1>2, NonceAssumption DEF N!VenueExecutes, N!Nonce
<1>3. ASSUME NEW t \in Tasks, N!Task(t) PROVE NonceInv'
    <2>1. CASE N!StartReserve(t) BY <2>1 DEF N!StartReserve, N!Goto, N!Locked
    <2>2. CASE N!Reserve(t)
        <3>1. N!TypeOK'
            <4>1. CASE N!Available(venueNext)
                <5>1. /\ at' = [at EXCEPT ![t] = "reserved"]
                      /\ nonce' = [nonce EXCEPT ![t] = venueNext]
                      /\ token' = [token EXCEPT ![t] = TRUE]
                      /\ reserved' = [reserved EXCEPT ![venueNext] = t]
                      /\ holder' = NoTask
                      /\ UNCHANGED <<kind, blocked, sent, venueNext>>
                  BY <2>2, <4>1 DEF N!Reserve, N!Goto, N!Unlocked
                <5> QED BY <5>1
            <4>2. CASE ~(N!Available(venueNext)) BY <2>2, <4>2 DEF N!Reserve, N!Goto, N!Unlocked, N!Available
            <4> QED BY <4>1, <4>2
        <3>2. (\A u \in sent : at[u] = "sent" /\ nonce[u] \in blocked)'
          BY <2>2 DEF N!Reserve, N!Goto, N!Unlocked, N!Available
        <3>3. (\A u \in Tasks : at[u] = "ready" \/ token[u] => reserved[nonce[u]] = u)'
          BY <2>2 DEF N!Reserve, N!Goto, N!Unlocked, N!Available
        <3>4. (\A u \in Tasks : token[u] => at[u] \in {"reserved", "signing", "abandoned"})'
          BY <2>2 DEF N!Reserve, N!Goto, N!Unlocked, N!Available
        <3>5. (\A u \in Tasks : at[u] \in {"reserved", "abandoned"} => token[u])'
          BY <2>2 DEF N!Reserve, N!Goto, N!Unlocked, N!Available
        <3>6. N!SentNoncesDiffer' BY <2>2 DEF N!Reserve, N!Goto, N!Unlocked, N!Available
        <3>7. N!ReservationsAreLive' BY <2>2 DEF N!Reserve, N!Goto, N!Unlocked, N!Available
        <3>8. (\A u \in Tasks : token[u] \/ at[u] = "reserving" => kind[u] = "order")'
          BY <2>2 DEF N!Reserve, N!Goto, N!Unlocked, N!Available
        <3> QED BY <3>1, <3>2, <3>3, <3>4, <3>5, <3>6, <3>7, <3>8
    <2>3. CASE N!StartSign(t) BY <2>3 DEF N!StartSign, N!Goto, N!Locked, N!Owns
    <2>4. CASE N!SignOrder(t)
        <3>1. N!TypeOK'
            <4>1. CASE token[t] \/ N!Available(nonce[t])
                <5>1. /\ at' = [at EXCEPT ![t] = "ready"]
                      /\ token' = [token EXCEPT ![t] = FALSE]
                      /\ reserved' = [reserved EXCEPT ![nonce[t]] = t]
                      /\ holder' = NoTask
                      /\ UNCHANGED <<kind, nonce, blocked, sent, venueNext>>
                  BY <2>4, <4>1 DEF N!SignOrder, N!Goto, N!Unlocked
                <5> QED BY <5>1
            <4>2. CASE ~(token[t] \/ N!Available(nonce[t]))
              BY <2>4, <4>2 DEF N!SignOrder, N!Goto, N!Unlocked, N!Available
            <4> QED BY <4>1, <4>2
        <3>2. (\A u \in sent : at[u] = "sent" /\ nonce[u] \in blocked)'
          BY <2>4 DEF N!SignOrder, N!Goto, N!Unlocked, N!Available
        <3>3. (\A u \in Tasks : at[u] = "ready" \/ token[u] => reserved[nonce[u]] = u)'
          BY <2>4 DEF N!SignOrder, N!Goto, N!Unlocked, N!Available
        <3>4. (\A u \in Tasks : token[u] => at[u] \in {"reserved", "signing", "abandoned"})'
          BY <2>4 DEF N!SignOrder, N!Goto, N!Unlocked, N!Available
        <3>5. (\A u \in Tasks : at[u] \in {"reserved", "abandoned"} => token[u])'
          BY <2>4 DEF N!SignOrder, N!Goto, N!Unlocked, N!Available
        <3>6. N!SentNoncesDiffer' BY <2>4 DEF N!SignOrder, N!Goto, N!Unlocked, N!Available
        <3>7. N!ReservationsAreLive' BY <2>4 DEF N!SignOrder, N!Goto, N!Unlocked, N!Available
        <3>8. (\A u \in Tasks : token[u] \/ at[u] = "reserving" => kind[u] = "order")'
          BY <2>4 DEF N!SignOrder, N!Goto, N!Unlocked, N!Available
        <3> QED BY <3>1, <3>2, <3>3, <3>4, <3>5, <3>6, <3>7, <3>8
    <2>5. CASE N!SignAndSend(t) BY <2>5 DEF N!SignAndSend, N!Goto, N!Unlocked, N!Available, N!Blocked
    <2>6. CASE N!Submit(t) BY <2>6 DEF N!Submit, N!Goto, N!Blocked
    <2>7. CASE N!Invalidate(t) BY <2>7 DEF N!Invalidate, N!Goto, N!Owns
    <2>8. CASE N!Interrupted(t) BY <2>8 DEF N!Interrupted, N!Goto, N!Unlocked
    <2> QED BY <1>3, <2>1, <2>2, <2>3, <2>4, <2>5, <2>6, <2>7, <2>8 DEF N!Task
<1> QED BY <1>1, <1>2, <1>3 DEF N!Next

\* A client hands no nonce to the transport twice, whatever mutations it
\* prepares concurrently, and every reservation belongs to a mutation that can
\* still send or release it (_assert_nonce_available, _block_nonce,
\* _owns_nonce, _release_prepared_reservation).
THEOREM NoncesCorrect == N!Spec => []NoncesAreTrue
<1>1. NonceInv => NoncesAreTrue BY DEF NonceInv, NoncesAreTrue
<1> QED BY <1>1, NonceInit, NonceStep, PTL DEF N!Spec

-----------------------------------------------------------------------------
(* The evidence file.                                                      *)

\* The stages of a session.
Opening == {"new", "starting", "startDraining"}
Leaving == {"leaving", "unwinding", "gathering", "quitting", "abandoned"}
Working == {"reading", "putting", "joining"} \cup Leaving
Sealing == {"sealing", "sealDraining"}
Handing == {"writing", "draining"}   \* the writer waits for its thread

\* The rows a thread has still to write, and the number of those in the queue.
Flying == IF writer \in Handing /\ thread = "running" THEN job.rows ELSE <<>>
Queued == IF queue # <<>> /\ queue[Len(queue)] = E!End THEN Len(queue) - 1 ELSE Len(queue)

RowType ==
    /\ queue \in Seq(Nat) /\ disk \in Seq(Nat)
    /\ dropped \in Nat /\ offered \in Nat
    /\ session \in Opening \cup Working \cup Sealing \cup {"over"}
    /\ writer \in {"none", "waiting", "done", "dead"} \cup Handing
    /\ thread \in {"idle", "running", "ok", "bad"}
    /\ interrupted \in Nat /\ cancels \in Nat
    /\ job \in [rows : Seq(Nat), seal : [complete : BOOLEAN, rows : Nat]]
    /\ session \in Opening \cup Working => job.seal = E!NoSeal

\* What each stage of the session leaves to the writer and to the thread.
OpeningInv ==
    session \in Opening =>
        /\ writer = "none" /\ ~shut /\ ~ended
        /\ disk = <<>> /\ queue = <<>> /\ job = E!NoJob /\ offered = dropped
        /\ IF session = "new" THEN thread = "idle" /\ fd = "none" ELSE fd = "open"

WorkingInv ==
    session \in Working =>
        /\ fd = "open" /\ writer # "none"
        /\ session \notin {"reading", "abandoned"} => shut
        /\ writer \in Handing => job.rows # <<>> /\ thread # "idle"
        /\ writer \in {"waiting", "done"} => job = E!NoJob /\ thread = "idle"
        /\ writer \in {"draining", "dead"} => failed
        /\ writer = "waiting" => ~ended
        /\ ended \/ writer = "done" => queue = <<>>
        /\ \A i \in 1..(Len(queue) - 1) : queue[i] # E!End
        /\ session \in {"reading", "putting"} \/ ~shut =>
              ~ended /\ writer # "done" /\ \A i \in 1..Len(queue) : queue[i] # E!End

ClosingInv ==
    /\ session \in Sealing => shut /\ writer = "done" /\ fd = "open" /\ thread # "idle"
    /\ session = "over" => shut /\ writer = "none" /\ fd = "closed"

\* Who has been interrupted, and by whom: the second time is never due to
\* the time limits of close alone.
WaitInv ==
    /\ writer = "draining" => interrupted > 0
    /\ session \in {"startDraining", "sealDraining"} => interrupted > 0 /\ cancels > 0
    /\ session \in {"leaving", "quitting"} => cancels > 0
    /\ session \in {"reading", "putting", "joining"} =>
          writer # "draining" /\ (thread = "running" => writer = "writing")
    /\ session \in Leaving /\ thread = "running" /\ writer \notin Handing =>
          interrupted > 1 /\ cancels > 0
    /\ E!DescriptorIsIdle

\* As long as no row was lost the file, what the thread writes and the queue
\* are together the rows that were offered, in order.
RowsInv ==
    session \in Working /\ dropped = 0 /\ writer # "dead"
                        /\ ~(writer \in Handing /\ thread = "bad") =>
        /\ \A i \in 1..Len(disk) : disk[i] = i
        /\ \A i \in 1..Len(Flying) : Flying[i] = Len(disk) + i
        /\ \A i \in 1..Queued : queue[i] = Len(disk) + Len(Flying) + i
        /\ offered = Len(disk) + Len(Flying) + Queued

\* A seal about to be written is as true as one in the file.
SealInv ==
    /\ session \in Opening \cup Working => seal = E!NoSeal
    /\ session \notin Opening \cup Working =>
          /\ seal \in {E!NoSeal, job.seal}
          /\ job.seal.complete => disk = [n \in 1..job.seal.rows |-> n] /\ job.rows = <<>>
    /\ E!SealIsTrue

FileInv == RowType /\ OpeningInv /\ WorkingInv /\ ClosingInv /\ WaitInv /\ RowsInv /\ SealInv

\* What SubSeq keeps of the front and of the back of a sequence.
LEMMA Prefix ==
    ASSUME NEW s \in Seq(Nat), NEW k \in Nat, k <= Len(s)
    PROVE  /\ SubSeq(s, 1, k) \in Seq(Nat) /\ Len(SubSeq(s, 1, k)) = k
           /\ \A i \in 1..k : SubSeq(s, 1, k)[i] = s[i]
BY SubSeqProperties

LEMMA Suffix ==
    ASSUME NEW s \in Seq(Nat), NEW k \in Nat, k <= Len(s)
    PROVE  /\ SubSeq(s, k + 1, Len(s)) \in Seq(Nat)
           /\ Len(SubSeq(s, k + 1, Len(s))) = Len(s) - k
           /\ \A i \in 1..(Len(s) - k) : SubSeq(s, k + 1, Len(s))[i] = s[k + i]
<1>1. k + 1 \in Int /\ Len(s) \in Int /\ \A i \in (k + 1)..Len(s) : s[i] \in Nat OBVIOUS
<1>2. /\ SubSeq(s, k + 1, Len(s)) \in Seq(Nat)
      /\ Len(SubSeq(s, k + 1, Len(s))) =
            IF k + 1 <= Len(s) THEN Len(s) - (k + 1) + 1 ELSE 0
      /\ \A i \in 1..(Len(s) - (k + 1) + 1) :
            SubSeq(s, k + 1, Len(s))[i] = s[(k + 1) + i - 1]
  BY <1>1, SubSeqProperties
<1>3. ASSUME NEW i \in 1..(Len(s) - k) PROVE SubSeq(s, k + 1, Len(s))[i] = s[k + i] BY <1>2
<1>4. (IF k + 1 <= Len(s) THEN Len(s) - (k + 1) + 1 ELSE 0) = Len(s) - k OBVIOUS
<1>. DEFINE t == SubSeq(s, k + 1, Len(s))
<1>5. t \in Seq(Nat) /\ Len(t) = Len(s) - k BY <1>2, <1>4
<1>. QED BY <1>3, <1>5

LEMMA FileInit == E!Init => FileInv
BY DEF E!Init, FileInv, RowType, OpeningInv, WorkingInv, ClosingInv, WaitInv, RowsInv, SealInv, E!SealIsTrue, Opening,
  Leaving, Working, Sealing, Handing, E!NoSeal, E!NoJob, E!DescriptorIsIdle

LEMMA FileStep == FileInv /\ [E!Next]_E!evidence => FileInv'
<1> SUFFICES ASSUME FileInv, [E!Next]_E!evidence PROVE FileInv' OBVIOUS
<1> USE DEF FileInv, RowType, OpeningInv, WorkingInv, ClosingInv, WaitInv, SealInv, E!SealIsTrue, E!DescriptorIsIdle,
            Opening, Leaving, Working, Sealing, Handing, E!NoSeal, E!NoJob, E!End, E!book, E!file, E!waits
<1>1. CASE UNCHANGED E!evidence
    <2>1. UNCHANGED <<queue, dropped, offered, failed, shut, fd, writer, ended, session, cancels,
                      interrupted, thread, job, disk, seal>>
      BY <1>1 DEF E!evidence
    <2>2. RowsInv' BY <2>1 DEF RowsInv, Flying, Queued
    <2>3. RowType' /\ OpeningInv' /\ ClosingInv' /\ SealInv' BY <2>1
    <2>4. WorkingInv' /\ WaitInv' BY <2>1
    <2>. QED BY <2>2, <2>3, <2>4
<1>2. CASE E!ThreadEnds
    <2>1. CASE session \notin Opening \cup Working
        <3>1. job.rows \in Seq(Nat) /\ (job.rows = <<>> => disk \o job.rows = disk) OBVIOUS
        <3>2. disk \o job.rows \in Seq(Nat) BY <3>1, ConcatProperties
        <3>. QED BY <1>2, <2>1, <3>1, <3>2 DEF E!ThreadEnds, RowsInv
    <2>2. CASE session \in Opening \cup Working
        <3>0. /\ session \in Opening \cup Working /\ thread = "running"
              /\ thread' \in {"ok", "bad"}
              /\ UNCHANGED <<queue, accepted, dropped, offered, failed, shut, writer, ended,
                             session, fd, job, seal, interrupted, cancels>>
          BY <1>2, <2>2 DEF E!ThreadEnds
        <3>1. /\ disk' = (IF thread' = "ok" THEN disk \o job.rows ELSE disk)
              /\ disk' \in Seq(Nat)
            <4>1. disk \o job.rows \in Seq(Nat) BY <3>0, ConcatProperties
            <4>2. disk' = (IF thread' = "ok" THEN disk \o job.rows ELSE disk) BY <1>2, <2>2 DEF E!ThreadEnds
            <4>. QED BY <4>1, <4>2
        <3>4. RowType' BY <3>0, <3>1
        <3>5. OpeningInv'
            <4>1. CASE session \in Opening BY <3>0, <3>1, <4>1
            <4>. QED BY <3>0, <4>1
        <3>6. WorkingInv' /\ ClosingInv' /\ WaitInv' BY <3>0
        <3>2. RowsInv'
            <4>1. CASE session \in Working /\ thread' = "ok" /\ writer # "dead"
                <5>1. writer \in Handing /\ job.rows \in Seq(Nat) /\ disk' = disk \o job.rows BY <3>0, <3>1, <4>1
                <5>2. Flying = job.rows /\ Flying' = <<>> /\ Len(Flying') = 0 BY <3>0, <4>1, <5>1 DEF Flying
                <5>3. /\ Len(disk') = Len(disk) + Len(job.rows)
                      /\ \A i \in 1..Len(disk') :
                            disk'[i] = IF i <= Len(disk) THEN disk[i] ELSE job.rows[i - Len(disk)]
                  BY <5>1
                <5>4. Queued' = Queued /\ Queued \in Int /\ Len(disk) \in Nat /\ Len(job.rows) \in Nat
                    <6>1. Queued' = Queued BY <3>0 DEF Queued
                    <6>2. Len(disk) \in Nat /\ Len(job.rows) \in Nat /\ Len(queue) \in Nat BY <5>1
                    <6>. HIDE DEF FileInv, RowType, OpeningInv, WorkingInv, ClosingInv, WaitInv, SealInv
                    <6>3. Queued \in Int BY <6>2 DEF Queued
                    <6>. QED BY <6>1, <6>2, <6>3
                <5>5. SUFFICES ASSUME dropped = 0, writer # "dead"
                              PROVE  /\ \A i \in 1..Len(disk') : disk'[i] = i
                                     /\ \A i \in 1..Queued : queue[i] = Len(disk') + i
                                     /\ offered = Len(disk') + Queued
                  BY <3>0, <5>2, <5>4 DEF RowsInv
                <5>6. /\ \A i \in 1..Len(disk) : disk[i] = i
                      /\ \A i \in 1..Len(job.rows) : job.rows[i] = Len(disk) + i
                      /\ \A i \in 1..Queued : queue[i] = Len(disk) + Len(job.rows) + i
                      /\ offered = Len(disk) + Len(job.rows) + Queued
                  BY <3>0, <4>1, <5>2, <5>5 DEF RowsInv
                <5>. QED
                    <6> HIDE DEF FileInv, RowType, OpeningInv, WorkingInv, ClosingInv, WaitInv, SealInv
                    <6>1. ASSUME NEW i \in 1..Len(disk') PROVE disk'[i] = i
                        <7>1. CASE i <= Len(disk) BY <5>3, <5>4, <5>6, <7>1
                        <7>2. CASE ~(i <= Len(disk))
                            <8>1. i - Len(disk) \in 1..Len(job.rows) BY <5>3, <5>4, <7>2
                            <8>2. job.rows[i - Len(disk)] = Len(disk) + (i - Len(disk)) BY <5>6, <8>1
                            <8>3. disk'[i] = job.rows[i - Len(disk)] BY <5>3, <7>2
                            <8>4. i \in Int BY <5>3, <5>4
                            <8>. QED BY <5>4, <8>2, <8>3, <8>4
                        <7>. QED BY <7>1, <7>2
                    <6>. QED BY <5>3, <5>4, <5>6, <6>1
            <4>2. CASE session \notin Working \/ thread' = "bad" \/ writer = "dead" BY <3>0, <4>2 DEF RowsInv
            <4>. QED BY <3>0, <4>1, <4>2
        <3>3. SealInv' BY <3>0
        <3>. QED BY <3>2, <3>3, <3>4, <3>5, <3>6
    <2>. QED BY <2>1, <2>2
<1>3. CASE E!WriterTakes
    <2>. DEFINE n == IF Len(queue) < BatchSize THEN Len(queue) ELSE BatchSize
                last == queue[n] = E!End
                taken == IF last THEN n - 1 ELSE n
    <2>1. queue # <<>> /\ writer = "waiting" /\ session \in Working /\ ~ended BY <1>3 DEF E!WriterTakes
    <2>2. /\ Len(queue) \in Nat /\ Len(queue) > 0 /\ n \in 1..Len(queue) /\ n \in Nat
          /\ queue \in Seq(Nat)
        <3>1. Len(queue) \in Nat /\ Len(queue) > 0 /\ queue \in Seq(Nat) BY <2>1, EmptySeq
        <3>2. BatchSize \in Nat /\ BatchSize > 0 BY BatchAssumption
        <3>. HIDE DEF FileInv, RowType, OpeningInv, WorkingInv, ClosingInv, WaitInv, SealInv
        <3>. QED BY <3>1, <3>2
    <2>3. last => n = Len(queue)
        <3>1. \A i \in 1..(Len(queue) - 1) : queue[i] # E!End BY <2>1
        <3>. HIDE DEF FileInv, RowType, OpeningInv, WorkingInv, ClosingInv, WaitInv, SealInv, n
        <3>. QED BY <2>2, <3>1
    <2>4. taken \in Nat /\ taken <= n /\ n <= Len(queue)
        <3>. HIDE DEF FileInv, RowType, OpeningInv, WorkingInv, ClosingInv, WaitInv, SealInv, n
        <3>. QED BY <2>2
    <2>5. PICK rows \in Seq(Nat) :
            /\ Len(rows) = taken
            /\ \A i \in 1..Len(rows) : rows[i] = queue[i]
            /\ IF rows = <<>> THEN writer' = "done" /\ UNCHANGED <<thread, job, interrupted>>
               ELSE /\ writer' = "writing" /\ thread' = "running" /\ interrupted' = 0
                    /\ job' = [rows |-> rows, seal |-> E!NoSeal]
        <3>. HIDE DEF FileInv, RowType, OpeningInv, WorkingInv, ClosingInv, WaitInv, SealInv, n
        <3>1. /\ SubSeq(queue, 1, taken) \in Seq(Nat)
              /\ Len(SubSeq(queue, 1, taken)) = taken
              /\ \A i \in 1..taken : SubSeq(queue, 1, taken)[i] = queue[i]
          BY <2>2, <2>4, Prefix
        <3>2. IF SubSeq(queue, 1, taken) = <<>>
              THEN writer' = "done" /\ UNCHANGED <<thread, job, interrupted>>
              ELSE /\ writer' = "writing" /\ thread' = "running" /\ interrupted' = 0
                   /\ job' = [rows |-> SubSeq(queue, 1, taken), seal |-> E!NoSeal]
          BY <1>3 DEF E!WriterTakes, n
        <3>. QED BY <3>1, <3>2
    <2>6. /\ queue' \in Seq(Nat) /\ Len(queue') = Len(queue) - n
          /\ \A i \in 1..(Len(queue) - n) : queue'[i] = queue[n + i]
        <3>1. queue' = SubSeq(queue, n + 1, Len(queue)) BY <1>3 DEF E!WriterTakes
        <3>. HIDE DEF FileInv, RowType, OpeningInv, WorkingInv, ClosingInv, WaitInv, SealInv, n
        <3>. QED BY <2>2, <3>1, Suffix
    <2>7. /\ ended' = last /\ Flying = <<>>
          /\ UNCHANGED <<disk, dropped, offered, session, shut, failed, fd, seal, cancels>>
      BY <1>3, <2>1 DEF E!WriterTakes, Flying
    <2>8. Queued' = Queued - taken /\ Queued \in Int /\ (last => Queued = taken)
        <3>. HIDE DEF FileInv, RowType, OpeningInv, WorkingInv, ClosingInv, WaitInv, SealInv, n
        <3>1. CASE n = Len(queue) BY <2>2, <2>6, <3>1, EmptySeq, <2>1 DEF Queued
        <3>2. CASE n # Len(queue)
            <4>1. Len(queue) - n \in 1..(Len(queue) - n) /\ n + (Len(queue) - n) = Len(queue) BY <2>2, <3>2
            <4>2. queue'[Len(queue')] = queue[Len(queue)] /\ queue' # <<>>
                <5>1. queue'[Len(queue) - n] = queue[n + (Len(queue) - n)] BY <2>6, <4>1
                <5>2. Len(queue') # 0 BY <2>2, <2>6, <3>2
                <5>. QED BY <2>6, <4>1, <5>1, <5>2, EmptySeq
            <4>3. ~last BY <2>3, <3>2
            <4>. QED BY <2>1, <2>2, <2>6, <4>2, <4>3 DEF Queued
        <3>. QED BY <3>1, <3>2
    <2>9. Flying' = rows BY <2>1, <2>5 DEF Flying
    <2>10. /\ writer' \in {"done", "writing"}
           /\ writer' = "writing" => job'.rows # <<>> /\ thread' = "running"
           /\ writer' = "done" => job' = E!NoJob /\ thread' = "idle" /\ rows = <<>>
           /\ job' \in [rows : Seq(Nat), seal : [complete : BOOLEAN, rows : Nat]]
           /\ job'.seal = E!NoSeal /\ interrupted' \in Nat
        <3>1. CASE rows = <<>> BY <2>1, <2>5, <3>1
        <3>2. CASE rows # <<>>
            <4>. DEFINE j == [rows |-> rows, seal |-> E!NoSeal]
            <4>1. /\ j \in [rows : Seq(Nat), seal : [complete : BOOLEAN, rows : Nat]]
                  /\ j.rows # <<>> /\ j.seal = E!NoSeal
              BY <3>2
            <4>. HIDE DEF j
            <4>2. writer' = "writing" /\ thread' = "running" /\ interrupted' = 0 /\ job' = j
              BY <2>5, <3>2 DEF j
            <4>. QED BY <4>1, <4>2
        <3>. QED BY <3>1, <3>2
    <2>11. writer' = "done" => last
        <3>. HIDE DEF FileInv, RowType, OpeningInv, WorkingInv, ClosingInv, WaitInv, SealInv, n
        <3>. QED BY <2>2, <2>5, <2>10
    <2>12. last => queue' = <<>> /\ session \notin {"reading", "putting"} /\ shut
        <3>1. \A i \in 1..Len(queue) : queue[i] # E!End \/ (session \notin {"reading", "putting"} /\ shut) BY <2>1
        <3>. HIDE DEF FileInv, RowType, OpeningInv, WorkingInv, ClosingInv, WaitInv, SealInv, n
        <3>. QED BY <2>2, <2>3, <2>6, <3>1, EmptySeq
    <2>13. RowType' /\ OpeningInv' /\ ClosingInv' /\ WaitInv' /\ SealInv'
        <3>. HIDE DEF n
        <3>. QED BY <2>1, <2>6, <2>7, <2>10
    <2>14. WorkingInv'
        <3>. HIDE DEF n, last
        <3>1. \A i \in 1..(Len(queue') - 1) : queue'[i] # E!End
            <4>1. \A i \in 1..(Len(queue) - 1) : queue[i] # E!End BY <2>1
            <4>. HIDE DEF FileInv, RowType, OpeningInv, WorkingInv, ClosingInv, WaitInv, SealInv
            <4>2. ASSUME NEW i \in 1..(Len(queue') - 1) PROVE queue'[i] # E!End
                <5>1. i \in 1..(Len(queue) - n) /\ n + i \in 1..(Len(queue) - 1) BY <2>2, <2>6
                <5>. QED BY <2>6, <4>1, <5>1
            <4>. QED BY <4>2
        <3>2. session \in {"reading", "putting"} \/ ~shut =>
                 \A i \in 1..Len(queue') : queue'[i] # E!End
            <4>1. session \in {"reading", "putting"} \/ ~shut =>
                    \A i \in 1..Len(queue) : queue[i] # E!End
              BY <2>1
            <4>. HIDE DEF FileInv, RowType, OpeningInv, WorkingInv, ClosingInv, WaitInv, SealInv
            <4>2. ASSUME NEW i \in 1..Len(queue')
                  PROVE  queue'[i] = queue[n + i] /\ n + i \in 1..Len(queue)
              BY <2>2, <2>6
            <4>. QED BY <4>1, <4>2
        <3>. QED BY <2>1, <2>7, <2>10, <2>11, <2>12, <3>1, <3>2
    <2>15. RowsInv'
        <3>. HIDE DEF n, last
        <3>1. Len(disk) \in Nat /\ Len(rows) = taken /\ Len(Flying) = 0 /\ Len(Flying') = taken BY <2>5, <2>7, <2>9
        <3>2. SUFFICES ASSUME dropped = 0
                      PROVE  /\ \A i \in 1..Len(disk) : disk[i] = i
                             /\ \A i \in 1..taken : rows[i] = Len(disk) + i
                             /\ \A i \in 1..Queued' : queue'[i] = Len(disk) + taken + i
                             /\ offered = Len(disk) + taken + Queued'
          BY <2>7, <2>9, <3>1 DEF RowsInv
        <3>3. /\ \A i \in 1..Len(disk) : disk[i] = i
              /\ \A i \in 1..Queued : queue[i] = Len(disk) + Len(Flying) + i
              /\ offered = Len(disk) + Len(Flying) + Queued
          BY <2>1, <3>2 DEF RowsInv
        <3>. HIDE DEF FileInv, RowType, OpeningInv, WorkingInv, ClosingInv, WaitInv, SealInv
        <3>4. taken <= Queued BY <2>6, EmptySeq, <2>4, <2>8 DEF Queued
        <3>5. \A i \in 1..taken : rows[i] = Len(disk) + i BY <2>4, <2>5, <2>8, <3>1, <3>3, <3>4
        <3>6. ASSUME NEW i \in 1..Queued' PROVE queue'[i] = Len(disk) + taken + i
            <4>1. ~last /\ taken = n BY <2>4, <2>8
            <4>2. n + i \in 1..Queued /\ i \in 1..(Len(queue) - n) BY <2>1, <2>2, <2>8, <4>1 DEF Queued
            <4>3. queue'[i] = Len(disk) + (n + i) BY <2>6, <3>1, <3>3, <4>2
            <4>. QED BY <2>2, <2>8, <3>1, <4>1, <4>3
        <3>. QED BY <2>4, <2>8, <3>1, <3>3, <3>5, <3>6
    <2>. QED BY <2>13, <2>14, <2>15
<1>4. CASE E!WriterWritten
    <2>1. /\ writer \in Handing /\ thread \in {"ok", "bad"} /\ thread' = "idle" /\ job' = E!NoJob
          /\ writer' = (IF writer = "draining" \/ thread = "bad" THEN "dead"
                        ELSE IF ended THEN "done" ELSE "waiting")
          /\ failed' = (failed \/ writer' = "dead")
          /\ UNCHANGED <<queue, dropped, offered, shut, ended, session, fd, disk, seal,
                         interrupted, cancels>>
      BY <1>4 DEF E!WriterWritten
    <2>2. session \in Working \/ session \in Sealing BY <2>1
    <2>5. writer' \notin Handing /\ session \notin Opening /\ session # "over" BY <2>1
    <2>6. session \in Working BY <2>1, <2>2
    <2>7. RowType' /\ OpeningInv' /\ ClosingInv' /\ WaitInv' /\ SealInv' BY <2>1, <2>5, <2>6
    <2>8. WorkingInv' BY <2>1, <2>6, <2>5
    <2>3. RowType' /\ OpeningInv' /\ WorkingInv' /\ ClosingInv' /\ WaitInv' /\ SealInv' BY <2>7, <2>8
    <2>4. RowsInv' BY <2>1 DEF Queued, Flying, RowsInv
    <2>. QED BY <2>3, <2>4
<1>5. ASSUME NEW safe \in BOOLEAN, E!Offer(safe) PROVE FileInv'
    <2>1. CASE dropped' = dropped + 1 BY <1>5, <2>1 DEF E!Offer, RowsInv
    <2>2. CASE dropped' # dropped + 1
        <3>1. /\ ~shut /\ ~failed /\ writer # "none"
              /\ queue' = Append(queue, offered + 1) /\ offered' = offered + 1
              /\ UNCHANGED <<dropped, failed, shut, writer, ended, session, fd, thread, job,
                             disk, seal, interrupted, cancels>>
          BY <1>5, <2>2 DEF E!Offer
        <3>2. session \in {"reading", "abandoned"} /\ ~shut BY <3>1
        <3>3. /\ queue' \in Seq(Nat) /\ Len(queue') = Len(queue) + 1
              /\ queue'[Len(queue')] = offered + 1
              /\ \A i \in 1..Len(queue) : queue'[i] = queue[i]
          BY <3>1
        <3>4. Queued = Len(queue) /\ Queued' = Len(queue) + 1 BY <3>2, <3>3 DEF Queued
        <3>5. RowType' /\ OpeningInv' /\ WorkingInv' /\ ClosingInv' /\ WaitInv' /\ SealInv' BY <3>1, <3>2, <3>3
        <3>6. RowsInv'
            <4>1. Flying' = Flying /\ Flying \in Seq(Nat) BY <3>1, <3>2 DEF Flying
            <4>. QED
                <5>1. /\ Len(disk) \in Nat /\ Len(Flying) \in Nat /\ Len(queue) \in Nat
                      /\ Len(Flying') = Len(Flying)
                  BY <4>1
                <5>2. SUFFICES ASSUME dropped = 0, writer # "dead",
                                      ~(writer \in Handing /\ thread = "bad")
                              PROVE  /\ \A i \in 1..Len(disk) : disk[i] = i
                                     /\ \A i \in 1..Len(Flying) : Flying[i] = Len(disk) + i
                                     /\ \A i \in 1..(Len(queue) + 1) :
                                           queue'[i] = Len(disk) + Len(Flying) + i
                                     /\ offered + 1 = Len(disk) + Len(Flying) + Len(queue) + 1
                    <6>1. (queue')[Len(queue')] = queue'[Len(queue) + 1] BY <3>3
                    <6>. HIDE DEF FileInv, RowType, OpeningInv, WorkingInv, ClosingInv, WaitInv, SealInv
                    <6>. QED BY <3>1, <3>4, <4>1, <5>1 DEF RowsInv
                <5>3. /\ \A i \in 1..Len(disk) : disk[i] = i
                      /\ \A i \in 1..Len(Flying) : Flying[i] = Len(disk) + i
                      /\ \A i \in 1..Len(queue) : queue[i] = Len(disk) + Len(Flying) + i
                      /\ offered = Len(disk) + Len(Flying) + Len(queue)
                  BY <3>2, <3>4, <5>2 DEF RowsInv
                <5>. QED
                    <6>1. ASSUME NEW i \in 1..(Len(queue) + 1)
                          PROVE  queue'[i] = Len(disk) + Len(Flying) + i
                        <7>1. CASE i \in 1..Len(queue) BY <3>3, <5>3, <7>1
                        <7>2. CASE i = Len(queue) + 1 BY <3>3, <5>1, <5>3, <7>2
                        <7>. QED BY <5>1, <7>1, <7>2
                    <6>. QED BY <5>1, <5>3, <6>1
        <3>. QED BY <3>5, <3>6
    <2>. QED BY <2>1, <2>2
<1>6. CASE E!StartFile BY <1>6 DEF E!StartFile, RowsInv
<1>7. CASE E!Started
    <2>1. CASE session = "starting" /\ thread = "ok"
        <3>1. /\ thread' = "idle" /\ session' = "reading" /\ writer' = "waiting"
              /\ UNCHANGED <<queue, dropped, offered, failed, shut, ended, fd, job, disk, seal,
                             interrupted, cancels>>
          BY <1>7, <2>1 DEF E!Started
        <3>2. Queued' = 0 /\ Flying' = <<>> /\ Len(disk') = 0 BY <2>1, <3>1 DEF Queued, Flying
        <3>3. disk = <<>> /\ queue = <<>> /\ offered = dropped /\ ~shut /\ ~ended BY <2>1
        <3>4. RowType' /\ OpeningInv' /\ WorkingInv' /\ ClosingInv' /\ WaitInv' /\ SealInv'
          BY <2>1, <1>7, <3>1, <3>3 DEF E!Started
        <3>5. RowsInv' BY <3>1, <3>2, <3>3 DEF RowsInv
        <3>. QED BY <3>4, <3>5
    <2>2. CASE ~(session = "starting" /\ thread = "ok") BY <1>7, <2>2 DEF E!Started, RowsInv
    <2>. QED BY <2>1, <2>2
<1>8. CASE E!Put
    <2>1. /\ session = "putting" /\ session' = "joining" /\ queue' = Append(queue, E!End)
          /\ UNCHANGED <<dropped, offered, failed, shut, writer, ended, fd, thread, job, disk,
                         seal, interrupted, cancels>>
      BY <1>8 DEF E!Put
    <2>2. /\ queue' \in Seq(Nat) /\ Len(queue') = Len(queue) + 1 /\ queue'[Len(queue')] = E!End
          /\ \A i \in 1..Len(queue) : queue'[i] = queue[i]
        <3>1. queue \in Seq(Nat) /\ E!End \in Nat OBVIOUS
        <3>. HIDE DEF FileInv, RowType, OpeningInv, WorkingInv, ClosingInv, WaitInv, SealInv
        <3>. QED BY <2>1, <3>1, AppendProperties
    <2>3. Queued' = Queued /\ Flying' = Flying /\ Queued = Len(queue) BY <2>1, <2>2 DEF Queued, Flying
    <2>4. RowType' /\ OpeningInv' /\ ClosingInv' /\ WaitInv' /\ SealInv' BY <2>1, <2>2
    <2>6. WorkingInv' BY <2>1, <2>2
    <2>5. RowsInv' BY <2>1, <2>2, <2>3 DEF RowsInv
    <2>. QED BY <2>4, <2>5, <2>6
<1>a. ASSUME session \in Working, session' \in Leaving, shut', E!WriterCancelled,
             session = "leaving" => cancels > 0, session \in Leaving => cancels' > 0,
             session' \in {"leaving", "quitting"} => cancels' > 0,
             cancels' \in Nat, cancels' >= cancels, fd' = fd,
             UNCHANGED <<queue, dropped, offered, ended, thread, job, disk, seal>>
      PROVE  FileInv'
    <2>1. /\ writer' = (CASE writer \in {"waiting", "draining"} -> "dead"
                          [] writer = "writing" -> "draining"
                          [] OTHER -> writer)
          /\ interrupted' = interrupted + (IF writer \in Handing THEN 1 ELSE 0) /\ failed'
      BY <1>a DEF E!WriterCancelled
    <2>2. Queued' = Queued /\ (writer' # "dead" => Flying' = Flying) BY <1>a, <2>1 DEF Queued, Flying
    <2>3. RowsInv' BY <1>a, <2>1, <2>2 DEF RowsInv
    <2>4. RowType' /\ OpeningInv' /\ ClosingInv' /\ SealInv' BY <1>a, <2>1
    <2>5. WorkingInv' BY <1>a, <2>1
    <2>6. WaitInv'
        <3>1. writer' = "draining" => interrupted' > 0 BY <2>1
        <3>2. ASSUME thread' = "running", writer' \notin Handing PROVE interrupted' > 1 /\ cancels' > 0
            <4>1. thread = "running" BY <1>a, <3>2
            <4>2. CASE writer = "draining" BY <1>a, <2>1, <4>2
            <4>3. CASE writer \notin Handing
                <5>1. session \in Leaving BY <1>a, <4>1, <4>3
                <5>2. interrupted > 1 BY <4>1, <4>3, <5>1
                <5>. QED BY <1>a, <2>1, <4>3, <5>1, <5>2
            <4>. QED BY <2>1, <3>2, <4>2, <4>3
        <3>3. session' \in {"leaving", "quitting"} => cancels' > 0 BY <1>a
        <3>4. E!DescriptorIsIdle' BY <1>a
        <3>. QED BY <1>a, <3>1, <3>2, <3>3, <3>4
    <2>. QED BY <2>3, <2>4, <2>5, <2>6
<1>9. CASE E!CloseTimesOut
    <2>1. /\ session \in {"putting", "joining", "leaving"} /\ session' \in {"gathering", "unwinding"}
          /\ E!WriterCancelled /\ shut' = shut /\ cancels' = cancels /\ fd' = fd
          /\ UNCHANGED <<queue, dropped, offered, ended, thread, job, disk, seal>>
      BY <1>9 DEF E!CloseTimesOut
    <2>. QED BY <2>1, <1>a
<1>10. CASE E!Joined
    <2>1. CASE writer = "dead" BY <1>10, <2>1 DEF E!Joined, E!Release, RowsInv
    <2>2. CASE writer = "done"
        <3>1. /\ session = "joining" /\ session' = "sealing" /\ thread' = "running"
              /\ job' = [rows |-> <<>>, seal |-> [complete |-> dropped = 0 /\ reason = "stopped",
                                                 rows |-> offered]]
              /\ interrupted' = 0
              /\ UNCHANGED <<queue, dropped, offered, failed, shut, writer, ended, fd, disk, seal, cancels>>
          BY <1>10, <2>2 DEF E!Joined
        <3>2. Queued = 0 /\ Flying = <<>> BY <2>2, <3>1 DEF Queued, Flying
        <3>3. dropped = 0 => disk = [n \in 1..offered |-> n] BY <2>2, <3>1, <3>2 DEF RowsInv
        <3>4. job' \in [rows : Seq(Nat), seal : [complete : BOOLEAN, rows : Nat]] BY <3>1
        <3>. QED BY <2>2, <3>1, <3>3, <3>4 DEF RowsInv
    <2>. QED BY <1>10, <2>1, <2>2 DEF E!Joined
<1>11. CASE E!Sealed BY <1>11 DEF E!Sealed, E!Release, RowsInv
<1>12. CASE E!Unwound
    <2>1. CASE session = "quitting" BY <1>12, <2>1 DEF E!Unwound, RowsInv, Flying, Queued
    <2>2. CASE session # "quitting" BY <1>12, <2>2 DEF E!Unwound, E!Release, RowsInv
    <2>. QED BY <2>1, <2>2
<1>13. CASE E!Cancel
    <2>0. /\ cancels' = cancels + 1 /\ cancels' \in Nat /\ cancels' > 0
          /\ UNCHANGED <<queue, accepted, dropped, offered, ended, thread, job, disk, seal>>
      BY <1>13 DEF E!Cancel
    <2>1. CASE E!Interrupt
        <3>1. CASE session \in {"starting", "sealing"} BY <2>0, <2>1, <3>1 DEF E!Interrupt, RowsInv
        <3>2. CASE session \in {"startDraining", "sealDraining"}
          BY <2>0, <2>1, <3>2 DEF E!Interrupt, E!Release, RowsInv
        <3>. QED BY <2>1, <3>1, <3>2 DEF E!Interrupt
    <2>2. CASE E!Unsettle
        <3>1. /\ session \in Working \ {"reading", "abandoned"} /\ session' \in Leaving
              /\ E!WriterCancelled /\ shut' = shut /\ fd' = fd
          BY <2>2 DEF E!Unsettle
        <3>. QED BY <2>0, <3>1, <1>a
    <2>3. CASE session = "reading" /\ ~E!Interrupt /\ ~E!Unsettle
        <3>1. /\ \/ session' \in {"putting", "joining"} /\ shut'
                 \/ session' = "abandoned" /\ shut' = shut
              /\ session' = "joining" => writer = "dead"
              /\ UNCHANGED <<writer, failed, fd, interrupted>>
          BY <1>13, <2>3 DEF E!Cancel
        <3>2. Queued' = Queued /\ Flying' = Flying BY <2>0, <3>1 DEF Queued, Flying
        <3>3. RowsInv' BY <2>0, <2>3, <3>1, <3>2 DEF RowsInv
        <3>. QED BY <2>0, <2>3, <3>1, <3>3
    <2>. QED BY <1>13, <2>1, <2>2, <2>3 DEF E!Cancel
<1>14. ASSUME NEW why \in {"stopped", "other"}, E!Close(why) PROVE FileInv'
  BY <1>14 DEF E!Close, RowsInv, Flying, Queued
<1>. QED
  BY <1>1, <1>2, <1>3, <1>4, <1>5, <1>6, <1>7, <1>8, <1>9, <1>10, <1>11, <1>12, <1>13, <1>14 DEF E!Next,
    E!SessionStep

\* A file sealed as complete holds every row that was offered until then, in
\* order, and its descriptor is given back under a thread that writes only
\* after two interruptions of the wait for it, one of them from outside
\* (_drain, _write_rows, close).
THEOREM EvidencesAreTrue == E!Spec => []EvidenceIsTrue
<1>1. FileInv => EvidenceIsTrue BY DEF FileInv, WaitInv, SealInv, EvidenceIsTrue, E!EvidenceIsTrue
<1>. QED BY <1>1, FileInit, FileStep, PTL DEF E!Spec
=============================================================================
