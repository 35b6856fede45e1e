--------------------------- MODULE JournalProofs ---------------------------
(***************************************************************************)
(* Theorems about Journal, for any number of processes, failed system      *)
(* calls and power losses.                                                 *)
(*                                                                         *)
(* The argument goes in layers, each inductive given the ones before it:   *)
(*   TypeOK       every file of records has a last sequence number;        *)
(*   ClaimInv     only the process between acquire_attempt and its release *)
(*                owns the lock, so one process at a time moves the file,  *)
(*                with the workers that a second cancellation left;        *)
(*   RunInv       whose records a process has queued, and where one may be *)
(*                that was cancelled: such a worker writes its own run's;  *)
(*   SequenceInv  what a claimed process may still write continues the     *)
(*                file, up to the records of the abandoned runs;           *)
(*   StableInv    the durable image is a beginning of the cached one;      *)
(*   DurableInv   the intent of the next order is where its flush has come;*)
(*   ReplayInv    who may still send found a path under which nobody has.  *)
(* The other sections are about what shares nothing with it but the run:   *)
(* StreamState, BookRecovery and AggregateBook.  The conjuncts of their    *)
(* invariants, RecoveryInv and SocketInv, are explained where they stand.  *)
(***************************************************************************)
EXTENDS MCRecords, TLAPS, WellFoundedInduction

\* The processes between a successful acquire_attempt and their release.
Claimed(p) == pc[p] \notin {"new", "open", "done"}

\* Every claimed process owns the lock.
ClaimInv ==
    /\ pc \in [Procs -> Places]
    /\ next \in [Procs -> Places \ {"new", "open", "done"}]
    /\ \A p \in Procs : Claimed(p) => owner = p

\* The places of a send and of its answer lie inside a claim.
LEMMA LegPlaces ==
    ASSUME NEW leg \in Legs
    PROVE  /\ Sending[leg] \in {"send_source", "send_receiver"}
           /\ Answered[leg] \in {"source_answered", "receiver_answered"}
           /\ Sending[leg] \in Places \ {"new", "open", "done"}
           /\ Answered[leg] \in Places \ {"new", "open", "done"}
<1>1. CASE leg = "source" BY <1>1 DEF Sending, Answered, Places
<1>2. CASE leg = "receiver" BY <1>2 DEF Sending, Answered, Places
<1>. QED BY <1>1, <1>2 DEF Legs

\* The claim is established by Init and by every step and fault.
LEMMA ClaimInductive == Init => ClaimInv
BY DEF Init, ClaimInv, Places, Claimed

\* Every step and every fault keeps it.
LEMMA ClaimStep == ClaimInv /\ [Next]_vars => ClaimInv'
<1> SUFFICES ASSUME ClaimInv, [Next]_vars PROVE ClaimInv' OBVIOUS
<1> USE DEF ClaimInv, Claimed, Places, Goto
<1>1. CASE UNCHANGED vars BY <1>1 DEF vars
<1>2. CASE PowerLoss BY <1>2 DEF PowerLoss, Alive
<1>3. ASSUME NEW p \in Procs, Step(p) PROVE ClaimInv'
    <2>1. CASE Construct(p) BY <2>1 DEF Construct
    <2>2. CASE Acquire(p) BY <2>2, NoProcAssumption DEF Acquire
    <2>3. CASE Admit(p)
        <3>1. pc[p] = "claimed" /\ owner' = owner BY <2>3 DEF Admit
        <3>2. \/ next' = next /\ \E where \in {"release", "resume"} : pc' = [pc EXCEPT ![p] = where]
              \/ pc' = [pc EXCEPT ![p] = "write"] /\ next' = [next EXCEPT ![p] = "preflight"]
          BY <2>3 DEF Admit, AppendFlush
        <3>. QED BY <3>1, <3>2
    <2>4. CASE Preflight(p) BY <2>4, LegPlaces DEF Preflight, AppendFlush, Legs
    <2>5. ASSUME NEW leg \in Legs, Send(p, leg) PROVE ClaimInv' BY <2>5, LegPlaces DEF Send
    <2>6. CASE IntendReceiver(p) BY <2>6, LegPlaces DEF IntendReceiver, AppendFlush, Legs
    <2>7. CASE Complete(p)
        <3>1. Claimed(p) BY <2>7, LegPlaces DEF Complete
        <3>2. pc' = [pc EXCEPT ![p] = "write"] BY <2>7 DEF Complete, AppendFlush
        <3>3. next' = [next EXCEPT ![p] = "release"] BY <2>7 DEF Complete, AppendFlush
        <3>4. owner' = owner BY <2>7 DEF Complete
        <3> QED BY <3>1, <3>2, <3>3, <3>4
    <2>8. CASE Write(p) BY <2>8 DEF Write, Flushing
    <2>9. CASE Fsync(p) BY <2>9 DEF Fsync, Flushed, Flushing
    <2>10. CASE FsyncDir(p) BY <2>10 DEF FsyncDir, Flushed, Flushing
    <2>11. CASE Release(p) BY <2>11 DEF Release, Flushing
    <2> QED BY <1>3, <2>1, <2>2, <2>3, <2>4, <2>5, <2>6, <2>7, <2>8, <2>9, <2>10,
           <2>11 DEF Step
<1>4. ASSUME NEW p \in Procs, Fault(p) PROVE ClaimInv'
    <2>1. CASE WriteFails(p) BY <2>1 DEF WriteFails, Poison, Flushing
    <2>2. CASE FsyncFails(p) BY <2>2 DEF FsyncFails, Poison, Flushing
    <2>3. CASE Cancel(p) BY <2>3 DEF Cancel
    <2>4. CASE CancelDraining(p) BY <2>4 DEF CancelDraining
    <2>5. CASE Crash(p) BY <2>5 DEF Crash, Alive
    <2> QED BY <1>4, <2>1, <2>2, <2>3, <2>4, <2>5 DEF Fault
<1>5. ASSUME NEW p \in Procs, Worker(p) PROVE ClaimInv'
    <2>1. UNCHANGED <<owner, pc, next>> BY <1>5 DEF Worker, WorkerWrites, WorkerSyncs, WorkerFails
    <2>. QED BY <2>1
<1> QED BY <1>1, <1>2, <1>3, <1>4, <1>5 DEF Next

-----------------------------------------------------------------------------
(* Types.                                                                  *)

\* The events of the attempt are events of the journal.
LEMMA EventTypes ==
    /\ \A leg \in Legs : Intent[leg] \in Events
    /\ {"STARTED", "DIAGNOSTIC", "BLOCKED", "COMPLETE", "UNKNOWN"} \subseteq Events
BY DEF Events, Intents

\* An image that is extended by records is an image.
LEMMA ExtendedType ==
    ASSUME NEW f \in Images, NEW records \in Seq(Records), NEW end \in Ends
    PROVE  Extended(f, records, end) \in Images
<1>1. f.lines \o records \in Seq(Records) BY DEF Images
<1>2. "torn" \in Ends BY DEF Ends
<1>. QED BY <1>1, <1>2 DEF Extended, Images

\* A beginning of a sequence is a sequence of the same things.
LEMMA SubSeqType ==
    ASSUME NEW S, NEW s \in Seq(S), NEW n \in 0..Len(s)
    PROVE  SubSeq(s, 1, n) \in Seq(S)
OBVIOUS

\* What a flush may write are records.
LEMMA JoinedType == ASSUME TypeOK, NEW p \in Procs PROVE Joined(p) \subseteq Seq(Records)
BY DEF TypeOK, Joined

\* A short write is an extension too.
LEMMA WrittenShortIs ==
    ASSUME NEW records \in Seq(Records), WrittenShort(records)
    PROVE  \E n \in 0..Len(records), end \in Ends :
              /\ SubSeq(records, 1, n) \in Seq(Records)
              /\ file' = Extended(file, SubSeq(records, 1, n), end)
BY SubSeqType DEF WrittenShort

\* Whatever power loss leaves is an image.
LEMMA SurvivorsType == TypeOK => Survivors \subseteq Images
<1>. SUFFICES ASSUME TypeOK, NEW f \in Survivors PROVE f \in Images OBVIOUS
<1>1. NoFile \in Images BY DEF NoFile, Images, Ends
<1>2. stable \in Images /\ [stable EXCEPT !.exists = TRUE, !.end = "torn"] \in Images BY DEF TypeOK, Images, Ends
<1>3. ASSUME NEW k \in (Len(stable.lines) + 1)..Len(file.lines), NEW e \in Ends
      PROVE  [exists |-> TRUE, lines |-> SubSeq(file.lines, 1, k), end |-> e] \in Images
  BY SubSeqType DEF TypeOK, Images
<1>. QED BY <1>1, <1>2, <1>3 DEF Survivors

\* What _enqueue makes of a process's state.
LEMMA EnqueuedType ==
    ASSUME TypeOK, NEW p \in Procs, NEW run \in Procs, NEW event \in Events,
           Enqueued(p, run, event)
    PROVE  /\ sequence' \in [Procs -> Nat]
           /\ pending' \in [Procs -> Seq(Records)]
<1>1. [sequence |-> sequence[p] + 1, run |-> run, event |-> event] \in Records BY DEF TypeOK, Records
<1>. QED BY <1>1 DEF TypeOK, Enqueued

\* Every set of numbers has a least one.
LEMMA NatMin ==
    ASSUME NEW T \in SUBSET Nat, T # {}
    PROVE  \E x \in T : \A y \in T : x <= y
<1>. DEFINE R == OpToRel(<, Nat)
<1>1. IsWellFoundedOn(R, Nat) BY NatLessThanWellFounded
<1>2. \E x \in T : \A y \in T : ~(<<y, x>> \in R)
  <2>. HIDE DEF R
  <2>. QED BY <1>1, WFMin, Zenon
<1>3. \A x, y \in Nat : x < y => <<x, y>> \in R BY DEF OpToRel
<1>. QED
  <2>1. PICK x \in T : \A y \in T : ~(<<y, x>> \in R) BY <1>2
  <2>2. ASSUME NEW y \in T PROVE x <= y
    <3>1. ~(y < x) BY <1>3, <2>1
    <3>. QED BY <3>1
  <2>. QED BY <2>2

\* Every set of positions of a sequence has a greatest one.
LEMMA GreatestOf ==
    ASSUME NEW n \in Nat, NEW T \in SUBSET (1..n), T # {}
    PROVE  \E x \in T : \A y \in T : y <= x
<1>. DEFINE U == {n - x : x \in T}
<1>0. \A x \in T : n - x \in Nat OBVIOUS
<1>1. U \in SUBSET Nat /\ U # {} BY <1>0, Zenon
<1>2. PICK u \in U : \A v \in U : u <= v BY <1>1, NatMin
<1>3. PICK x \in T : u = n - x OBVIOUS
<1>4. ASSUME NEW y \in T PROVE y <= x
  <2>1. n - y \in U OBVIOUS
  <2>2. n - x <= n - y BY <1>2, <1>3, <2>1
  <2>. HIDE DEF U
  <2>. QED BY <2>2
<1>. QED BY <1>4

\* Facts about sequences of records.
LEMMA LinesSequences ==
    ASSUME NEW s \in Seq(Records), NEW i \in DOMAIN s
    PROVE  s[i].sequence \in Nat
<1>1. s[i] \in Records OBVIOUS
<1>. QED BY <1>1 DEF Records

UpTo(s, n) == \A i \in DOMAIN s : s[i].sequence <= n

\* Every finite list of numbers is bounded.
LEMMA Bounded ==
    ASSUME NEW L \in Nat, NEW g \in [1..L -> Nat]
    PROVE  \E n \in Nat : \A i \in 1..L : g[i] <= n
<1>. DEFINE Bound(k, n) == \A i \in 1..k : g[i] <= n
            T == {k \in 0..L : ~\E n \in Nat : Bound(k, n)}
<1>1. T = {}
  <2>. SUFFICES ASSUME T # {} PROVE FALSE OBVIOUS
  <2>1. T \in SUBSET Nat OBVIOUS
  <2>2. PICK x \in T : \A y \in T : x <= y BY <2>1, NatMin
  <2>3. x \in 0..L /\ ~\E n \in Nat : Bound(x, n) BY <2>2
  <2>4. x # 0
    <3>1. Bound(0, 0) OBVIOUS
    <3>. QED BY <2>3, <3>1
  <2>5. x \in 1..L /\ x - 1 \in 0..L /\ ~(x <= x - 1)
    <3>. HIDE DEF T, Bound
    <3>. QED BY <2>3, <2>4
  <2>6. x - 1 \notin T
    <3>. HIDE DEF T
    <3>. QED BY <2>2, <2>5
  <2>7. PICK n \in Nat : Bound(x - 1, n) BY <2>5, <2>6
  <2>8. PICK m \in Nat : n <= m /\ g[x] <= m
    <3>1. g[x] \in Nat BY <2>5
    <3>2. \A a, b \in Nat : a <= b \/ b <= a OBVIOUS
    <3>3. \A a \in Nat : a <= a OBVIOUS
    <3>. QED BY <3>1, <3>2, <3>3, Zenon
  <2>9. ASSUME NEW i \in 1..x PROVE g[i] <= m
    <3>1. i = x \/ i \in 1..(x - 1) BY <2>5
    <3>2. i \in 1..L BY <2>5
    <3>3. g[i] \in Nat BY <3>2
    <3>4. i \in 1..(x - 1) => g[i] <= n BY <2>7
    <3>5. \A a, b, c \in Nat : a <= b /\ b <= c => a <= c OBVIOUS
    <3>. QED BY <2>8, <3>1, <3>3, <3>4, <3>5, Zenon
  <2>. QED BY <2>3, <2>9
<1>2. L \in 0..L OBVIOUS
<1>. QED BY <1>1, <1>2

\* The last sequence of a file is its greatest.
LEMMA LastSequenceIsLast ==
    ASSUME NEW f \in Images
    PROVE  LastSequence(f) \in Nat /\ UpTo(f.lines, LastSequence(f))
<1>. DEFINE s == f.lines
            All == {r.sequence : r \in ToRange(s)}
            Greatest(n) == \A r \in ToRange(s) : r.sequence <= n
<1>0. s \in Seq(Records) BY DEF Images
<1>1. CASE s = <<>> BY <1>1 DEF LastSequence, UpTo
<1>2. CASE s # <<>>
  <2>1. \A i \in DOMAIN s : s[i].sequence \in Nat BY <1>0, LinesSequences
  <2>2. All \in SUBSET Nat /\ All # {}
    <3>1. 1 \in DOMAIN s BY <1>0, <1>2
    <3>. QED BY <2>1, <3>1 DEF ToRange
  <2>3. PICK n \in Nat : UpTo(s, n)
    <3>. DEFINE g == [i \in 1..Len(s) |-> s[i].sequence]
    <3>1. Len(s) \in Nat /\ DOMAIN s = 1..Len(s) BY <1>0
    <3>2. g \in [1..Len(s) -> Nat] BY <2>1, <3>1
    <3>3. \E n \in Nat : \A i \in 1..Len(s) : g[i] <= n
      <4>. HIDE DEF g
      <4>. QED BY <3>1, <3>2, Bounded
    <3>. QED BY <3>1, <3>3 DEF UpTo
  <2>4. \A a \in All : a \in 0..n BY <2>1, <2>3 DEF ToRange, UpTo
  <2>5. \E m \in All : \A a \in All : a <= m
    <3>. DEFINE U == {n - a : a \in All}
    <3>. HIDE DEF All
    <3>0. \A a \in All : n - a \in Nat BY <2>4
    <3>1. U \in SUBSET Nat /\ U # {} BY <2>2, <3>0, Zenon
    <3>2. PICK u \in U : \A v \in U : u <= v BY <3>1, NatMin
    <3>3. PICK m \in All : u = n - m OBVIOUS
    <3>4. ASSUME NEW a \in All PROVE a <= m
      <4>1. n - m <= n - a BY <3>2, <3>3
      <4>2. a \in 0..n /\ m \in 0..n BY <2>4, <3>3
      <4>. QED BY <4>1, <4>2
    <3>. QED BY <3>3, <3>4
  <2>6. \E m \in All : Greatest(m) BY <2>5
  <2>7. LastSequence(f) = CHOOSE m \in All : Greatest(m) BY <1>2 DEF LastSequence
  <2>8. LastSequence(f) \in All /\ Greatest(LastSequence(f))
    <3>. HIDE DEF All, Greatest
    <3>. QED BY <2>6, <2>7
  <2>9. \A i \in DOMAIN s : s[i] \in ToRange(s) BY DEF ToRange
  <2>. QED BY <2>2, <2>8, <2>9 DEF UpTo
<1>. QED BY <1>1, <1>2

\* A failed flush keeps the types of what it sets.
LEMMA PoisonType ==
    ASSUME TypeOK, NEW p \in Procs, Poison(p)
    PROVE  failed' \in [Procs -> BOOLEAN] /\ failures' \in Nat /\ pc' \in [Procs -> Places]
<1>1. failed' \in [Procs -> BOOLEAN] BY DEF TypeOK, Poison
<1>2. failures' \in Nat BY DEF TypeOK, Poison
<1>3. pc' \in [Procs -> Places] BY DEF TypeOK, Poison, Goto, Places
<1>. QED BY <1>1, <1>2, <1>3

\* A short write of what a flush joined leaves an image.
LEMMA ShortType ==
    ASSUME TypeOK, NEW p \in Procs, \E records \in Joined(p) : WrittenShort(records)
    PROVE  file' \in Images
<1>1. PICK records \in Joined(p) : WrittenShort(records) OBVIOUS
<1>2. records \in Seq(Records) BY JoinedType
<1>3. \E n \in 0..Len(records), end \in Ends :
         /\ SubSeq(records, 1, n) \in Seq(Records)
         /\ file' = Extended(file, SubSeq(records, 1, n), end)
  BY <1>1, <1>2, WrittenShortIs
<1>4. file \in Images BY DEF TypeOK
<1>. QED BY <1>3, <1>4, ExtendedType

\* Every step keeps the types.
LEMMA TypeStep == ASSUME TypeOK, [Next]_vars PROVE TypeOK'
<1>. USE DEF Goto, writerVars, workerVars
<1>1. CASE UNCHANGED vars BY <1>1 DEF vars, TypeOK
<1>2. CASE PowerLoss
  <2>1. file' \in Images /\ stable' \in Images BY <1>2, SurvivorsType DEF PowerLoss
  <2>2. entry' \in BOOLEAN BY <1>2, <2>1 DEF PowerLoss, Images
  <2>3. pc' \in [Procs -> Places] BY <1>2 DEF PowerLoss, TypeOK, Places
  <2>. QED BY <1>2, <2>1, <2>2, <2>3 DEF PowerLoss, TypeOK
<1>3. ASSUME NEW p \in Procs, Step(p) PROVE TypeOK'
  <2>1. CASE Construct(p) \/ Acquire(p)
    <3>1. LastSequence(file) \in Nat BY LastSequenceIsLast DEF TypeOK
    <3>. QED BY <2>1, <3>1 DEF Construct, Acquire, TypeOK, Places
  <2>3. CASE Admit(p)
    <3>1. UnresolvedRuns(file.lines) \subseteq Procs BY DEF UnresolvedRuns
    <3>2. ASSUME AppendFlush(p, p, "STARTED", "preflight"), UNCHANGED subject
          PROVE  TypeOK'
      <4>1. sequence' \in [Procs -> Nat] /\ pending' \in [Procs -> Seq(Records)]
        BY <3>2, EnqueuedType, EventTypes DEF AppendFlush
      <4>2. UNCHANGED <<file, stable, entry, owner, failed, created, workerVars, sent, losses, failures>>
        BY <2>3 DEF Admit
      <4>. QED BY <3>2, <4>1, <4>2 DEF AppendFlush, TypeOK, Places
    <3>3. ASSUME UNCHANGED <<next, sequence, pending>> PROVE TypeOK'
      <4>1. pc' \in [Procs -> Places]
        <5>1. \E where \in Places : pc' = [pc EXCEPT ![p] = where] BY <2>3 DEF Admit, AppendFlush, Places
        <5>. QED BY <5>1 DEF TypeOK
      <4>2. subject' \in [Procs -> Procs]
        <5>1. UNCHANGED subject \/ \E run \in Procs : subject' = [subject EXCEPT ![p] = run] BY <2>3, <3>1 DEF Admit
        <5>. QED BY <5>1 DEF TypeOK
      <4>. QED BY <2>3, <3>3, <4>1, <4>2 DEF Admit, TypeOK
    <3>. QED BY <2>3, <3>2, <3>3 DEF Admit
  <2>4. CASE Preflight(p)
    <3>1. ASSUME NEW event \in {"BLOCKED", Intent["source"]},
                 NEW then \in {"release", Sending["source"]},
                 AppendFlush(p, p, event, then)
          PROVE  TypeOK'
      BY EventTypes, LegPlaces, <2>4, <3>1, EnqueuedType DEF Legs, Places, Preflight, AppendFlush, TypeOK
    <3>2. ASSUME Enqueued(p, p, "DIAGNOSTIC"), UNCHANGED <<next, pc>> PROVE TypeOK'
      BY <2>4, <3>2, EnqueuedType, EventTypes DEF Preflight, TypeOK
    <3>. QED BY <2>4, <3>1, <3>2 DEF Preflight
  <2>5. ASSUME NEW leg \in Legs, Send(p, leg) PROVE TypeOK'
    <3>1. Answered[leg] \in Places BY LegPlaces
    <3>. QED BY <2>5, <3>1 DEF Send, TypeOK
  <2>6. CASE IntendReceiver(p)
    BY EventTypes, LegPlaces, <2>6, EnqueuedType DEF Legs, IntendReceiver, AppendFlush, TypeOK, Places
  <2>7. CASE Complete(p)
    <3>1. PICK event \in {"COMPLETE", "UNKNOWN"} : AppendFlush(p, subject[p], event, "release") BY <2>7 DEF Complete
    <3>2. event \in Events /\ subject[p] \in Procs BY EventTypes DEF TypeOK
    <3>3. sequence' \in [Procs -> Nat] /\ pending' \in [Procs -> Seq(Records)]
      BY <3>1, <3>2, EnqueuedType DEF AppendFlush
    <3>4. pc' = [pc EXCEPT ![p] = "write"] /\ next' = [next EXCEPT ![p] = "release"] BY <3>1 DEF AppendFlush
    <3>5. UNCHANGED <<file, stable, entry, owner, failed, created, workerVars,
                   subject, sent, losses, failures>>
      BY <2>7 DEF Complete
    <3>. QED BY <3>3, <3>4, <3>5 DEF TypeOK, Places
  <2>8. CASE Write(p)
    <3>1. file' \in Images
      <4>1. PICK records \in Joined(p) : file' = Extended(file, records, "clean") BY <2>8 DEF Write
      <4>. QED BY <4>1, JoinedType, ExtendedType DEF TypeOK, Ends
    <3>2. created' \in [Procs -> BOOLEAN] BY <2>8 DEF Write, TypeOK, Images
    <3>3. pc' \in [Procs -> Places] BY <2>8 DEF Write, TypeOK, Places
    <3>. QED BY <2>8, <3>1, <3>2, <3>3 DEF Write, TypeOK
  <2>9. CASE Fsync(p) \/ FsyncDir(p)
    <3>1. pc' \in [Procs -> Places] BY <2>9 DEF Fsync, FsyncDir, Flushed, TypeOK, Places
    <3>2. pending' \in [Procs -> Seq(Records)]
      <4>1. <<>> \in Seq(Records) OBVIOUS
      <4>. QED BY <2>9, <4>1 DEF Fsync, FsyncDir, Flushed, TypeOK
    <3>. QED BY <2>9, <3>1, <3>2 DEF Fsync, FsyncDir, TypeOK
  <2>11. CASE Release(p) BY <2>11 DEF Release, TypeOK, Places
  <2> QED BY <1>3, <2>1, <2>3, <2>4, <2>5, <2>6, <2>7, <2>8, <2>9, <2>11 DEF Step
<1>4. ASSUME NEW p \in Procs, Fault(p) PROVE TypeOK'
  <2>1. CASE WriteFails(p)
    <3>1. file' \in Images BY <2>1, ShortType DEF WriteFails
    <3>2. Poison(p) BY <2>1 DEF WriteFails
    <3>3. failed' \in [Procs -> BOOLEAN] /\ failures' \in Nat /\ pc' \in [Procs -> Places] BY <3>2, PoisonType
    <3>4. created' \in [Procs -> BOOLEAN] BY <2>1 DEF WriteFails, TypeOK, Images
    <3>. QED BY <2>1, <3>1, <3>3, <3>4 DEF WriteFails, TypeOK
  <2>2. CASE FsyncFails(p) BY <2>2, PoisonType DEF FsyncFails, TypeOK
  <2>3. CASE Cancel(p) BY <2>3 DEF Cancel, TypeOK
  <2>4. CASE CancelDraining(p)
    <3>1. pc' \in [Procs -> Places] BY <2>4 DEF CancelDraining, TypeOK, Places
    <3>2. worker' \in [Procs -> {"none", "write", "fsync"}] BY <2>4 DEF CancelDraining, TypeOK
    <3>3. batch' \in [Procs -> Seq(Records)] BY <2>4 DEF CancelDraining, TypeOK
    <3>4. cancels' \in [Procs -> 0..2] BY <2>4 DEF CancelDraining, TypeOK
    <3>. QED BY <2>4, <3>1, <3>2, <3>3, <3>4 DEF CancelDraining, TypeOK
  <2>5. CASE Crash(p) BY <2>5 DEF Crash, WorkerLeaves, TypeOK, Places
  <2> QED BY <1>4, <2>1, <2>2, <2>3, <2>4, <2>5 DEF Fault
<1>5. ASSUME NEW p \in Procs, Worker(p) PROVE TypeOK'
  <2>1. CASE WorkerWrites(p)
    <3>1. file' \in Images
      <4>1. CASE UNCHANGED file BY <4>1 DEF TypeOK
      <4>2. ASSUME NEW records \in Joined(p), file' = Extended(file, records, "clean")
            PROVE  file' \in Images
        BY <4>2, JoinedType, ExtendedType DEF TypeOK, Ends
      <4>. QED BY <2>1, <4>1, <4>2 DEF WorkerWrites
    <3>2. worker' \in [Procs -> {"none", "write", "fsync"}] BY <2>1 DEF WorkerWrites, WorkerLeaves, TypeOK
    <3>. QED BY <2>1, <3>1, <3>2 DEF WorkerWrites, TypeOK
  <2>2. CASE WorkerSyncs(p)
    <3>1. pending' \in [Procs -> Seq(Records)]
      <4>1. <<>> \in Seq(Records) OBVIOUS
      <4>. QED BY <2>2, <4>1 DEF WorkerSyncs, TypeOK
    <3>2. worker' \in [Procs -> {"none", "write", "fsync"}] BY <2>2 DEF WorkerSyncs, WorkerLeaves, TypeOK
    <3>. QED BY <2>2, <3>1, <3>2 DEF WorkerSyncs, TypeOK
  <2>3. CASE WorkerFails(p)
    <3>1. file' \in Images BY <2>3, ShortType DEF WorkerFails, TypeOK
    <3>2. worker' \in [Procs -> {"none", "write", "fsync"}] BY <2>3 DEF WorkerFails, WorkerLeaves, TypeOK
    <3>3. failed' \in [Procs -> BOOLEAN] BY <2>3 DEF WorkerFails, TypeOK
    <3>4. failures' \in Nat BY <2>3 DEF WorkerFails, TypeOK
    <3>5. UNCHANGED <<stable, entry, owner, pc, next, sequence, pending, created, subject,
                      cancels, batch, sent, losses>>
      BY <2>3 DEF WorkerFails
    <3>. QED BY <3>1, <3>2, <3>3, <3>4, <3>5 DEF TypeOK
  <2>. QED BY <1>5, <2>1, <2>2, <2>3 DEF Worker
<1> QED BY <1>1, <1>2, <1>3, <1>4, <1>5 DEF Next

-----------------------------------------------------------------------------
(* Whose records a process has queued.                                     *)

\* A process that only flushes what is left and releases.
Leaving(p) ==
    pc[p] \in {"release", "done"} \/ (pc[p] \in Flushing /\ next[p] = "release")

\* Records of one run.
AreOf(s, run) == \A i \in DOMAIN s : s[i].run = run

\* The process has sent its second order.
BothSent(p) == <<p, "receiver">> \in sent

\* Where a cancelled task is; that it never sent the receiver's order; and
\* that the worker it left writes records of its own run.
OwnRun(p) ==
    /\ pc[p] \in {"new", "open", "claimed"} => pending[p] = <<>> /\ subject[p] = p
    /\ AreOf(pending[p], subject[p])
    /\ subject[p] = p \/ pc[p] = "resume" \/ Leaving(p)
    /\ BothSent(p) =>
          (Leaving(p) \/ pc[p] = "receiver_answered") /\ cancels[p] = 0
    /\ cancels[p] = 1 => Leaving(p) \/ (pc[p] \in Flushing /\ next[p] = Sending["receiver"])
    /\ cancels[p] = 2 =>
          Leaving(p) /\ subject[p] = p /\ AreOf(batch[p], p)
    /\ worker[p] # "none" => cancels[p] = 2

RunInv == \A p \in Procs : OwnRun(p)

\* A step of one process leaves the state of the others alone.
Apart(p) ==
    \A q \in Procs \ {p} :
        /\ pc'[q] = pc[q] /\ next'[q] = next[q] /\ sequence'[q] = sequence[q]
        /\ pending'[q] = pending[q] /\ failed'[q] = failed[q] /\ subject'[q] = subject[q]
        /\ cancels'[q] = cancels[q] /\ worker'[q] = worker[q] /\ batch'[q] = batch[q]
        /\ \A leg \in Legs : <<q, leg>> \in sent' => <<q, leg>> \in sent

\* Only a claimed process touches the file or sends, its worker apart.
OnlyMoves(p) == Apart(p) /\ (~Claimed(p) => UNCHANGED <<file, stable, entry, sent>>)

\* A step or a fault of p moves p alone, and the file only under p's claim.
LEMMA Frame ==
    ASSUME TypeOK, NEW p \in Procs, Step(p) \/ Fault(p)
    PROVE  OnlyMoves(p)
<1>. USE DEF OnlyMoves, Apart, Claimed, Goto, writerVars, workerVars
<1>1. CASE Construct(p) \/ Acquire(p) BY <1>1 DEF Construct, Acquire, TypeOK
<1>2. CASE Admit(p) BY <1>2 DEF Admit, AppendFlush, Enqueued, TypeOK
<1>3. CASE Preflight(p) BY <1>3 DEF Preflight, AppendFlush, Enqueued, TypeOK
<1>4. ASSUME NEW leg \in Legs, Send(p, leg) PROVE OnlyMoves(p) BY <1>4, LegPlaces DEF Send, TypeOK
<1>5. CASE IntendReceiver(p) \/ Complete(p)
  <2>1. Claimed(p) BY <1>5, LegPlaces DEF IntendReceiver, Complete, Legs
  <2>2. \E run, event, then : AppendFlush(p, run, event, then) BY <1>5 DEF IntendReceiver, Complete
  <2>3. UNCHANGED <<failed, subject, workerVars, sent>> BY <1>5 DEF IntendReceiver, Complete
  <2>. QED BY <2>1, <2>2, <2>3 DEF AppendFlush, Enqueued, TypeOK
<1>6. CASE Write(p) \/ Fsync(p) \/ FsyncDir(p) BY <1>6 DEF Write, Fsync, FsyncDir, Flushed, TypeOK
<1>7. CASE Release(p) \/ Cancel(p) \/ CancelDraining(p) \/ Crash(p)
  BY <1>7 DEF Release, Cancel, CancelDraining, Crash, WorkerLeaves, TypeOK
<1>8. CASE WriteFails(p) \/ FsyncFails(p) BY <1>8 DEF WriteFails, FsyncFails, Poison, TypeOK
<1>. QED BY <1>1, <1>2, <1>3, <1>4, <1>5, <1>6, <1>7, <1>8 DEF Step, Fault

\* What the worker of p does to the rest.
WorkerMoves(p) ==
    /\ Apart(p)
    /\ UNCHANGED <<pc, next, sequence, subject, cancels, batch, sent>>
    /\ worker[p] # "none"
    /\ pending'[p] \in {pending[p], <<>>}

LEMMA WorkerFrame ==
    ASSUME TypeOK, NEW p \in Procs, Worker(p)
    PROVE  WorkerMoves(p)
<1>. USE DEF WorkerMoves, Apart, writerVars, WorkerLeaves
<1>1. CASE WorkerWrites(p) BY <1>1 DEF WorkerWrites, TypeOK
<1>2. CASE WorkerSyncs(p) BY <1>2 DEF WorkerSyncs, TypeOK
<1>3. CASE WorkerFails(p) BY <1>3 DEF WorkerFails, TypeOK
<1>. QED BY <1>1, <1>2, <1>3 DEF Worker

\* What the run of a queued record is.
LEMMA EnqueuedRun ==
    ASSUME TypeOK, NEW p \in Procs, NEW event \in Events, Enqueued(p, subject[p], event),
           UNCHANGED subject, AreOf(pending[p], subject[p])
    PROVE  AreOf(pending'[p], subject'[p])
<1>. DEFINE r == [sequence |-> sequence[p] + 1, run |-> subject[p], event |-> event]
<1>1. pending'[p] = Append(pending[p], r) /\ pending[p] \in Seq(Records) BY DEF TypeOK, Enqueued
<1>2. r.run = subject[p] OBVIOUS
<1>. HIDE DEF r
<1>3. /\ DOMAIN Append(pending[p], r) = 1..(Len(pending[p]) + 1)
      /\ Append(pending[p], r)[Len(pending[p]) + 1] = r
      /\ \A i \in 1..Len(pending[p]) : Append(pending[p], r)[i] = pending[p][i]
      /\ DOMAIN pending[p] = 1..Len(pending[p]) /\ Len(pending[p]) \in Nat
  BY <1>1
<1>4. \A i \in 1..(Len(pending[p]) + 1) : i \in 1..Len(pending[p]) \/ i = Len(pending[p]) + 1
  BY <1>3
<1>. QED BY <1>1, <1>2, <1>3, <1>4 DEF AreOf

\* Nothing is of any run.
LEMMA NoneAreOf == \A run : AreOf(<<>>, run)
BY DEF AreOf

\* The places of the receiver's order.
LEMMA ReceiverPlaces ==
    /\ Sending["receiver"] = "send_receiver" /\ Sending["source"] = "send_source"
    /\ Answered["receiver"] = "receiver_answered" /\ Answered["source"] = "source_answered"
    /\ \A leg \in Legs : leg \in {"source", "receiver"}
BY DEF Sending, Answered, Legs

\* Before its second order, and out of its flush, a process was not cancelled.
LEMMA InCourse ==
    ASSUME TypeOK, NEW p \in Procs, OwnRun(p),
           pc[p] \in {"claimed", "preflight", "resume", "send_source", "source_answered", "send_receiver"}
    PROVE  /\ ~Leaving(p) /\ ~BothSent(p) /\ cancels[p] = 0 /\ worker[p] = "none"
           /\ pc[p] # "resume" => subject[p] = p
<1>1. ~Leaving(p) BY DEF Leaving, Flushing
<1>2. ~BothSent(p) /\ (pc[p] # "resume" => subject[p] = p) BY <1>1 DEF OwnRun
<1>3. cancels[p] \in 0..2 BY DEF TypeOK
<1>4. cancels[p] # 1 /\ cancels[p] # 2 BY <1>1 DEF OwnRun, Flushing
<1>5. cancels[p] = 0 BY <1>3, <1>4
<1>6. worker[p] = "none" BY <1>5 DEF OwnRun
<1>. QED BY <1>1, <1>2, <1>5, <1>6

\* Every step, fault, worker and power loss keeps RunInv.
LEMMA RunStep == ASSUME TypeOK, ClaimInv, RunInv, [Next]_vars PROVE RunInv'
<1>. USE DEF Goto, writerVars, workerVars
<1>1. CASE UNCHANGED vars BY <1>1 DEF vars, RunInv, OwnRun, Leaving, BothSent
<1>2. CASE PowerLoss
  <2>. SUFFICES ASSUME NEW p \in Procs PROVE OwnRun(p)' BY DEF RunInv
  <2>1. OwnRun(p) /\ UNCHANGED <<pending, subject, cancels, batch, sent, next>> /\ worker'[p] = "none"
    BY <1>2 DEF PowerLoss, RunInv
  <2>2. pc'[p] = "done" \/ (pc'[p] = pc[p] /\ pc[p] \in {"new", "done"})
    BY <1>2 DEF PowerLoss, Alive
  <2>. QED BY <2>1, <2>2 DEF OwnRun, Leaving, BothSent
<1>3. ASSUME NEW p \in Procs, Apart(p), OwnRun(p)' PROVE RunInv'
  <2>1. ASSUME NEW q \in Procs, q # p PROVE OwnRun(q)'
    <3>1. /\ pc'[q] = pc[q] /\ next'[q] = next[q] /\ pending'[q] = pending[q]
          /\ subject'[q] = subject[q] /\ cancels'[q] = cancels[q] /\ worker'[q] = worker[q]
          /\ batch'[q] = batch[q] /\ OwnRun(q)
          /\ BothSent(q)' => BothSent(q)
      BY <1>3, <2>1 DEF Apart, RunInv, Legs, BothSent
    <3>. QED BY <3>1 DEF OwnRun, Leaving
  <2>. QED BY <1>3, <2>1 DEF RunInv
<1>4. ASSUME NEW p \in Procs, Step(p) \/ Fault(p) PROVE RunInv'
  <2>a. Apart(p) BY <1>4, Frame DEF OnlyMoves
  <2>b. OwnRun(p) BY DEF RunInv
  <2>c. SUFFICES OwnRun(p)' BY <1>3, <2>a
  <2>d. ASSUME UNCHANGED <<pending, subject, cancels, worker, batch, sent>>,
               pc'[p] \in {"release", "done"}
        PROVE  OwnRun(p)'
    BY <2>b, <2>d DEF OwnRun, Leaving, BothSent
  <2>e. ASSUME NEW event \in Events, NEW then, AppendFlush(p, subject[p], event, then),
               UNCHANGED <<subject, workerVars, sent>>, cancels[p] = 0,
               BothSent(p) => then = "release",
               subject[p] = p \/ then = "release"
        PROVE  OwnRun(p)'
    <3>1. pc'[p] = "write" /\ next'[p] = then BY <2>e DEF AppendFlush, TypeOK
    <3>2. AreOf(pending'[p], subject'[p])
      BY <2>b, <2>e, EnqueuedRun DEF AppendFlush, OwnRun
    <3>3. UNCHANGED <<subject, cancels, worker, batch, sent>> BY <2>e
    <3>4. (BothSent(p)' <=> BothSent(p)) /\ (Leaving(p)' <=> then = "release")
      BY <3>1, <3>3 DEF BothSent, Leaving, Flushing
    <3>5. worker'[p] = "none" /\ cancels'[p] = 0 BY <2>b, <2>e, <3>3 DEF OwnRun
    <3>. QED BY <2>e, <3>1, <3>2, <3>3, <3>4, <3>5 DEF OwnRun
  <2>1. CASE Construct(p) \/ Acquire(p)
    <3>1. /\ UNCHANGED <<pending, subject, cancels, worker, batch, sent>>
          /\ pc[p] \in {"new", "open"} /\ pc'[p] \in {"open", "claimed", "done"}
      BY <2>1 DEF Construct, Acquire, TypeOK
    <3>. QED BY <2>b, <3>1 DEF OwnRun, Leaving, Flushing, BothSent
  <2>2. CASE Admit(p)
    <3>1. /\ UNCHANGED <<cancels, worker, batch, sent>> /\ pc[p] = "claimed"
          /\ pending[p] = <<>> /\ subject[p] = p
      BY <2>2, <2>b DEF Admit, OwnRun
    <3>2. ~Leaving(p) /\ ~BothSent(p) /\ cancels[p] = 0 /\ worker[p] = "none" BY <2>b, <3>1, InCourse
    <3>3. CASE AppendFlush(p, p, "STARTED", "preflight") /\ UNCHANGED subject
      BY <2>e, <2>2, <3>1, <3>2, <3>3, EventTypes DEF Admit
    <3>4. CASE UNCHANGED <<pending, subject>> /\ pc'[p] = "release" BY <2>d, <3>1, <3>4
    <3>5. CASE UNCHANGED pending /\ pc'[p] = "resume"
      BY <2>b, <3>1, <3>2, <3>5, NoneAreOf DEF OwnRun, BothSent
    <3>. QED BY <2>2, <3>3, <3>4, <3>5 DEF Admit, TypeOK
  <2>3. CASE Preflight(p)
    <3>1. pc[p] = "preflight" /\ UNCHANGED <<subject, workerVars, sent>> BY <2>3 DEF Preflight
    <3>2. /\ ~Leaving(p) /\ subject[p] = p /\ ~BothSent(p)
          /\ cancels[p] = 0
      BY <2>b, <3>1, InCourse
    <3>3. ASSUME NEW event \in Events, NEW then, AppendFlush(p, p, event, then) PROVE OwnRun(p)'
      BY <2>e, <3>1, <3>2, <3>3
    <3>4. CASE Enqueued(p, p, "DIAGNOSTIC") /\ UNCHANGED <<next, pc>>
      <4>1. AreOf(pending'[p], subject'[p])
        BY <2>b, <3>1, <3>2, <3>4, EnqueuedRun, EventTypes DEF OwnRun
      <4>. QED BY <2>b, <3>1, <3>2, <3>4, <4>1 DEF OwnRun, BothSent
    <3>. QED BY <2>3, <3>3, <3>4, EventTypes DEF Preflight, Legs
  <2>4. ASSUME NEW leg \in Legs, Send(p, leg) PROVE OwnRun(p)'
    <3>1. /\ pc[p] = Sending[leg] /\ pc'[p] = Answered[leg] /\ sent' = sent \cup {<<p, leg>>}
          /\ UNCHANGED <<pending, subject, cancels, worker, batch, next>>
      BY <2>4 DEF Send, TypeOK
    <3>2. pc[p] \in {"send_source", "send_receiver"} BY <3>1, LegPlaces
    <3>3. /\ ~Leaving(p) /\ subject[p] = p /\ ~BothSent(p)
          /\ cancels[p] = 0 /\ worker[p] = "none"
      BY <2>b, <3>2, InCourse
    <3>4. BothSent(p)' => leg = "receiver" BY <3>1, <3>3 DEF BothSent
    <3>5. pc'[p] \in {"source_answered", "receiver_answered"}
          /\ (leg = "receiver" => pc'[p] = "receiver_answered")
      BY <3>1, LegPlaces, ReceiverPlaces
    <3>. QED BY <2>b, <3>1, <3>3, <3>4, <3>5 DEF OwnRun
  <2>5. CASE IntendReceiver(p)
    <3>1. /\ pc[p] = "source_answered" /\ UNCHANGED <<subject, workerVars, sent>>
          /\ AppendFlush(p, p, Intent["receiver"], Sending["receiver"])
      BY <2>5, ReceiverPlaces DEF IntendReceiver
    <3>2. /\ ~Leaving(p) /\ subject[p] = p /\ ~BothSent(p)
          /\ cancels[p] = 0
      BY <2>b, <3>1, InCourse
    <3>. QED BY <2>e, <3>1, <3>2, EventTypes DEF Legs
  <2>6. CASE Complete(p)
    <3>1. PICK event \in {"COMPLETE", "UNKNOWN"} : AppendFlush(p, subject[p], event, "release") BY <2>6 DEF Complete
    <3>2. /\ pc[p] \in {"source_answered", "receiver_answered", "resume"}
          /\ UNCHANGED <<subject, workerVars, sent>>
      BY <2>6, LegPlaces DEF Complete
    <3>3. cancels[p] = 0
      <4>1. ~Leaving(p) BY <3>2 DEF Leaving, Flushing
      <4>2. cancels[p] \in 0..2 BY DEF TypeOK
      <4>3. cancels[p] # 1 /\ cancels[p] # 2 BY <2>b, <3>2, <4>1 DEF OwnRun, Flushing
      <4>. QED BY <4>2, <4>3
    <3>. QED BY <2>e, <3>1, <3>2, <3>3, EventTypes
  <2>7. CASE Write(p)
    <3>1. /\ pc[p] = "write" /\ pc'[p] = "fsync"
          /\ UNCHANGED <<next, pending, subject, cancels, worker, batch, sent>>
      BY <2>7 DEF Write, TypeOK
    <3>. QED BY <2>b, <3>1 DEF OwnRun, Leaving, Flushing, BothSent
  <2>8. CASE Fsync(p) \/ FsyncDir(p)
    <3>1. /\ pc[p] \in {"fsync", "fsyncdir"}
          /\ UNCHANGED <<next, subject, cancels, worker, batch, sent>>
          /\ \/ pc'[p] = "fsyncdir" /\ UNCHANGED pending
             \/ pending'[p] = <<>> /\ (pc'[p] = "release" \/ (cancels[p] = 0 /\ pc'[p] = next[p]))
      <4>1. cancels[p] \in 0..2 BY DEF TypeOK
      <4>2. Flushed(p) => /\ pending'[p] = <<>>
                          /\ pc'[p] = "release" \/ (cancels[p] = 0 /\ pc'[p] = next[p])
        BY <4>1 DEF Flushed, TypeOK
      <4>. QED BY <2>8, <4>2 DEF Fsync, FsyncDir, TypeOK
    <3>2. CASE pc'[p] = "fsyncdir" /\ UNCHANGED pending BY <2>b, <3>1, <3>2 DEF OwnRun, Leaving, Flushing, BothSent
    <3>3. CASE pending'[p] = <<>> /\ pc'[p] = "release"
      BY <2>b, <3>1, <3>3, NoneAreOf DEF OwnRun, Leaving, Flushing, BothSent
    <3>4. CASE pending'[p] = <<>> /\ pc'[p] = next[p] /\ cancels[p] = 0
      <4>1. next[p] \notin {"new", "open", "done"} BY DEF ClaimInv
      <4>2. next[p] = "release" => Leaving(p)' BY <3>4 DEF Leaving
      <4>3. Leaving(p) => next[p] = "release" BY <3>1 DEF Leaving
      <4>4. pc'[p] = "claimed" => subject[p] = p BY <2>b, <3>1, <3>4, <4>3 DEF OwnRun
      <4>. QED BY <2>b, <3>1, <3>4, <4>1, <4>2, <4>3, <4>4, NoneAreOf DEF OwnRun, BothSent
    <3>. QED BY <3>1, <3>2, <3>3, <3>4 DEF TypeOK
  <2>9. CASE Release(p)
    <3>1. /\ UNCHANGED <<pending, subject, cancels, worker, batch, sent>> /\ pc[p] = "release"
          /\ \/ pc'[p] = "done"
             \/ pc'[p] = "write" /\ next'[p] = "release"
      BY <2>9 DEF Release, TypeOK
    <3>. QED BY <2>b, <3>1 DEF OwnRun, Leaving, Flushing, BothSent
  <2>10. CASE WriteFails(p) \/ FsyncFails(p)
    BY <2>10, <2>d DEF WriteFails, FsyncFails, Poison, TypeOK
  <2>11. CASE Cancel(p)
    <3>1. /\ pc[p] \in Flushing /\ next[p] = "send_receiver" /\ cancels[p] = 0 /\ cancels'[p] = 1
          /\ UNCHANGED <<pc, next, pending, subject, worker, batch, sent>>
      BY <2>11, ReceiverPlaces DEF Cancel, TypeOK
    <3>2. ~BothSent(p) BY <2>b, <3>1 DEF OwnRun, Leaving, Flushing, BothSent
    <3>3. /\ (BothSent(p)' <=> BothSent(p)) /\ (Leaving(p)' <=> Leaving(p))
          /\ pc'[p] \in Flushing /\ next'[p] = Sending["receiver"] /\ ~Leaving(p)
      BY <3>1, ReceiverPlaces DEF BothSent, Leaving, Flushing
    <3>4. worker'[p] = "none" BY <2>b, <3>1 DEF OwnRun
    <3>. QED BY <2>b, <3>1, <3>2, <3>3, <3>4 DEF OwnRun
  <2>12. CASE CancelDraining(p)
    <3>1. /\ pc[p] \in {"write", "fsync"} /\ next[p] = "send_receiver" /\ cancels[p] = 1
          /\ cancels'[p] = 2 /\ pc'[p] = "release" /\ batch'[p] = pending[p]
          /\ UNCHANGED <<next, pending, subject, sent>>
      BY <2>12, ReceiverPlaces DEF CancelDraining, TypeOK
    <3>2. ~BothSent(p) /\ subject[p] = p BY <2>b, <3>1 DEF OwnRun, Leaving, Flushing, BothSent
    <3>. QED BY <2>b, <3>1, <3>2 DEF OwnRun, Leaving, BothSent
  <2>13. CASE Crash(p)
    <3>1. /\ UNCHANGED <<pending, subject, cancels, batch, sent>> /\ pc'[p] = "done" /\ worker'[p] = "none"
      BY <2>13 DEF Crash, WorkerLeaves, TypeOK
    <3>. QED BY <2>b, <3>1 DEF OwnRun, Leaving, BothSent
  <2>. QED BY <1>4, <2>1, <2>2, <2>3, <2>4, <2>5, <2>6, <2>7, <2>8, <2>9, <2>10, <2>11, <2>12, <2>13
    DEF Step, Fault
<1>5. ASSUME NEW p \in Procs, Worker(p) PROVE RunInv'
  <2>1. WorkerMoves(p) /\ OwnRun(p) BY <1>5, WorkerFrame DEF RunInv
  <2>2. OwnRun(p)' BY <2>1, NoneAreOf DEF WorkerMoves, OwnRun, Leaving, BothSent
  <2>. QED BY <1>3, <2>1, <2>2 DEF WorkerMoves
<1>. QED BY <1>1, <1>2, <1>4, <1>5 DEF Next

\* Nobody has been cancelled at first.
LEMMA RunInductive == Init => RunInv
BY NoneAreOf DEF Init, RunInv, OwnRun, BothSent

-----------------------------------------------------------------------------
(* The sequence numbers, of the runs outside the set `but`.                *)

\* A record comes before another, unless its run or the other's is excepted.
Rises(r, t, but) == r.sequence < t.sequence \/ r.run \in but \/ t.run \in but

Increasing(s, but) == \A i, j \in DOMAIN s : i < j => Rises(s[i], s[j], but)

UpToBut(s, n, but) == \A i \in DOMAIN s : s[i].sequence <= n \/ s[i].run \in but

Precedes(s, t, but) == \A i \in DOMAIN s, j \in DOMAIN t : Rises(s[i], t[j], but)

\* The records a claimed process may still write continue the file.
Numbered(p) ==
    /\ UpToBut(file.lines, sequence[p], Abandoned)
    /\ pc[p] \notin {"fsync", "fsyncdir"} =>
          /\ Increasing(pending[p], Abandoned) /\ UpToBut(pending[p], sequence[p], Abandoned)
          /\ Precedes(file.lines, pending[p], Abandoned)

OwnSequence(p) ==
    /\ failed[p] => pc[p] \in {"release", "done"} \/ p \in Abandoned
    /\ Claimed(p) /\ ~failed[p] /\ p \notin Abandoned => Numbered(p)

SequenceInv ==
    /\ Increasing(file.lines, Abandoned) /\ Increasing(stable.lines, Abandoned)
    /\ \A p \in Procs : OwnSequence(p)

\* Lines in order followed by greater ones in order are in order.
LEMMA ConcatIncreasing ==
    ASSUME NEW but, NEW s \in Seq(Records), NEW t \in Seq(Records),
           Increasing(s, but), Increasing(t, but), Precedes(s, t, but)
    PROVE  Increasing(s \o t, but)
<1>. DEFINE u == s \o t
<1>1. SUFFICES ASSUME NEW i \in 1..(Len(s) + Len(t)), NEW j \in 1..(Len(s) + Len(t)), i < j
               PROVE  Rises(u[i], u[j], but)
  BY DEF Increasing
<1>2. /\ Len(s) \in Nat /\ Len(t) \in Nat /\ DOMAIN s = 1..Len(s) /\ DOMAIN t = 1..Len(t)
      /\ \A k \in 1..Len(s) : u[k] = s[k]
      /\ \A k \in 1..Len(t) : u[Len(s) + k] = t[k]
  OBVIOUS
<1>. HIDE DEF u
<1>3. CASE j <= Len(s)
  <2>1. i \in DOMAIN s /\ j \in DOMAIN s /\ u[i] = s[i] /\ u[j] = s[j] BY <1>1, <1>2, <1>3
  <2>. QED BY <1>1, <2>1 DEF Increasing
<1>4. CASE i > Len(s)
  <2>1. i - Len(s) \in 1..Len(t) /\ j - Len(s) \in 1..Len(t) /\ i - Len(s) < j - Len(s) BY <1>1, <1>2, <1>4
  <2>2. i = Len(s) + (i - Len(s)) /\ j = Len(s) + (j - Len(s)) BY <1>2
  <2>3. u[i] = t[i - Len(s)] /\ u[j] = t[j - Len(s)] BY <1>2, <2>1, <2>2
  <2>. QED BY <1>2, <2>1, <2>3 DEF Increasing
<1>5. CASE i <= Len(s) /\ j > Len(s)
  <2>1. i \in 1..Len(s) /\ j - Len(s) \in 1..Len(t) /\ j = Len(s) + (j - Len(s)) BY <1>1, <1>2, <1>5
  <2>2. u[i] = s[i] /\ u[j] = t[j - Len(s)] BY <1>2, <2>1
  <2>. QED BY <1>2, <2>1, <2>2 DEF Precedes
<1>. QED BY <1>1, <1>2, <1>3, <1>4, <1>5

\* What is below or before on both sides is so on the whole.
LEMMA ConcatBelow ==
    ASSUME NEW but, NEW s \in Seq(Records), NEW t \in Seq(Records)
    PROVE  /\ \A n : UpToBut(s, n, but) /\ UpToBut(t, n, but) => UpToBut(s \o t, n, but)
           /\ \A r : Precedes(s, r, but) /\ Precedes(t, r, but) => Precedes(s \o t, r, but)
<1>. DEFINE u == s \o t
<1>1. \A k \in DOMAIN u : (\E i \in DOMAIN s : u[k] = s[i]) \/ (\E i \in DOMAIN t : u[k] = t[i])
  <2>1. /\ Len(s) \in Nat /\ Len(t) \in Nat /\ DOMAIN s = 1..Len(s) /\ DOMAIN t = 1..Len(t)
        /\ \A k \in 1..Len(s) : u[k] = s[k]
        /\ \A k \in 1..Len(t) : u[Len(s) + k] = t[k]
        /\ DOMAIN u = 1..(Len(s) + Len(t))
    OBVIOUS
  <2>. HIDE DEF u
  <2>2. ASSUME NEW k \in DOMAIN u, ~(k \in 1..Len(s)) PROVE \E i \in DOMAIN t : u[k] = t[i]
    <3>1. k - Len(s) \in 1..Len(t) /\ k = Len(s) + (k - Len(s)) BY <2>1, <2>2
    <3>. QED BY <2>1, <3>1
  <2>. QED BY <2>1, <2>2
<1>. HIDE DEF u
<1>2. \A n : UpToBut(s, n, but) /\ UpToBut(t, n, but) => UpToBut(u, n, but) BY <1>1 DEF UpToBut
<1>3. \A r : Precedes(s, r, but) /\ Precedes(t, r, but) => Precedes(u, r, but) BY <1>1 DEF Precedes
<1>. QED BY <1>2, <1>3 DEF u

\* A beginning keeps order, bound and precedence.
LEMMA PrefixKeeps ==
    ASSUME NEW s \in Seq(Records), NEW k \in 0..Len(s)
    PROVE  LET t == SubSeq(s, 1, k)
           IN  /\ t \in Seq(Records) /\ DOMAIN t = 1..k /\ \A i \in 1..k : t[i] = s[i]
               /\ \A but : Increasing(s, but) => Increasing(t, but)
               /\ \A but : \A r : Precedes(r, s, but) => Precedes(r, t, but)
               /\ \A run : AreOf(s, run) => AreOf(t, run)
<1>. DEFINE t == SubSeq(s, 1, k)
<1>1. t \in Seq(Records) /\ DOMAIN t = 1..k /\ \A i \in 1..k : t[i] = s[i] /\ i \in DOMAIN s OBVIOUS
<1>. HIDE DEF t
<1>2. \A but : Increasing(s, but) => Increasing(t, but) BY <1>1 DEF Increasing
<1>3. \A but : \A r : Precedes(r, s, but) => Precedes(r, t, but) BY <1>1 DEF Precedes
<1>4. \A run : AreOf(s, run) => AreOf(t, run) BY <1>1 DEF AreOf
<1>. QED BY <1>1, <1>2, <1>3, <1>4 DEF t

\* A record with the next number continues them all.
LEMMA AppendNumbered ==
    ASSUME NEW but, NEW s \in Seq(Records), NEW t \in Seq(Records), NEW n \in Nat,
           NEW r \in Records, r.sequence = n + 1,
           UpToBut(s, n, but), UpToBut(t, n, but), Increasing(t, but), Precedes(s, t, but)
    PROVE  /\ Increasing(Append(t, r), but) /\ UpToBut(Append(t, r), n + 1, but)
           /\ Precedes(s, Append(t, r), but) /\ UpToBut(s, n + 1, but)
<1>. DEFINE a == Append(t, r)
<1>1. /\ DOMAIN a = 1..(Len(t) + 1) /\ a[Len(t) + 1] = r
      /\ \A i \in 1..Len(t) : a[i] = t[i] /\ i \in DOMAIN t
      /\ DOMAIN t = 1..Len(t) /\ Len(t) \in Nat
  OBVIOUS
<1>. HIDE DEF a
<1>2. \A i \in 1..(Len(t) + 1) : i \in 1..Len(t) \/ i = Len(t) + 1 BY <1>1
<1>3. /\ \A i \in DOMAIN t : t[i].sequence \in Nat
      /\ \A i \in DOMAIN s : s[i].sequence \in Nat
  BY LinesSequences
<1>4. \A i \in 1..Len(t) : Rises(t[i], r, but) BY <1>1, <1>3 DEF UpToBut, Rises
<1>5. \A i \in DOMAIN s : Rises(s[i], r, but) BY <1>3 DEF UpToBut, Rises
<1>6. Increasing(a, but)
  <2>. SUFFICES ASSUME NEW i \in DOMAIN a, NEW j \in DOMAIN a, i < j PROVE Rises(a[i], a[j], but)
    BY DEF Increasing
  <2>1. i \in 1..Len(t) BY <1>1
  <2>2. CASE j = Len(t) + 1 BY <1>1, <1>4, <2>1, <2>2
  <2>3. CASE j \in 1..Len(t) BY <1>1, <2>1, <2>3 DEF Increasing
  <2>. QED BY <1>1, <1>2, <2>2, <2>3
<1>7. UpToBut(a, n + 1, but)
  <2>. SUFFICES ASSUME NEW i \in DOMAIN a PROVE a[i].sequence <= n + 1 \/ a[i].run \in but BY DEF UpToBut
  <2>1. CASE i = Len(t) + 1 BY <1>1, <2>1
  <2>2. CASE i \in 1..Len(t) BY <1>1, <1>3, <2>2 DEF UpToBut
  <2>. QED BY <1>1, <1>2, <2>1, <2>2
<1>8. Precedes(s, a, but) BY <1>1, <1>2, <1>5 DEF Precedes
<1>9. UpToBut(s, n + 1, but) BY <1>3 DEF UpToBut
<1>. QED BY <1>6, <1>7, <1>8, <1>9 DEF a

\* Excepting more runs loses nothing.
LEMMA Monotone ==
    ASSUME NEW but, NEW more, but \subseteq more
    PROVE  /\ \A s : Increasing(s, but) => Increasing(s, more)
           /\ \A s, n : UpToBut(s, n, but) => UpToBut(s, n, more)
           /\ \A s, t : Precedes(s, t, but) => Precedes(s, t, more)
BY DEF Increasing, UpToBut, Precedes, Rises

\* Records of an excepted run disturb nothing.
LEMMA Excepted ==
    ASSUME NEW but, NEW run \in but, NEW t, AreOf(t, run)
    PROVE  /\ Increasing(t, but) /\ \A n : UpToBut(t, n, but)
           /\ \A s : Precedes(s, t, but) /\ Precedes(t, s, but)
BY DEF AreOf, Increasing, UpToBut, Precedes, Rises

\* Lines with nothing among them.
LEMMA EmptyLines ==
    /\ \A but : Increasing(<<>>, but) /\ \A n : UpToBut(<<>>, n, but)
    /\ \A but, s : Precedes(s, <<>>, but) /\ Precedes(<<>>, s, but)
BY DEF Increasing, UpToBut, Precedes

\* Who was given up stays so.
LEMMA AbandonedGrows ==
    ASSUME NEW p \in Procs, Apart(p), cancels'[p] = cancels[p] \/ cancels'[p] = 2
    PROVE  Abandoned \subseteq Abandoned'
BY DEF Apart, Abandoned

\* A step or a fault of p gives it up or leaves it.
LEMMA CancelsGrow ==
    ASSUME TypeOK, NEW p \in Procs, Step(p) \/ Fault(p)
    PROVE  (cancels'[p] = cancels[p]) \/ (cancels'[p] = 1 /\ cancels[p] = 0) \/ cancels'[p] = 2
<1>. USE DEF writerVars, workerVars
<1>1. CASE Cancel(p) BY <1>1 DEF Cancel, TypeOK
<1>2. CASE CancelDraining(p) BY <1>2 DEF CancelDraining, TypeOK
<1>3. CASE ~(Cancel(p) \/ CancelDraining(p))
  BY <1>3 DEF Step, Fault, Construct, Acquire, Admit, Preflight, Send, IntendReceiver, Complete, Write, Fsync,
    FsyncDir, Release, WriteFails, FsyncFails, Crash
<1>. QED BY <1>1, <1>2, <1>3

\* What the other processes may still write fits the file after a step, too.
Harmless ==
    /\ \A n : UpToBut(file.lines, n, Abandoned) => UpToBut(file'.lines, n, Abandoned')
    /\ \A t : Precedes(file.lines, t, Abandoned) => Precedes(file'.lines, t, Abandoned')

\* A move of p disturbs SequenceInv nowhere but in the file and in p.
LEMMA SequenceFrame ==
    ASSUME ClaimInv, SequenceInv, NEW p \in Procs, Apart(p), Abandoned \subseteq Abandoned',
           Claimed(p) \/ Harmless,
           Increasing(file'.lines, Abandoned'), Increasing(stable'.lines, Abandoned'),
           OwnSequence(p)'
    PROVE  SequenceInv'
<1>1. ASSUME NEW q \in Procs, q # p PROVE OwnSequence(q)'
  <2>1. /\ pc'[q] = pc[q] /\ sequence'[q] = sequence[q] /\ pending'[q] = pending[q]
        /\ failed'[q] = failed[q] /\ cancels'[q] = cancels[q]
    BY <1>1 DEF Apart
  <2>2. OwnSequence(q) /\ (q \in Abandoned' <=> q \in Abandoned) BY <2>1 DEF SequenceInv, Abandoned
  <2>3. CASE Claimed(p)
    <3>1. ~Claimed(q) BY <1>1, <2>3 DEF ClaimInv
    <3>. QED BY <2>1, <2>2, <3>1 DEF OwnSequence, Claimed
  <2>4. CASE Harmless
    <3>1. Numbered(q) => Numbered(q)'
      <4>1. /\ Increasing(pending[q], Abandoned) => Increasing(pending[q], Abandoned')
            /\ \A n : UpToBut(pending[q], n, Abandoned) => UpToBut(pending[q], n, Abandoned')
        BY Monotone
      <4>. QED BY <2>1, <2>4, <4>1 DEF Harmless, Numbered
    <3>. QED BY <2>1, <2>2, <3>1 DEF OwnSequence, Claimed
  <2>. QED BY <2>3, <2>4
<1>. QED BY <1>1 DEF SequenceInv

\* A queued record takes the next number.
LEMMA EnqueuedNumbered ==
    ASSUME TypeOK, SequenceInv, NEW p \in Procs, NEW run \in Procs, NEW event \in Events,
           Claimed(p), pc[p] \notin {"fsync", "fsyncdir"},
           Enqueued(p, run, event), UNCHANGED <<file, failed, cancels>>
    PROVE  OwnSequence(p)'
<1>. DEFINE r == [sequence |-> sequence[p] + 1, run |-> run, event |-> event]
<1>1. r \in Records /\ r.sequence = sequence[p] + 1 BY DEF TypeOK, Records
<1>2. /\ pending[p] \in Seq(Records) /\ file.lines \in Seq(Records) /\ sequence[p] \in Nat
      /\ ~failed[p]
  BY DEF TypeOK, Images, Enqueued
<1>3. pending'[p] = Append(pending[p], r) /\ sequence'[p] = sequence[p] + 1 BY DEF Enqueued, TypeOK
<1>4. Abandoned' = Abandoned /\ ~failed'[p] BY <1>2 DEF Abandoned
<1>. HIDE DEF r
<1>5. CASE p \notin Abandoned
  <2>1. Numbered(p) BY <1>2, <1>5 DEF SequenceInv, OwnSequence
  <2>0. /\ Increasing(pending[p], Abandoned) /\ UpToBut(pending[p], sequence[p], Abandoned)
        /\ Precedes(file.lines, pending[p], Abandoned) /\ UpToBut(file.lines, sequence[p], Abandoned)
    BY <2>1 DEF Numbered
  <2>2. /\ Increasing(Append(pending[p], r), Abandoned)
        /\ UpToBut(Append(pending[p], r), sequence[p] + 1, Abandoned)
        /\ Precedes(file.lines, Append(pending[p], r), Abandoned)
        /\ UpToBut(file.lines, sequence[p] + 1, Abandoned)
    BY <1>1, <1>2, <2>0, AppendNumbered
  <2>. QED BY <1>3, <1>4, <2>2 DEF OwnSequence, Numbered
<1>6. CASE p \in Abandoned BY <1>4, <1>6 DEF OwnSequence
<1>. QED BY <1>5, <1>6

\* What an extension adds to the lines.
LEMMA ExtendedIs ==
    ASSUME NEW f \in Images, NEW records \in Seq(Records), NEW end \in Ends
    PROVE  Extended(f, records, end).lines \in {f.lines, f.lines \o records}
BY DEF Extended, Images

\* Records that continue the file leave it in order.
LEMMA ExtendedKeeps ==
    ASSUME NEW but, NEW f \in Images, NEW records \in Seq(Records), NEW end \in Ends
    PROVE  LET g == Extended(f, records, end).lines
           IN  /\ Increasing(f.lines, but) /\ Increasing(records, but)
                     /\ Precedes(f.lines, records, but) => Increasing(g, but)
               /\ \A n : UpToBut(f.lines, n, but) /\ UpToBut(records, n, but) => UpToBut(g, n, but)
               /\ \A t : Precedes(f.lines, t, but) /\ Precedes(records, t, but) => Precedes(g, t, but)
<1>1. f.lines \in Seq(Records) BY DEF Images
<1>2. Extended(f, records, end).lines \in {f.lines, f.lines \o records} BY ExtendedIs
<1>. QED BY <1>1, <1>2, ConcatIncreasing, ConcatBelow

\* What a flush of p may write continues the file, and is of p when it may be
\* without the lock.
Fits(p, t) ==
    /\ t \in Seq(Records) /\ Increasing(t, Abandoned) /\ Precedes(file.lines, t, Abandoned)
    /\ p \in Abandoned => AreOf(t, p)

LEMMA JoinedFits ==
    ASSUME TypeOK, RunInv, NEW p \in Procs, NEW records \in Joined(p),
           p \in Abandoned \/ (Numbered(p) /\ pc[p] \notin {"fsync", "fsyncdir"})
    PROVE  Fits(p, records) /\ \A n \in 0..Len(records) : Fits(p, SubSeq(records, 1, n))
<1>1. records \in Seq(Records) BY JoinedType
<1>2. Fits(p, records)
  <2>1. CASE p \in Abandoned
    <3>1. cancels[p] = 2 /\ AreOf(pending[p], p) /\ AreOf(batch[p], p) BY <2>1 DEF Abandoned, RunInv, OwnRun
    <3>2. AreOf(records, p) BY <3>1 DEF Joined
    <3>. QED BY <1>1, <2>1, <3>2, Excepted DEF Fits
  <2>2. CASE p \notin Abandoned
    <3>1. records = pending[p] BY <2>2 DEF Joined, Abandoned
    <3>. QED BY <1>1, <2>2, <3>1 DEF Fits, Numbered
  <2>. QED BY <2>1, <2>2
<1>3. ASSUME NEW n \in 0..Len(records) PROVE Fits(p, SubSeq(records, 1, n)) BY <1>1, <1>2, PrefixKeeps DEF Fits
<1>. QED BY <1>2, <1>3

\* What fits leaves the file in order; what is of an abandoned run is harmless.
LEMMA FitsKeeps ==
    ASSUME TypeOK, SequenceInv, NEW p \in Procs, NEW t, Fits(p, t), NEW end \in Ends,
           file' = Extended(file, t, end), Abandoned' = Abandoned
    PROVE  /\ Increasing(file'.lines, Abandoned')
           /\ \A n : UpToBut(file.lines, n, Abandoned) /\ UpToBut(t, n, Abandoned) => UpToBut(file'.lines, n, Abandoned)
           /\ p \in Abandoned => Harmless
<1>1. file \in Images /\ t \in Seq(Records) /\ Increasing(file.lines, Abandoned) BY DEF TypeOK, Fits, SequenceInv
<1>2. Increasing(file'.lines, Abandoned) BY <1>1, ExtendedKeeps DEF Fits
<1>3. \A n : UpToBut(file.lines, n, Abandoned) /\ UpToBut(t, n, Abandoned) => UpToBut(file'.lines, n, Abandoned)
  BY <1>1, ExtendedKeeps
<1>4. \A r : Precedes(file.lines, r, Abandoned) /\ Precedes(t, r, Abandoned) => Precedes(file'.lines, r, Abandoned)
  BY <1>1, ExtendedKeeps
<1>5. ASSUME p \in Abandoned PROVE Harmless
  <2>1. AreOf(t, p) BY <1>5 DEF Fits
  <2>2. (\A n : UpToBut(t, n, Abandoned)) /\ \A r : Precedes(t, r, Abandoned) BY <1>5, <2>1, Excepted
  <2>. QED BY <1>3, <1>4, <2>2 DEF Harmless
<1>. QED BY <1>2, <1>3, <1>5

\* Power loss leaves a beginning.
LEMMA SurvivorsIncrease ==
    ASSUME TypeOK, SequenceInv, NEW f \in Survivors
    PROVE  Increasing(f.lines, Abandoned)
<1>1. /\ stable \in Images /\ file.lines \in Seq(Records)
      /\ Increasing(file.lines, Abandoned) /\ Increasing(stable.lines, Abandoned)
  BY DEF TypeOK, Images, SequenceInv
<1>2. ASSUME NEW k \in (Len(stable.lines) + 1)..Len(file.lines), NEW e \in Ends,
             f = [exists |-> TRUE, lines |-> SubSeq(file.lines, 1, k), end |-> e]
      PROVE  Increasing(f.lines, Abandoned)
  <2>1. k \in 0..Len(file.lines)
    <3>1. Len(stable.lines) \in Nat /\ Len(file.lines) \in Nat BY <1>1 DEF Images
    <3>. QED BY <3>1
  <2>2. Increasing(SubSeq(file.lines, 1, k), Abandoned) BY <1>1, <2>1, PrefixKeeps
  <2>. QED BY <1>2, <2>2
<1>3. CASE f = NoFile BY <1>3, EmptyLines DEF NoFile
<1>4. CASE f = stable BY <1>1, <1>4
<1>5. CASE f = [stable EXCEPT !.exists = TRUE, !.end = "torn"]
  <2>1. f.lines = stable.lines BY <1>1, <1>5 DEF Images
  <2>. QED BY <1>1, <2>1
<1>6. \/ f = stable \/ f = NoFile \/ f = [stable EXCEPT !.exists = TRUE, !.end = "torn"]
      \/ f \in {[exists |-> TRUE, lines |-> SubSeq(file.lines, 1, k), end |-> e] :
                   k \in (Len(stable.lines) + 1)..Len(file.lines), e \in Ends}
  BY DEF Survivors
<1>. QED BY <1>2, <1>3, <1>4, <1>5, <1>6

\* Every step, fault, worker and power loss keeps SequenceInv.
LEMMA SequenceStep == ASSUME TypeOK, ClaimInv, RunInv, SequenceInv, [Next]_vars PROVE SequenceInv'
<1>. USE DEF Goto, writerVars, workerVars
<1>a. Increasing(file.lines, Abandoned) /\ Increasing(stable.lines, Abandoned) BY DEF SequenceInv
<1>b. file \in Images /\ file.lines \in Seq(Records) BY DEF TypeOK, Images
<1>1. CASE UNCHANGED vars
  <2>1. UNCHANGED <<file, stable, pc, sequence, pending, failed, cancels>> BY <1>1 DEF vars
  <2>2. Abandoned' = Abandoned BY <2>1 DEF Abandoned
  <2>. QED BY <2>1, <2>2 DEF SequenceInv, OwnSequence, Numbered, Claimed
<1>2. CASE PowerLoss
  <2>1. UNCHANGED <<cancels, failed>> /\ stable' = file' /\ file' \in Survivors BY <1>2 DEF PowerLoss
  <2>2. Abandoned' = Abandoned BY <2>1 DEF Abandoned
  <2>3. Increasing(file'.lines, Abandoned') /\ Increasing(stable'.lines, Abandoned')
    BY <2>1, <2>2, SurvivorsIncrease
  <2>4. ASSUME NEW p \in Procs PROVE OwnSequence(p)'
    <3>1. pc'[p] = "done" \/ (pc'[p] = pc[p] /\ pc[p] \in {"new", "done"}) BY <1>2 DEF PowerLoss, Alive
    <3>2. OwnSequence(p) /\ failed'[p] = failed[p] BY <2>1 DEF SequenceInv
    <3>. QED BY <2>2, <3>1, <3>2 DEF OwnSequence, Claimed
  <2>. QED BY <2>3, <2>4 DEF SequenceInv
<1>3. ASSUME NEW p \in Procs, Step(p) \/ Fault(p) PROVE SequenceInv'
  <2>a. Apart(p) BY <1>3, Frame DEF OnlyMoves
  <2>b. OwnSequence(p) BY DEF SequenceInv
  <2>c. pending[p] \in Seq(Records) /\ cancels[p] \in 0..2 BY DEF TypeOK
  <2>d. Abandoned \subseteq Abandoned'
    <3>1. p \in Abandoned => p \in Abandoned' BY <1>3, CancelsGrow DEF Abandoned
    <3>. QED BY <2>a, <3>1 DEF Apart, Abandoned
  <2>e. ASSUME OwnSequence(p)', UNCHANGED <<file, stable>> PROVE SequenceInv'
    <3>1. Harmless BY <2>d, <2>e, Monotone DEF Harmless
    <3>2. Increasing(file'.lines, Abandoned') /\ Increasing(stable'.lines, Abandoned')
      BY <1>a, <2>d, <2>e, Monotone
    <3>. QED BY <2>a, <2>d, <2>e, <3>1, <3>2, SequenceFrame
  <2>f. ASSUME UNCHANGED cancels PROVE Abandoned' = Abandoned BY <2>f DEF Abandoned
  <2>g. ASSUME UNCHANGED <<file, stable, sequence, pending, cancels>>,
               failed'[p] => pc'[p] \in {"release", "done"} \/ p \in Abandoned,
               Claimed(p)' /\ ~failed'[p] => Claimed(p) /\ ~failed[p],
               pc[p] \in {"fsync", "fsyncdir"} => pc'[p] \in {"fsync", "fsyncdir", "done"} \/ failed'[p]
        PROVE  SequenceInv'
    <3>. SUFFICES OwnSequence(p)' BY <2>e, <2>g
    <3>. QED BY <2>b, <2>f, <2>g DEF OwnSequence, Numbered, Claimed
  <2>1. CASE Construct(p)
    <3>1. /\ UNCHANGED <<file, stable, failed, cancels>> /\ pc[p] = "new" /\ pc'[p] \in {"open", "done"}
      BY <2>1 DEF Construct, TypeOK
    <3>. QED BY <2>b, <2>e, <2>f, <3>1 DEF OwnSequence, Claimed
  <2>2. CASE Acquire(p)
    <3>1. UpTo(file.lines, LastSequence(file)) BY <1>b, LastSequenceIsLast
    <3>2. /\ pc[p] = "open" /\ UNCHANGED <<pending, file, stable, failed, cancels>>
          /\ pc'[p] = "done" \/ (pc'[p] = "claimed" /\ sequence'[p] = LastSequence(file))
      BY <2>2 DEF Acquire, TypeOK
    <3>3. pending'[p] = <<>> BY <3>2 DEF RunInv, OwnRun
    <3>4. UpToBut(file.lines, LastSequence(file), Abandoned) BY <3>1 DEF UpTo, UpToBut
    <3>5. pc'[p] = "claimed" => Numbered(p)' BY <2>f, <3>2, <3>3, <3>4, EmptyLines DEF Numbered
    <3>6. OwnSequence(p)' BY <2>b, <2>f, <3>2, <3>5 DEF OwnSequence, Claimed
    <3>. QED BY <2>e, <3>2, <3>6
  <2>3. CASE Admit(p)
    <3>1. UNCHANGED <<file, stable, failed, cancels>> /\ Claimed(p) /\ pc[p] = "claimed"
      BY <2>3 DEF Admit, Claimed
    <3>2. CASE Enqueued(p, p, "STARTED") BY <2>e, <3>1, <3>2, EnqueuedNumbered, EventTypes
    <3>3. CASE UNCHANGED <<sequence, pending>> /\ pc'[p] \in {"resume", "release"}
      BY <2>b, <2>g, <3>1, <3>3 DEF OwnSequence
    <3>. QED BY <2>3, <3>2, <3>3 DEF Admit, AppendFlush, TypeOK
  <2>4. CASE Preflight(p)
    <3>1. UNCHANGED <<file, stable, failed, cancels>> /\ Claimed(p) /\ pc[p] = "preflight"
      BY <2>4 DEF Preflight, Claimed
    <3>2. PICK event \in Events : Enqueued(p, p, event) BY <2>4, EventTypes DEF Preflight, AppendFlush, Legs
    <3>. QED BY <2>e, <3>1, <3>2, EnqueuedNumbered
  <2>5. ASSUME NEW leg \in Legs, Send(p, leg) PROVE SequenceInv'
    <3>1. /\ UNCHANGED <<file, stable, sequence, pending, failed, cancels>>
          /\ pc[p] = Sending[leg] /\ pc'[p] = Answered[leg]
      BY <2>5 DEF Send, TypeOK
    <3>2. pc[p] \notin {"new", "open", "done", "release", "fsync", "fsyncdir"}
      BY <3>1, LegPlaces
    <3>. QED BY <2>b, <2>g, <3>1, <3>2 DEF OwnSequence, Claimed
  <2>6. CASE IntendReceiver(p) \/ Complete(p)
    <3>1. PICK run \in Procs, event \in Events : Enqueued(p, run, event)
      BY <2>6, EventTypes DEF IntendReceiver, Complete, AppendFlush, Legs, TypeOK
    <3>2. /\ UNCHANGED <<file, stable, failed, cancels>>
          /\ pc[p] \in {Answered[leg] : leg \in Legs} \cup {"resume"}
      BY <2>6 DEF IntendReceiver, Complete, Legs
    <3>3. pc[p] \notin {"new", "open", "done", "fsync", "fsyncdir"} BY <3>2, LegPlaces
    <3>. QED BY <2>e, <3>1, <3>2, <3>3, EnqueuedNumbered DEF Claimed
  <2>7. CASE Write(p)
    <3>1. /\ pc[p] = "write" /\ pc'[p] = "fsync" /\ Claimed(p)
          /\ UNCHANGED <<stable, sequence, pending, failed, cancels>>
      BY <2>7 DEF Write, Claimed, TypeOK
    <3>2. PICK records \in Joined(p) : file' = Extended(file, records, "clean") BY <2>7 DEF Write
    <3>3. Abandoned' = Abandoned /\ "clean" \in Ends BY <2>f, <3>1 DEF Ends
    <3>4. p \in Abandoned \/ Numbered(p) BY <2>b, <3>1 DEF OwnSequence
    <3>5. Fits(p, records) BY <3>1, <3>4, JoinedFits
    <3>6. /\ Increasing(file'.lines, Abandoned')
          /\ \A n : UpToBut(file.lines, n, Abandoned) /\ UpToBut(records, n, Abandoned) =>
                UpToBut(file'.lines, n, Abandoned)
      BY <3>2, <3>3, <3>5, FitsKeeps
    <3>7. p \notin Abandoned => records = pending[p] BY DEF Joined, Abandoned
    <3>8. p \notin Abandoned => UpToBut(file'.lines, sequence[p], Abandoned) BY <3>1, <3>4, <3>6, <3>7 DEF Numbered
    <3>9. OwnSequence(p)' BY <2>b, <3>1, <3>3, <3>8 DEF OwnSequence, Numbered
    <3>10. Increasing(stable'.lines, Abandoned') BY <1>a, <3>1, <3>3
    <3>. QED BY <2>a, <2>d, <3>1, <3>6, <3>9, <3>10, SequenceFrame
  <2>8. CASE WriteFails(p)
    <3>1. /\ pc[p] = "write" /\ pc'[p] = "release" /\ Claimed(p) /\ failed'[p]
          /\ UNCHANGED <<stable, cancels>>
      BY <2>8 DEF WriteFails, Poison, Claimed, TypeOK
    <3>2. PICK records \in Joined(p) : WrittenShort(records) BY <2>8 DEF WriteFails
    <3>3. PICK n \in 0..Len(records), end \in Ends : file' = Extended(file, SubSeq(records, 1, n), end)
      BY <3>2 DEF WrittenShort
    <3>4. p \in Abandoned \/ Numbered(p) BY <2>b, <3>1 DEF OwnSequence
    <3>5. Fits(p, SubSeq(records, 1, n)) BY <3>1, <3>4, JoinedFits
    <3>6. Abandoned' = Abandoned BY <2>f, <3>1
    <3>7. Increasing(file'.lines, Abandoned') BY <3>3, <3>5, <3>6, FitsKeeps
    <3>8. OwnSequence(p)' BY <3>1 DEF OwnSequence
    <3>9. Increasing(stable'.lines, Abandoned') BY <1>a, <3>1, <3>6
    <3>. QED BY <2>a, <2>d, <3>1, <3>7, <3>8, <3>9, SequenceFrame
  <2>9. CASE Fsync(p) \/ FsyncDir(p)
    <3>1. /\ pc[p] \in {"fsync", "fsyncdir"} /\ UNCHANGED <<file, sequence, failed, cancels>>
          /\ stable' \in {file, stable}
      BY <2>9 DEF Fsync, FsyncDir
    <3>2. \/ pc'[p] = "fsyncdir" /\ UNCHANGED pending
          \/ pending'[p] = <<>>
      BY <2>9 DEF Fsync, FsyncDir, Flushed, TypeOK
    <3>3. Claimed(p) /\ Abandoned' = Abandoned BY <2>f, <3>1 DEF Claimed
    <3>4. failed'[p] => p \in Abandoned BY <2>b, <3>1 DEF OwnSequence
    <3>5. ~failed'[p] /\ p \notin Abandoned => UpToBut(file.lines, sequence[p], Abandoned)
      BY <2>b, <3>1, <3>3 DEF OwnSequence, Numbered
    <3>6. OwnSequence(p)' BY <3>1, <3>2, <3>3, <3>4, <3>5, EmptyLines DEF OwnSequence, Numbered
    <3>7. Increasing(file'.lines, Abandoned') /\ Increasing(stable'.lines, Abandoned')
      BY <1>a, <3>1, <3>3
    <3>. QED BY <2>a, <2>d, <3>3, <3>6, <3>7, SequenceFrame
  <2>10. CASE FsyncFails(p)
    <3>1. /\ UNCHANGED <<file, stable, sequence, pending, cancels>> /\ failed'[p] /\ pc'[p] = "release"
      BY <2>10 DEF FsyncFails, Poison, TypeOK
    <3>. QED BY <2>g, <3>1
  <2>11. CASE Cancel(p)
    <3>1. /\ UNCHANGED <<file, stable, sequence, pending, failed, pc>> /\ cancels[p] = 0 /\ cancels'[p] = 1
      BY <2>11 DEF Cancel, TypeOK
    <3>2. Abandoned' = Abandoned BY <2>a, <3>1 DEF Apart, Abandoned
    <3>3. OwnSequence(p)' BY <2>b, <3>1, <3>2 DEF OwnSequence, Numbered, Claimed
    <3>. QED BY <2>e, <3>1, <3>3
  <2>12. CASE CancelDraining(p)
    <3>1. UNCHANGED <<file, stable, failed>> /\ cancels'[p] = 2
      BY <2>12 DEF CancelDraining, TypeOK
    <3>2. p \in Abandoned' BY <3>1 DEF Abandoned
    <3>3. OwnSequence(p)' BY <3>2 DEF OwnSequence
    <3>. QED BY <2>e, <3>1, <3>3
  <2>13. CASE Release(p)
    <3>1. /\ UNCHANGED <<file, stable, sequence, pending, failed, cancels>> /\ pc[p] = "release"
          /\ pc'[p] = "done" \/ (pc'[p] = "write" /\ ~failed[p])
      BY <2>13 DEF Release, TypeOK
    <3>. QED BY <2>g, <3>1 DEF Claimed
  <2>14. CASE Crash(p)
    <3>1. /\ UNCHANGED <<file, stable, sequence, pending, failed, cancels>> /\ pc'[p] = "done"
      BY <2>14 DEF Crash, TypeOK
    <3>. QED BY <2>g, <3>1 DEF Claimed
  <2>. QED BY <1>3, <2>1, <2>2, <2>3, <2>4, <2>5, <2>6, <2>7, <2>8, <2>9, <2>10, <2>11, <2>12, <2>13, <2>14
    DEF Step, Fault
<1>4. ASSUME NEW p \in Procs, Worker(p) PROVE SequenceInv'
  <2>1. WorkerMoves(p) /\ OwnSequence(p) BY <1>4, WorkerFrame DEF SequenceInv
  <2>2. Apart(p) /\ UNCHANGED cancels /\ worker[p] # "none" BY <2>1 DEF WorkerMoves
  <2>3. p \in Abandoned /\ Abandoned' = Abandoned BY <2>2 DEF RunInv, OwnRun, Abandoned
  <2>4. OwnSequence(p)' BY <2>3 DEF OwnSequence
  <2>5. ASSUME NEW t, NEW end \in Ends, Fits(p, t), file' = Extended(file, t, end), UNCHANGED stable
        PROVE  SequenceInv'
    <3>1. Increasing(file'.lines, Abandoned') /\ Harmless BY <2>3, <2>5, FitsKeeps
    <3>2. Increasing(stable'.lines, Abandoned') BY <1>a, <2>3, <2>5
    <3>. QED BY <2>2, <2>3, <2>4, <3>1, <3>2, SequenceFrame
  <2>6. ASSUME UNCHANGED file, stable' \in {file, stable} PROVE SequenceInv'
    <3>1. Harmless BY <2>3, <2>6 DEF Harmless
    <3>2. Increasing(file'.lines, Abandoned') /\ Increasing(stable'.lines, Abandoned') BY <1>a, <2>3, <2>6
    <3>. QED BY <2>2, <2>3, <2>4, <3>1, <3>2, SequenceFrame
  <2>7. CASE WorkerWrites(p)
    <3>1. UNCHANGED stable /\ (UNCHANGED file \/ \E records \in Joined(p) : file' = Extended(file, records, "clean"))
      BY <2>7 DEF WorkerWrites
    <3>. QED BY <2>3, <2>5, <2>6, <3>1, JoinedFits DEF Ends
  <2>8. CASE WorkerSyncs(p) BY <2>6, <2>8 DEF WorkerSyncs
  <2>9. CASE WorkerFails(p)
    <3>1. UNCHANGED stable /\ (UNCHANGED file \/ \E records \in Joined(p) : WrittenShort(records))
      BY <2>9 DEF WorkerFails
    <3>2. ASSUME NEW records \in Joined(p), WrittenShort(records) PROVE SequenceInv'
      <4>1. PICK n \in 0..Len(records), end \in Ends : file' = Extended(file, SubSeq(records, 1, n), end)
        BY <3>2 DEF WrittenShort
      <4>2. Fits(p, SubSeq(records, 1, n)) BY <2>3, JoinedFits
      <4>. QED BY <2>5, <3>1, <4>1, <4>2
    <3>. QED BY <2>6, <3>1, <3>2
  <2>. QED BY <1>4, <2>7, <2>8, <2>9 DEF Worker
<1>. QED BY <1>1, <1>2, <1>3, <1>4 DEF Next

-----------------------------------------------------------------------------
(* What is durable. *)

\* The run has recorded the intent of a leg, or nobody can read the image.
Recorded(f, run, leg) == HasEvent(f.lines, run, Intent[leg]) \/ f.end = "torn"

\* The durable image is a beginning of the cached one, which only grows after
\* a whole last line.
StableInv ==
    /\ Len(stable.lines) <= Len(file.lines)
    /\ \A i \in 1..Len(stable.lines) : file.lines[i] = stable.lines[i]
    /\ stable.end # "clean" => Len(file.lines) = Len(stable.lines)
    /\ stable.end = "torn" => file.end = "torn"
    /\ file.end = "clean" => stable.end = "clean"

\* Where the intent of the next order is while its flush goes on.
OwnDurable(p) ==
    \A leg \in Legs :
        /\ pc[p] = Sending[leg] => Recorded(stable, p, leg)
        /\ next[p] = Sending[leg] =>
              /\ pc[p] = "write" => HasEvent(pending[p], p, Intent[leg])
              /\ pc[p] = "fsync" => Recorded(file, p, leg)
              /\ pc[p] = "fsyncdir" => Recorded(stable, p, leg)

DurableInv ==
    /\ \A e \in sent : Recorded(stable, e[1], e[2])
    /\ \A p \in Procs : OwnDurable(p)

\* An extension records what was there and what is added, no more.
LEMMA ExtendedLines ==
    ASSUME NEW f \in Images, NEW records \in Seq(Records), NEW end \in Ends
    PROVE  LET g == Extended(f, records, end)
           IN  /\ Len(f.lines) <= Len(g.lines)
               /\ \A i \in 1..Len(f.lines) : g.lines[i] = f.lines[i]
               /\ f.end # "clean" => g.lines = f.lines /\ g.end \in {f.end, "torn"}
               /\ f.end = "torn" => g.end = "torn"
               /\ \A run, event : HasEvent(f.lines, run, event) => HasEvent(g.lines, run, event)
               /\ \A run, event : HasEvent(g.lines, run, event) =>
                     HasEvent(f.lines, run, event) \/ HasEvent(records, run, event)
               /\ \A run, event : HasEvent(records, run, event) =>
                     HasEvent(g.lines, run, event) \/ g.end = "torn"
<1>. DEFINE g == Extended(f, records, end)
<1>1. f.lines \in Seq(Records) BY DEF Images
<1>2. CASE records = <<>> /\ end = "clean"
  <2>1. g.lines = f.lines /\ g.end = f.end BY <1>2 DEF Extended, Images
  <2>2. \A run, event : ~HasEvent(records, run, event) BY <1>2 DEF HasEvent
  <2>. HIDE DEF g
  <2>. QED BY <1>1, <2>1, <2>2 DEF g
<1>3. CASE f.end # "clean" /\ ~(records = <<>> /\ end = "clean")
  <2>1. g.lines = f.lines /\ g.end = "torn" BY <1>3 DEF Extended, Images
  <2>. HIDE DEF g
  <2>. QED BY <1>1, <1>3, <2>1 DEF g
<1>4. CASE f.end = "clean" /\ ~(records = <<>> /\ end = "clean")
  <2>1. g.lines = f.lines \o records BY <1>4 DEF Extended
  <2>2. /\ DOMAIN g.lines = 1..(Len(f.lines) + Len(records))
        /\ Len(g.lines) = Len(f.lines) + Len(records)
        /\ \A i \in 1..Len(f.lines) : g.lines[i] = f.lines[i]
        /\ \A i \in 1..Len(records) : g.lines[Len(f.lines) + i] = records[i]
        /\ DOMAIN f.lines = 1..Len(f.lines) /\ DOMAIN records = 1..Len(records)
        /\ Len(f.lines) \in Nat /\ Len(records) \in Nat
    BY <1>1, <2>1
  <2>. HIDE DEF g
  <2>3. ASSUME NEW run, NEW event, HasEvent(g.lines, run, event)
        PROVE  HasEvent(f.lines, run, event) \/ HasEvent(records, run, event)
    <3>1. PICK i \in DOMAIN g.lines : g.lines[i].run = run /\ g.lines[i].event = event BY <2>3 DEF HasEvent
    <3>2. CASE i \in 1..Len(f.lines) BY <2>2, <3>1, <3>2 DEF HasEvent
    <3>3. CASE i \notin 1..Len(f.lines)
      <4>0. /\ i \in 1..(Len(f.lines) + Len(records))
            /\ Len(f.lines) \in Nat /\ Len(records) \in Nat
        BY <2>2
      <4>1. i - Len(f.lines) \in 1..Len(records) /\ i = Len(f.lines) + (i - Len(f.lines)) BY <3>3, <4>0
      <4>. QED BY <2>2, <3>1, <4>1 DEF HasEvent
    <3>. QED BY <3>2, <3>3
  <2>4. ASSUME NEW run, NEW event, HasEvent(f.lines, run, event)
        PROVE  HasEvent(g.lines, run, event)
    BY <2>2, <2>4 DEF HasEvent
  <2>5. ASSUME NEW run, NEW event, HasEvent(records, run, event)
        PROVE  HasEvent(g.lines, run, event)
    <3>1. PICK i \in 1..Len(records) : records[i].run = run /\ records[i].event = event BY <2>2, <2>5 DEF HasEvent
    <3>2. Len(f.lines) + i \in DOMAIN g.lines BY <2>2
    <3>. QED BY <2>2, <3>1, <3>2 DEF HasEvent
  <2>. QED BY <1>4, <2>2, <2>3, <2>4, <2>5 DEF g
<1>. QED BY <1>2, <1>3, <1>4

\* A beginning records nothing else.
LEMMA PrefixEvents ==
    ASSUME NEW s \in Seq(Records), NEW n \in 0..Len(s), NEW run, NEW event,
           HasEvent(SubSeq(s, 1, n), run, event)
    PROVE  HasEvent(s, run, event)
<1>1. PICK i \in DOMAIN SubSeq(s, 1, n) :
         SubSeq(s, 1, n)[i].run = run /\ SubSeq(s, 1, n)[i].event = event
  BY DEF HasEvent
<1>2. i \in DOMAIN s /\ SubSeq(s, 1, n)[i] = s[i] BY PrefixKeeps
<1>. QED BY <1>1, <1>2 DEF HasEvent

\* An appended record adds its own event.
LEMMA AppendEvents ==
    ASSUME NEW s \in Seq(Records), NEW r \in Records, NEW run, NEW event
    PROVE  HasEvent(Append(s, r), run, event) <=>
             HasEvent(s, run, event) \/ (r.run = run /\ r.event = event)
<1>. DEFINE a == Append(s, r)
<1>1. /\ DOMAIN a = 1..(Len(s) + 1) /\ a[Len(s) + 1] = r
      /\ \A i \in 1..Len(s) : a[i] = s[i] /\ i \in DOMAIN a
      /\ DOMAIN s = 1..Len(s) /\ Len(s) \in Nat
      /\ Len(s) + 1 \in DOMAIN a
  OBVIOUS
<1>. HIDE DEF a
<1>2. \A i \in DOMAIN a : i \in 1..Len(s) \/ i = Len(s) + 1 BY <1>1
<1>3. HasEvent(a, run, event) <=> HasEvent(s, run, event) \/ (r.run = run /\ r.event = event)
  BY <1>1, <1>2 DEF HasEvent
<1>. QED BY <1>3 DEF a

\* Every step, fault, worker and power loss keeps StableInv.
LEMMA StableStep == ASSUME TypeOK, StableInv, [Next]_vars PROVE StableInv'
<1>b. /\ file \in Images /\ stable \in Images
      /\ file.lines \in Seq(Records) /\ stable.lines \in Seq(Records)
      /\ Len(file.lines) \in Nat /\ Len(stable.lines) \in Nat
  BY DEF TypeOK, Images
<1>1. CASE UNCHANGED <<file, stable>> BY <1>1 DEF StableInv
<1>2. CASE stable' = file' /\ file' \in Images BY <1>2 DEF Images, StableInv
<1>3. ASSUME NEW records \in Seq(Records), NEW end \in Ends,
             file' = Extended(file, records, end), UNCHANGED stable
      PROVE  StableInv'
  <2>1. /\ Len(file.lines) <= Len(file'.lines) /\ Len(file'.lines) \in Nat
        /\ \A i \in 1..Len(file.lines) : file'.lines[i] = file.lines[i]
        /\ file.end # "clean" => file'.lines = file.lines /\ file'.end \in {file.end, "torn"}
        /\ file.end = "torn" => file'.end = "torn"
    <3>1. file' \in Images BY <1>b, <1>3, ExtendedType
    <3>2. Len(file'.lines) \in Nat BY <3>1 DEF Images
    <3>. QED BY <1>b, <1>3, <3>2, ExtendedLines
  <2>. QED BY <1>b, <1>3, <2>1 DEF StableInv
<1>4. ASSUME NEW p \in Procs, NEW records \in Joined(p), WrittenShort(records), UNCHANGED stable
      PROVE  StableInv'
  <2>1. records \in Seq(Records) BY JoinedType
  <2>2. PICK n \in 0..Len(records), end \in Ends :
           SubSeq(records, 1, n) \in Seq(Records) /\ file' = Extended(file, SubSeq(records, 1, n), end)
    BY <1>4, <2>1, WrittenShortIs
  <2>. QED BY <1>3, <1>4, <2>2
<1>5. CASE PowerLoss BY <1>2, <1>5, SurvivorsType DEF PowerLoss
<1>6. ASSUME NEW p \in Procs, Step(p) \/ Fault(p) \/ Worker(p) PROVE StableInv'
  <2>1. CASE Write(p) \/ WorkerWrites(p)
    <3>1. UNCHANGED stable /\ (UNCHANGED file \/ \E records \in Joined(p) : file' = Extended(file, records, "clean"))
      BY <2>1 DEF Write, WorkerWrites
    <3>. QED BY <1>1, <1>3, <3>1, JoinedType DEF Ends
  <2>2. CASE WriteFails(p) \/ WorkerFails(p)
    <3>1. UNCHANGED stable /\ (UNCHANGED file \/ \E records \in Joined(p) : WrittenShort(records))
      BY <2>2 DEF WriteFails, WorkerFails
    <3>. QED BY <1>1, <1>4, <3>1
  <2>3. CASE Fsync(p) \/ WorkerSyncs(p) BY <1>2, <1>b, <2>3 DEF Fsync, WorkerSyncs
  <2>4. CASE ~(Write(p) \/ WriteFails(p) \/ Fsync(p) \/ Worker(p))
    BY <1>1, <1>6, <2>4 DEF Step, Fault, Construct, Acquire, Admit, Preflight, Send, IntendReceiver, Complete,
      FsyncDir, Release, FsyncFails, Cancel, CancelDraining, Crash
  <2>. QED BY <2>1, <2>2, <2>3, <2>4 DEF Worker
<1>7. CASE UNCHANGED vars BY <1>1, <1>7 DEF vars
<1>. QED BY <1>5, <1>6, <1>7 DEF Next

\* What is durable is on the file as processes read it.
LEMMA StableIsRecorded ==
    ASSUME TypeOK, StableInv, NEW run, NEW leg, Recorded(stable, run, leg)
    PROVE  Recorded(file, run, leg)
<1>1. /\ file.lines \in Seq(Records) /\ stable.lines \in Seq(Records) BY DEF TypeOK, Images
<1>2. \A i \in DOMAIN stable.lines : i \in DOMAIN file.lines /\ file.lines[i] = stable.lines[i]
  BY <1>1 DEF StableInv
<1>. QED BY <1>2 DEF Recorded, HasEvent, StableInv

\* On a file system that keeps the entry of a synced file, what is recorded
\* survives a power loss.
LEMMA SurvivorsRecord ==
    ASSUME TypeOK, StableInv, ~EntryMayBeLost, NEW f \in Survivors,
           NEW run, NEW leg, Recorded(stable, run, leg)
    PROVE  Recorded(f, run, leg)
<1>1. /\ stable \in Images /\ file.lines \in Seq(Records) /\ stable.lines \in Seq(Records) BY DEF TypeOK, Images
<1>2. CASE f = stable BY <1>2
<1>3. CASE f = [stable EXCEPT !.exists = TRUE, !.end = "torn"] BY <1>1, <1>3 DEF Recorded, Images
<1>4. ASSUME NEW k \in (Len(stable.lines) + 1)..Len(file.lines), NEW e \in Ends,
             f = [exists |-> TRUE, lines |-> SubSeq(file.lines, 1, k), end |-> e]
      PROVE  Recorded(f, run, leg)
  <2>1. k \in 0..Len(file.lines) /\ Len(stable.lines) < k /\ Len(stable.lines) \in Nat BY <1>1
  <2>2. stable.end # "torn" BY <1>1, <2>1 DEF StableInv
  <2>3. PICK i \in DOMAIN stable.lines :
           stable.lines[i].run = run /\ stable.lines[i].event = Intent[leg]
    BY <2>2 DEF Recorded, HasEvent
  <2>4. i \in 1..k /\ file.lines[i] = stable.lines[i] BY <1>1, <2>1 DEF StableInv
  <2>5. i \in DOMAIN f.lines /\ f.lines[i] = file.lines[i] BY <1>1, <1>4, <2>1, <2>4, PrefixKeeps
  <2>. QED BY <2>3, <2>4, <2>5 DEF Recorded, HasEvent
<1>5. \/ f = stable \/ f = [stable EXCEPT !.exists = TRUE, !.end = "torn"]
      \/ f \in {[exists |-> TRUE, lines |-> SubSeq(file.lines, 1, k), end |-> e] :
                   k \in (Len(stable.lines) + 1)..Len(file.lines), e \in Ends}
  BY DEF Survivors
<1>. QED BY <1>2, <1>3, <1>4, <1>5

\* Nothing recorded is lost.
Remembers(f, g) == \A run, leg : Recorded(f, run, leg) => Recorded(g, run, leg)

\* A file that is extended keeps what it records.
LEMMA ExtendedKept ==
    ASSUME NEW f \in Images, NEW records \in Seq(Records), NEW end \in Ends
    PROVE  Remembers(f, Extended(f, records, end))
BY ExtendedLines DEF Remembers, Recorded

LEMMA KeptSame == \A f : Remembers(f, f)
BY DEF Remembers

\* No step, fault or worker takes a record from the file.
LEMMA FileKept ==
    ASSUME TypeOK, NEW p \in Procs, Step(p) \/ Fault(p) \/ Worker(p)
    PROVE  Remembers(file, file')
<1>1. file \in Images BY DEF TypeOK
<1>2. CASE UNCHANGED file BY <1>2, KeptSame
<1>3. ASSUME NEW records \in Joined(p), WrittenShort(records) PROVE Remembers(file, file')
  <2>1. records \in Seq(Records) BY JoinedType
  <2>2. PICK n \in 0..Len(records), end \in Ends :
           SubSeq(records, 1, n) \in Seq(Records) /\ file' = Extended(file, SubSeq(records, 1, n), end)
    BY <1>3, <2>1, WrittenShortIs
  <2>. QED BY <1>1, <2>2, ExtendedKept
<1>4. CASE Write(p) \/ WorkerWrites(p)
  <2>1. UNCHANGED file \/ \E records \in Joined(p) : file' = Extended(file, records, "clean")
    BY <1>4 DEF Write, WorkerWrites
  <2>. QED BY <1>1, <1>2, <2>1, JoinedType, ExtendedKept DEF Ends
<1>5. CASE WriteFails(p) \/ WorkerFails(p)
  <2>1. UNCHANGED file \/ \E records \in Joined(p) : WrittenShort(records) BY <1>5 DEF WriteFails, WorkerFails
  <2>. QED BY <1>2, <1>3, <2>1
<1>6. CASE ~(Write(p) \/ WorkerWrites(p) \/ WriteFails(p) \/ WorkerFails(p))
  BY <1>2, <1>6 DEF Step, Fault, Worker, Construct, Acquire, Admit, Preflight, Send, IntendReceiver, Complete,
    Fsync, FsyncDir, Release, FsyncFails, Cancel, CancelDraining, Crash, WorkerSyncs
<1>. QED BY <1>4, <1>5, <1>6

\* The steps of a process that leave its durable promises as they are.
LEMMA DurableFrame ==
    ASSUME DurableInv, NEW p \in Procs, Apart(p), Remembers(file, file'), Remembers(stable, stable'),
           \A e \in sent' \ sent : Recorded(stable', e[1], e[2]),
           OwnDurable(p)'
    PROVE  DurableInv'
<1>1. \A e \in sent' : Recorded(stable', e[1], e[2]) BY DEF DurableInv, Remembers
<1>2. ASSUME NEW q \in Procs, q # p PROVE OwnDurable(q)'
  <2>1. OwnDurable(q) /\ pc'[q] = pc[q] /\ next'[q] = next[q] /\ pending'[q] = pending[q]
    BY <1>2 DEF DurableInv, Apart
  <2>. QED BY <2>1 DEF OwnDurable, Remembers
<1>. QED BY <1>1, <1>2 DEF DurableInv

\* The two orders of an attempt are sent from different places.
LEMMA LegsDistinct ==
    /\ Sending["source"] = "send_source" /\ Sending["receiver"] = "send_receiver"
    /\ Answered["source"] = "source_answered" /\ Answered["receiver"] = "receiver_answered"
    /\ Intent["source"] = "SOURCE_DISPATCH_INTENT"
    /\ Intent["receiver"] = "RECEIVER_DISPATCH_INTENT"
BY DEF Sending, Answered, Intent

\* A flush whose record is the intent it was asked for.
LEMMA IntentFlush ==
    ASSUME TypeOK, NEW p \in Procs, NEW leg \in Legs,
           AppendFlush(p, p, Intent[leg], Sending[leg])
    PROVE  OwnDurable(p)'
<1>. DEFINE r == [sequence |-> sequence[p] + 1, run |-> p, event |-> Intent[leg]]
<1>1. pending'[p] = Append(pending[p], r) /\ pending[p] \in Seq(Records) /\ r \in Records
  <2>1. r \in Records BY EventTypes DEF TypeOK, Records
  <2>2. pending'[p] = Append(pending[p], r) /\ pending[p] \in Seq(Records) BY DEF TypeOK, AppendFlush, Enqueued
  <2>. QED BY <2>1, <2>2
<1>2. pc'[p] = "write" /\ next'[p] = Sending[leg] BY DEF TypeOK, AppendFlush, Goto
<1>3. HasEvent(pending'[p], p, Intent[leg]) BY <1>1, AppendEvents
<1>4. \A other \in Legs : Sending[other] = Sending[leg] => other = leg BY LegsDistinct DEF Legs
<1>5. \A other \in Legs : Sending[other] # "write" BY LegPlaces
<1>. QED BY <1>2, <1>3, <1>4, <1>5 DEF OwnDurable

\* The hypothesis of what follows: power loss keeps the directory entry of a
\* file whose data was synced, or there is none (processes alone may die).
\* Without it the first mutation may lose its record: run journal_entry.
EntryIsKept == EntryMayBeLost => MaxPowerLosses = 0



\* A task that is to send its order has no other flush beside its own.
LEMMA OwnFlush ==
    ASSUME TypeOK, RunInv, NEW p \in Procs, NEW leg \in Legs, pc[p] \in Flushing, next[p] = Sending[leg]
    PROVE  Joined(p) = {pending[p]}
<1>1. ~Leaving(p) BY LegPlaces DEF Leaving, Flushing
<1>. QED BY <1>1 DEF RunInv, OwnRun, Joined

\* Every step, fault, worker and power loss keeps DurableInv.
LEMMA DurableStep ==
    ASSUME TypeOK, RunInv, StableInv, DurableInv, EntryIsKept, [Next]_vars
    PROVE  DurableInv'
<1>. USE DEF Goto, writerVars, workerVars
<1>b. file \in Images /\ stable \in Images BY DEF TypeOK
<1>1. CASE UNCHANGED vars BY <1>1 DEF vars, DurableInv, OwnDurable, Recorded
<1>2. CASE PowerLoss
  <2>1. ASSUME NEW e \in sent' PROVE Recorded(stable', e[1], e[2])
    BY <1>2, BoundsAssumption, SurvivorsRecord DEF PowerLoss, EntryIsKept, TypeOK, DurableInv
  <2>2. ASSUME NEW p \in Procs PROVE OwnDurable(p)' BY <1>2, LegPlaces DEF PowerLoss, Alive, OwnDurable
  <2>. QED BY <2>1, <2>2 DEF DurableInv
<1>3. ASSUME NEW p \in Procs, Step(p) \/ Fault(p) PROVE DurableInv'
  <2>a. Apart(p) /\ Remembers(file, file') BY <1>3, Frame, FileKept DEF OnlyMoves
  <2>b. OwnDurable(p) BY DEF DurableInv
  <2>c. ASSUME UNCHANGED <<stable, sent>>, OwnDurable(p)' PROVE DurableInv'
    BY <2>a, <2>c, DurableFrame, KeptSame
  <2>d. ASSUME UNCHANGED <<stable, sent>>, pc'[p] \in {"new", "open", "claimed", "preflight",
           "resume",
               "source_answered", "receiver_answered", "release", "done"}
        PROVE  DurableInv'
    BY <2>d, LegPlaces, <2>c DEF OwnDurable
  <2>e. ASSUME UNCHANGED <<stable, sent>>, pc'[p] = "write",
               next'[p] \in {"release", "preflight"}
        PROVE  DurableInv'
    BY <2>e, LegPlaces, <2>c DEF OwnDurable
  <2>1. CASE Construct(p) \/ Acquire(p) \/ WriteFails(p) \/ FsyncFails(p) \/ Crash(p) \/ CancelDraining(p)
    BY <2>1, <2>d DEF Construct, Acquire, WriteFails, FsyncFails, Crash, Poison, CancelDraining, TypeOK
  <2>2. CASE Admit(p)
    <3>1. /\ UNCHANGED <<stable, sent>>
          /\ \/ pc'[p] \in {"resume", "release"}
             \/ pc'[p] = "write" /\ next'[p] = "preflight"
      BY <2>2 DEF Admit, AppendFlush, TypeOK
    <3>. QED BY <2>d, <2>e, <3>1
  <2>3. CASE Preflight(p)
    <3>1. UNCHANGED <<stable, sent>> /\ pc[p] = "preflight" BY <2>3 DEF Preflight
    <3>2. CASE AppendFlush(p, p, "BLOCKED", "release") BY <2>e, <3>1, <3>2 DEF AppendFlush, TypeOK
    <3>3. CASE AppendFlush(p, p, Intent["source"], Sending["source"]) BY <2>c, <3>1, <3>3, IntentFlush DEF Legs
    <3>4. CASE UNCHANGED <<next, pc>> BY <2>d, <3>1, <3>4
    <3>. QED BY <2>3, <3>2, <3>3, <3>4 DEF Preflight
  <2>4. ASSUME NEW leg \in Legs, Send(p, leg) PROVE DurableInv'
    <3>1. /\ pc[p] = Sending[leg] /\ sent' = sent \cup {<<p, leg>>} /\ UNCHANGED stable
          /\ pc'[p] = Answered[leg]
      BY <2>4 DEF Send, TypeOK
    <3>2. Recorded(stable, p, leg) BY <2>b, <3>1 DEF OwnDurable
    <3>3. \A e \in sent' \ sent : Recorded(stable', e[1], e[2]) BY <3>1, <3>2 DEF Recorded
    <3>4. OwnDurable(p)' BY <3>1, LegPlaces DEF OwnDurable
    <3>5. Remembers(stable, stable') BY <3>1, KeptSame
    <3>. QED BY <2>a, <3>3, <3>4, <3>5, DurableFrame
  <2>5. CASE IntendReceiver(p) BY <2>5, IntentFlush, <2>c DEF IntendReceiver, Legs
  <2>6. CASE Complete(p) BY <2>e, <2>6 DEF Complete, AppendFlush, TypeOK
  <2>7. CASE Write(p)
    <3>1. /\ pc[p] = "write" /\ pc'[p] = "fsync" /\ UNCHANGED <<stable, sent, next>>
          /\ pending[p] \in Seq(Records) /\ "clean" \in Ends
          /\ \E records \in Joined(p) : file' = Extended(file, records, "clean")
      BY <2>7 DEF Write, TypeOK, Ends
    <3>2. ASSUME NEW leg \in Legs, next[p] = Sending[leg] PROVE Recorded(file', p, leg)
      <4>1. file' = Extended(file, pending[p], "clean") BY <3>1, <3>2, OwnFlush DEF Flushing
      <4>2. HasEvent(pending[p], p, Intent[leg]) BY <2>b, <3>1, <3>2 DEF OwnDurable
      <4>. QED BY <1>b, <3>1, <4>1, <4>2, ExtendedLines DEF Recorded
    <3>3. OwnDurable(p)' BY <3>1, <3>2, LegPlaces DEF OwnDurable
    <3>. QED BY <2>c, <3>1, <3>3
  <2>8. CASE Fsync(p)
    <3>1. /\ stable' = file /\ pc[p] = "fsync" /\ UNCHANGED <<next, sent, file>>
          /\ pc'[p] \in {"fsyncdir", "release", next[p]}
      BY <2>8 DEF Fsync, Flushed, TypeOK
    <3>2. Remembers(stable, stable') BY <3>1, StableIsRecorded DEF Remembers
    <3>3. ASSUME NEW leg \in Legs, next[p] = Sending[leg] PROVE Recorded(stable', p, leg)
      BY <2>b, <3>1, <3>3 DEF OwnDurable
    <3>4. pc'[p] \notin {"write", "fsync"} \/ next[p] \notin {Sending[leg] : leg \in Legs} BY <3>1, LegPlaces
    <3>5. OwnDurable(p)' BY <3>1, <3>3, <3>4, LegPlaces DEF OwnDurable
    <3>. QED BY <2>a, <3>1, <3>2, <3>5, DurableFrame
  <2>9. CASE FsyncDir(p)
    <3>1. /\ pc[p] = "fsyncdir" /\ UNCHANGED <<next, sent, stable>>
          /\ pc'[p] \in {"release", next[p]}
      BY <2>9 DEF FsyncDir, Flushed, TypeOK
    <3>2. OwnDurable(p)' BY <2>b, <3>1, LegPlaces DEF OwnDurable, Recorded
    <3>. QED BY <2>c, <3>1, <3>2
  <2>10. CASE Release(p) BY <2>10, <2>d, <2>e DEF Release, TypeOK
  <2>11. CASE Cancel(p) BY <2>b, <2>11, <2>c DEF Cancel, OwnDurable, Recorded
  <2>. QED BY <1>3, <2>1, <2>2, <2>3, <2>4, <2>5, <2>6, <2>7, <2>8, <2>9, <2>10, <2>11 DEF Step, Fault
<1>4. ASSUME NEW p \in Procs, Worker(p) PROVE DurableInv'
  <2>1. WorkerMoves(p) /\ Remembers(file, file') BY <1>4, WorkerFrame, FileKept
  <2>2. Leaving(p)' BY <2>1 DEF RunInv, OwnRun, WorkerMoves, Leaving
  <2>3. OwnDurable(p)' BY <2>2, LegPlaces DEF Leaving, Flushing, OwnDurable
  <2>4. UNCHANGED stable \/ stable' = file BY <1>4 DEF Worker, WorkerWrites, WorkerSyncs, WorkerFails
  <2>5. Remembers(stable, stable') BY <2>4, KeptSame, StableIsRecorded DEF Remembers
  <2>. QED BY <2>1, <2>3, <2>5, DurableFrame DEF WorkerMoves
<1>. QED BY <1>1, <1>2, <1>3, <1>4 DEF Next

-----------------------------------------------------------------------------
(* Nobody sends after another. *)

\* The last event of a run that has one is an event of the run.
LEMMA LastEventIsOne ==
    ASSUME NEW s \in Seq(Records), NEW run, NEW event, HasEvent(s, run, event)
    PROVE  HasEvent(s, run, LastEvent(s, run))
<1>. DEFINE mine == {i \in DOMAIN s : s[i].run = run}
            last == CHOOSE i \in mine : \A j \in mine : j <= i
<1>1. mine \in SUBSET (1..Len(s)) /\ mine # {} /\ Len(s) \in Nat BY DEF HasEvent
<1>2. \E i \in mine : \A j \in mine : j <= i BY <1>1, GreatestOf
<1>3. last \in mine
  <2>. HIDE DEF mine
  <2>. QED BY <1>2
<1>4. LastEvent(s, run) = s[last].event BY DEF LastEvent
<1>. QED BY <1>3, <1>4 DEF HasEvent

Blocks(s, run) == HasEvent(s, run, "BLOCKED")
Intends(s, run) == \E leg \in Legs : HasEvent(s, run, Intent[leg])

\* What a run has refused or intended, on the file or about to be written.
Refused(p) == Blocks(file.lines, p) \/ \E s \in Joined(p) : Blocks(s, p)
Intended(p) == Intends(file.lines, p) \/ \E s \in Joined(p) : Intends(s, p)

\* A process writes refusals and intents of its own run only.
OwnRecords(p) ==
    \A s \in Joined(p), run \in Procs : Blocks(s, run) \/ Intends(s, run) => run = p

Sends == {Sending[leg] : leg \in Legs}

\* A process before its first decision, and one that may still send.
Early(p) ==
    \/ pc[p] \in {"new", "open", "claimed", "preflight"}
    \/ pc[p] \in Flushing /\ next[p] = "preflight"
Attempts(p) ==
    \/ pc[p] \in {"preflight"} \cup Sends \cup {Answered[leg] : leg \in Legs}
    \/ pc[p] \in Flushing /\ next[p] \in {"preflight"} \cup Sends

\* One that may still write, by itself or by the worker it left.
Working(p) == Claimed(p) \/ worker[p] # "none"

OwnReplay(p) ==
    /\ next[p] \in {"preflight", "release"} \cup Sends
    /\ Attempts(p) => subject[p] = p /\ ~Refused(p) /\ \A e \in sent : e[1] = p
    /\ Early(p) => subject[p] = p /\ ~Refused(p) /\ ~Intended(p)
    /\ Working(p) => OwnRecords(p) /\ ~(Refused(p) /\ Intended(p))

ReplayInv ==
    /\ NoReplay
    /\ \A run \in Procs : ~(Blocks(file.lines, run) /\ Intends(file.lines, run))
    /\ \A p \in Procs : OwnReplay(p)

\* A file that grows, if at all, by refusals and intents of p.
GrowsBy(p) ==
    \A run \in Procs :
        /\ Blocks(file'.lines, run) => Blocks(file.lines, run) \/ (run = p /\ Refused(p))
        /\ Intends(file'.lines, run) => Intends(file.lines, run) \/ (run = p /\ Intended(p))

\* A move of p that grows the file by p's records alone disturbs no other run.
LEMMA ReplayFrame ==
    ASSUME ClaimInv, ReplayInv, NEW p \in Procs, Apart(p), ~Claimed(p) => UNCHANGED sent,
           UNCHANGED file \/ (Working(p) /\ GrowsBy(p)), NoReplay', OwnReplay(p)'
    PROVE  ReplayInv'
<1>a. GrowsBy(p) BY DEF GrowsBy
<1>1. ASSUME NEW q \in Procs, q # p PROVE OwnReplay(q)'
  <2>1. /\ OwnReplay(q) /\ subject'[q] = subject[q]
        /\ pc'[q] = pc[q] /\ next'[q] = next[q] /\ pending'[q] = pending[q]
        /\ cancels'[q] = cancels[q] /\ batch'[q] = batch[q] /\ worker'[q] = worker[q]
    BY <1>1 DEF ReplayInv, Apart
  <2>2. /\ Attempts(q)' <=> Attempts(q)
        /\ Early(q)' <=> Early(q)
        /\ Working(q)' <=> Working(q)
    BY <2>1 DEF Attempts, Early, Working, Claimed
  <2>3. Attempts(q) => UNCHANGED sent
    <3>1. Attempts(q) => Claimed(q) BY LegPlaces DEF Attempts, Claimed, Flushing, Sends
    <3>. QED BY <1>1, <3>1 DEF ClaimInv
  <2>4. Joined(q)' = Joined(q) BY <2>1 DEF Joined
  <2>5. Refused(q)' => Refused(q) BY <1>1, <1>a, <2>4 DEF Refused, GrowsBy, Blocks
  <2>6. Intended(q)' => Intended(q) BY <1>1, <1>a, <2>4 DEF Intended, GrowsBy, Intends
  <2>7. OwnRecords(q)' <=> OwnRecords(q) BY <2>4 DEF OwnRecords, Blocks, Intends
  <2>. QED BY <2>1, <2>2, <2>3, <2>5, <2>6, <2>7 DEF OwnReplay
<1>2. ASSUME NEW run \in Procs PROVE ~(Blocks(file'.lines, run) /\ Intends(file'.lines, run))
  BY DEF GrowsBy, ReplayInv, OwnReplay, Refused, Intended
<1>. QED BY <1>1, <1>2 DEF ReplayInv, Blocks, Intends

\* A file that has no other event than it had and what p may write.
Reaches(p) ==
    \A run, event : HasEvent(file'.lines, run, event) =>
        HasEvent(file.lines, run, event) \/ \E s \in Joined(p) : HasEvent(s, run, event)

\* A step that queues nothing and sends nothing.
LEMMA ReplayKept ==
    ASSUME ClaimInv, ReplayInv, NEW p \in Procs, Apart(p),
           UNCHANGED sent, subject'[p] = subject[p], next'[p] \in {next[p], "release"},
           Joined(p)' \subseteq Joined(p) \cup {<<>>},
           Attempts(p)' => Attempts(p), Early(p)' => Early(p), Working(p)' => Working(p),
           UNCHANGED file \/ (Working(p) /\ Reaches(p))
    PROVE  ReplayInv'
<1>1. OwnReplay(p) BY DEF ReplayInv
<1>2. \A run, event : ~HasEvent(<<>>, run, event) BY DEF HasEvent
<1>3. \A run : ~Blocks(<<>>, run) /\ ~Intends(<<>>, run) BY <1>2 DEF Blocks, Intends
<1>4. Reaches(p) BY DEF Reaches
<1>5. \A run : /\ Blocks(file'.lines, run) => Blocks(file.lines, run) \/ \E s \in Joined(p) : Blocks(s, run)
               /\ Intends(file'.lines, run) => Intends(file.lines, run) \/ \E s \in Joined(p) : Intends(s, run)
  BY <1>4 DEF Reaches, Blocks, Intends
<1>6. (Refused(p)' => Refused(p)) /\ (Intended(p)' => Intended(p))
  <2>1. Refused(p)' <=> Blocks(file'.lines, p) \/ \E s \in Joined(p)' : Blocks(s, p) BY DEF Refused, Blocks
  <2>2. Intended(p)' <=> Intends(file'.lines, p) \/ \E s \in Joined(p)' : Intends(s, p) BY DEF Intended, Intends
  <2>. QED BY <1>3, <1>5, <2>1, <2>2 DEF Refused, Intended
<1>7. OwnRecords(p) => OwnRecords(p)'
  <2>1. OwnRecords(p)' <=> \A s \in Joined(p)', run \in Procs : Blocks(s, run) \/ Intends(s, run) => run = p
    BY DEF OwnRecords, Blocks, Intends
  <2>. QED BY <1>3, <2>1 DEF OwnRecords
<1>8. OwnReplay(p)' BY <1>1, <1>6, <1>7 DEF OwnReplay
<1>9. UNCHANGED file \/ (Working(p) /\ GrowsBy(p))
  <2>1. CASE Working(p) /\ Reaches(p)
    <3>1. OwnRecords(p) BY <1>1, <2>1 DEF OwnReplay
    <3>2. GrowsBy(p) BY <1>5, <3>1 DEF GrowsBy, OwnRecords, Refused, Intended
    <3>. QED BY <2>1, <3>2
  <2>. QED BY <2>1
<1>10. NoReplay' BY DEF ReplayInv, NoReplay
<1>. QED BY <1>8, <1>9, <1>10, ReplayFrame

\* What a flush leaves in the file was there or in what it may write.
LEMMA JoinedEvents ==
    ASSUME TypeOK, NEW p \in Procs, Write(p) \/ WriteFails(p) \/ WorkerWrites(p) \/ WorkerFails(p)
    PROVE  Reaches(p)
<1>. SUFFICES ASSUME NEW run, NEW event, HasEvent(file'.lines, run, event)
              PROVE  HasEvent(file.lines, run, event) \/ \E s \in Joined(p) : HasEvent(s, run, event)
  BY DEF Reaches
<1>1. file \in Images /\ Joined(p) \subseteq Seq(Records) BY JoinedType DEF TypeOK
<1>2. ASSUME NEW records \in Joined(p), WrittenShort(records)
      PROVE  HasEvent(file.lines, run, event) \/ HasEvent(records, run, event)
  <2>1. records \in Seq(Records) BY <1>1
  <2>2. PICK n \in 0..Len(records), end \in Ends :
           SubSeq(records, 1, n) \in Seq(Records) /\ file' = Extended(file, SubSeq(records, 1, n), end)
    BY <1>2, <2>1, WrittenShortIs
  <2>3. HasEvent(file.lines, run, event) \/ HasEvent(SubSeq(records, 1, n), run, event)
    BY <1>1, <2>2, ExtendedLines
  <2>. QED BY <2>1, <2>3, PrefixEvents
<1>3. ASSUME NEW records \in Joined(p), file' = Extended(file, records, "clean")
      PROVE  HasEvent(file.lines, run, event) \/ HasEvent(records, run, event)
  BY <1>1, <1>3, ExtendedLines DEF Ends
<1>4. \/ UNCHANGED file
      \/ \E records \in Joined(p) : WrittenShort(records)
      \/ \E records \in Joined(p) : file' = Extended(file, records, "clean")
  BY DEF Write, WriteFails, WorkerWrites, WorkerFails
<1>5. CASE UNCHANGED file BY <1>5
<1>. QED BY <1>2, <1>3, <1>4, <1>5

\* Between its flushes a task that goes on was not cancelled.
LEMMA Undisturbed ==
    ASSUME TypeOK, RunInv, NEW p \in Procs, pc[p] \notin {"release", "done"} \cup Flushing
    PROVE  /\ cancels[p] = 0 /\ worker[p] = "none" /\ Joined(p) = {pending[p]}
           /\ pc[p] \in {"new", "open", "claimed"} => pending[p] = <<>> /\ subject[p] = p
<1>1. OwnRun(p) /\ ~Leaving(p) BY DEF RunInv, Leaving
<1>2. cancels[p] \in 0..2 BY DEF TypeOK
<1>3. cancels[p] # 1 /\ cancels[p] # 2 BY <1>1 DEF OwnRun
<1>4. cancels[p] = 0 BY <1>2, <1>3
<1>. QED BY <1>1, <1>4 DEF OwnRun, Joined

\* An intent is no other event.
LEMMA EventsDistinct ==
    ASSUME NEW leg \in Legs
    PROVE  /\ Intent[leg] \notin {"STARTED", "DIAGNOSTIC", "BLOCKED", "COMPLETE", "UNKNOWN"}
           /\ Intent[leg] \in Intents
BY DEF Intent, Intents, Legs

\* An attempt is only admitted on a path under which nothing was sent.
LEMMA AdmittedAlone ==
    ASSUME TypeOK, StableInv, DurableInv, ReplayInv, Readable(file),
           UnresolvedRuns(file.lines) = {}, ~CompletedMutation(file.lines)
    PROVE  sent = {}
<1>. SUFFICES ASSUME NEW e \in sent PROVE FALSE OBVIOUS
<1>1. e[1] \in Procs /\ e[2] \in Legs BY DEF TypeOK
<1>. DEFINE run == e[1]
<1>2. HasEvent(file.lines, run, Intent[e[2]])
  BY StableIsRecorded DEF DurableInv, Recorded, Readable
<1>3. ~Unresolved(file.lines, run) BY <1>1 DEF UnresolvedRuns
<1>4. LastEvent(file.lines, run) \in {"BLOCKED", "COMPLETE"} BY <1>1, <1>2, <1>3, EventsDistinct DEF Unresolved
<1>5. HasEvent(file.lines, run, LastEvent(file.lines, run)) BY <1>2, LastEventIsOne DEF TypeOK, Images
<1>6. ~HasEvent(file.lines, run, "BLOCKED") BY <1>1, <1>2 DEF ReplayInv, Blocks, Intends
<1>7. ~HasEvent(file.lines, run, "COMPLETE") BY <1>1 DEF CompletedMutation
<1>. QED BY <1>4, <1>5, <1>6, <1>7

\* What a queued record adds to its process's own.
LEMMA EnqueuedReplay ==
    ASSUME TypeOK, NEW p \in Procs, NEW run \in Procs, NEW event \in Events,
           Enqueued(p, run, event), UNCHANGED <<file, cancels>>, cancels[p] = 0, OwnRecords(p),
           event \in Intents \cup {"BLOCKED"} => run = p
    PROVE  /\ OwnRecords(p)'
           /\ Refused(p)' <=> Refused(p) \/ event = "BLOCKED"
           /\ Intended(p)' <=> Intended(p) \/ event \in Intents
<1>. DEFINE r == [sequence |-> sequence[p] + 1, run |-> run, event |-> event]
<1>1. r \in Records BY DEF TypeOK, Records
<1>2. pending'[p] = Append(pending[p], r) /\ pending[p] \in Seq(Records) BY DEF TypeOK, Enqueued
<1>3. \A other, what : HasEvent(pending'[p], other, what) <=>
         HasEvent(pending[p], other, what) \/ (run = other /\ event = what)
  BY <1>1, <1>2, AppendEvents
<1>. HIDE DEF r
<1>4. \A other : Blocks(pending'[p], other) <=>
         Blocks(pending[p], other) \/ (run = other /\ event = "BLOCKED")
  BY <1>3 DEF Blocks
<1>5. \A other : Intends(pending'[p], other) <=>
         Intends(pending[p], other) \/ (run = other /\ event \in Intents)
  BY <1>3 DEF Intends, Intents
<1>6. file' = file BY Zenon
<1>7. Joined(p) = {pending[p]} /\ Joined(p)' = {pending'[p]} BY DEF Joined
<1>a. OwnRecords(p)' <=> \A s \in {pending'[p]}, other \in Procs : Blocks(s, other) \/ Intends(s, other) => other = p
  BY <1>7 DEF OwnRecords, Blocks, Intends
<1>b. Refused(p)' <=> Blocks(file'.lines, p) \/ \E s \in {pending'[p]} : Blocks(s, p) BY <1>7 DEF Refused, Blocks
<1>c. Intended(p)' <=> Intends(file'.lines, p) \/ \E s \in {pending'[p]} : Intends(s, p)
  BY <1>7 DEF Intended, Intends
<1>8. OwnRecords(p)' BY <1>4, <1>5, <1>7, <1>a DEF OwnRecords
<1>9. Refused(p)' <=> Refused(p) \/ event = "BLOCKED" BY <1>4, <1>6, <1>7, <1>b DEF Refused
<1>10. Intended(p)' <=> Intended(p) \/ event \in Intents BY <1>5, <1>6, <1>7, <1>c DEF Intended
<1>. QED BY <1>8, <1>9, <1>10

\* Power loss keeps ReplayInv: it ends every attempt and adds no record.
LEMMA ReplayPowerLoss ==
    ASSUME TypeOK, StableInv, ReplayInv, PowerLoss
    PROVE  ReplayInv'
<1>1. \A run, event : HasEvent(file'.lines, run, event) => HasEvent(file.lines, run, event)
  <2>. SUFFICES ASSUME NEW run, NEW event, HasEvent(file'.lines, run, event)
                PROVE  HasEvent(file.lines, run, event)
    OBVIOUS
  <2>1. stable \in Images /\ stable.lines \in Seq(Records) /\ file.lines \in Seq(Records) BY DEF TypeOK, Images
  <2>2. HasEvent(stable.lines, run, event) => HasEvent(file.lines, run, event) BY <2>1 DEF StableInv, HasEvent
  <2>3. ~HasEvent(NoFile.lines, run, event) BY DEF NoFile, HasEvent
  <2>4. [stable EXCEPT !.exists = TRUE, !.end = "torn"].lines = stable.lines BY <2>1 DEF Images
  <2>5. ASSUME NEW k \in (Len(stable.lines) + 1)..Len(file.lines), NEW e \in Ends,
               file' = [exists |-> TRUE, lines |-> SubSeq(file.lines, 1, k), end |-> e]
        PROVE  HasEvent(file.lines, run, event)
    BY <2>1, <2>5, PrefixEvents
  <2>6. file' \in Survivors BY DEF PowerLoss
  <2>7. CASE file' \in {[exists |-> TRUE, lines |-> SubSeq(file.lines, 1, k), end |-> e] :
                           k \in (Len(stable.lines) + 1)..Len(file.lines), e \in Ends}
    BY <2>5, <2>7
  <2>8. CASE file' \in {stable, NoFile, [stable EXCEPT !.exists = TRUE, !.end = "torn"]} BY <2>2, <2>3, <2>4, <2>8
  <2>. QED BY <2>6, <2>7, <2>8 DEF Survivors
<1>2. ASSUME NEW p \in Procs PROVE OwnReplay(p)'
  <2>1. /\ pc'[p] \in {"new", "done"} /\ (pc'[p] = "new" => pc[p] = "new")
        /\ worker'[p] = "none" /\ UNCHANGED <<next, subject, pending, batch, cancels, sent>>
    BY DEF PowerLoss, Alive, writerVars
  <2>2. ~Working(p)' /\ ~Attempts(p)'
    BY <2>1, LegPlaces DEF Working, Claimed, Attempts, Sends, Flushing
  <2>3. Early(p)' => Early(p) BY <2>1 DEF Early, Flushing
  <2>4. Joined(p)' = Joined(p) BY <2>1 DEF Joined
  <2>5. (Refused(p)' => Refused(p)) /\ (Intended(p)' => Intended(p))
    BY <1>1, <2>4 DEF Refused, Intended, Blocks, Intends
  <2>6. OwnReplay(p) BY DEF ReplayInv
  <2>. QED BY <2>1, <2>2, <2>3, <2>5, <2>6 DEF OwnReplay
<1>3. NoReplay' BY DEF PowerLoss, ReplayInv, NoReplay
<1>4. \A run \in Procs : ~(Blocks(file'.lines, run) /\ Intends(file'.lines, run))
  BY <1>1 DEF ReplayInv, Blocks, Intends
<1>. QED BY <1>2, <1>3, <1>4 DEF ReplayInv, Blocks, Intends


\* Every step, fault, worker and power loss keeps ReplayInv.
LEMMA ReplayStep ==
    ASSUME TypeOK, ClaimInv, RunInv, StableInv, DurableInv, ReplayInv, [Next]_vars
    PROVE  ReplayInv'
<1>. USE DEF Goto, writerVars, workerVars
<1>1. CASE UNCHANGED vars
  BY <1>1 DEF vars, OwnReplay, Attempts, Early, Working, Claimed, Refused, Intended, OwnRecords, Joined, ReplayInv,
    NoReplay
<1>2. CASE PowerLoss BY <1>2, ReplayPowerLoss
<1>3. ASSUME NEW p \in Procs, Step(p) \/ Fault(p) PROVE ReplayInv'
  <2>a. Apart(p) /\ (~Claimed(p) => UNCHANGED sent) BY <1>3, Frame DEF OnlyMoves
  <2>b. OwnReplay(p) /\ OwnRun(p) BY DEF ReplayInv, RunInv
  <2>c. ASSUME UNCHANGED <<file, sent>>, OwnReplay(p)' PROVE ReplayInv'
    BY <2>c, <2>a, ReplayFrame DEF ReplayInv, NoReplay
  <2>d. ASSUME UNCHANGED <<file, sent, subject, pending>>, next'[p] \in {next[p], "release"},
               Joined(p)' \subseteq Joined(p) \cup {<<>>},
               Claimed(p)' => Claimed(p), worker'[p] # "none" => Claimed(p) \/ worker[p] # "none",
               Attempts(p)' => Attempts(p), Early(p)' => Early(p)
        PROVE  ReplayInv'
    BY <2>d, <2>a, ReplayKept DEF Working
  <2>e. ASSUME NEW run \in Procs, NEW event \in Events, NEW then \in {"preflight", "release"} \cup Sends,
               AppendFlush(p, run, event, then), UNCHANGED <<file, sent, workerVars>>, Claimed(p), cancels[p] = 0,
               event \in Intents \cup {"BLOCKED"} => run = p,
               event = "BLOCKED" => ~Intended(p) /\ then = "release",
               event \in Intents => ~Refused(p) /\ then # "preflight",
               then # "release" => /\ subject'[p] = p /\ ~Refused(p)
                                   /\ \A e \in sent : e[1] = p,
               then = "preflight" => ~Intended(p)
        PROVE  ReplayInv'
    <3>1. /\ pc'[p] = "write" /\ next'[p] = then /\ Enqueued(p, run, event)
          /\ OwnRecords(p) /\ ~(Refused(p) /\ Intended(p))
      BY <2>b, <2>e DEF AppendFlush, OwnReplay, Working, TypeOK
    <3>2. /\ OwnRecords(p)'
          /\ Refused(p)' <=> Refused(p) \/ event = "BLOCKED"
          /\ Intended(p)' <=> Intended(p) \/ event \in Intents
      BY <2>e, <3>1, EnqueuedReplay
    <3>3. "BLOCKED" \notin Intents BY EventsDistinct DEF Intents
    <3>4. Attempts(p)' => then # "release" BY <3>1, LegPlaces DEF Attempts, Sends, Flushing
    <3>5. Early(p)' => then = "preflight" BY <3>1 DEF Early
    <3>6. "release" \notin Sends /\ "preflight" \notin Sends BY LegPlaces DEF Sends
    <3>7. OwnReplay(p)' BY <2>e, <3>1, <3>2, <3>3, <3>4, <3>5, <3>6 DEF OwnReplay
    <3>. QED BY <2>c, <2>e, <3>7
  <2>1. CASE Construct(p)
    <3>1. UNCHANGED <<file, sent, pending, subject, next, workerVars>> /\ pc[p] = "new"
             /\ pc'[p] \in {"open", "done"}
      BY <2>1 DEF Construct, TypeOK
    <3>2. ~Claimed(p)' /\ ~Attempts(p)' /\ Early(p) BY <3>1, LegPlaces DEF Claimed, Attempts, Early, Sends, Flushing
    <3>. QED BY <2>d, <3>1, <3>2 DEF Joined
  <2>2. CASE Acquire(p)
    <3>1. /\ UNCHANGED <<file, sent, pending, subject, next, workerVars>> /\ pc[p] = "open"
          /\ pc'[p] \in {"done", "claimed"}
      BY <2>2 DEF Acquire, TypeOK
    <3>2. CASE pc'[p] = "done"
      BY <3>2, LegPlaces, <2>d, <3>1 DEF Claimed, Attempts, Early, Sends, Flushing, Joined
    <3>3. CASE pc'[p] = "claimed"
      <4>1. Joined(p) = {<<>>} /\ subject[p] = p BY <3>1, Undisturbed DEF Flushing
      <4>2. ~Refused(p) /\ ~Intended(p) BY <2>b, <3>1 DEF OwnReplay, Early
      <4>3. Joined(p)' = {<<>>} BY <3>1, <4>1 DEF Joined
      <4>4. \A run \in Procs : ~Blocks(<<>>, run) /\ ~Intends(<<>>, run) BY DEF Blocks, Intends, HasEvent
      <4>5. OwnRecords(p)' BY <4>3, <4>4 DEF OwnRecords, Blocks, Intends
      <4>6. ~Refused(p)' /\ ~Intended(p)'
        BY <3>1, <4>1, <4>2, <4>3 DEF Refused, Intended, Blocks, Intends
      <4>7. ~Attempts(p)' BY <3>3, LegPlaces DEF Attempts, Sends, Flushing
      <4>8. OwnReplay(p)' BY <2>b, <3>1, <4>1, <4>5, <4>6, <4>7 DEF OwnReplay
      <4>. QED BY <2>c, <3>1, <4>8
    <3>. QED BY <3>1, <3>2, <3>3
  <2>3. CASE Admit(p)
    <3>1. /\ UNCHANGED <<file, sent, workerVars>> /\ pc[p] = "claimed" /\ Claimed(p) /\ Working(p)
          /\ cancels[p] = 0 /\ subject[p] = p
      BY <2>3, Undisturbed DEF Admit, Claimed, Working, Flushing
    <3>2. CASE UNCHANGED <<next, pending>> /\ pc'[p] \in {"resume", "release"}
      <4>1. ~Attempts(p)' /\ ~Early(p)' BY <3>2, LegPlaces DEF Attempts, Early, Sends, Flushing
      <4>2. /\ (Refused(p)' <=> Refused(p)) /\ (Intended(p)' <=> Intended(p))
            /\ (OwnRecords(p)' <=> OwnRecords(p))
        BY <3>1, <3>2 DEF Refused, Intended, OwnRecords, Joined
      <4>3. OwnReplay(p)' BY <2>b, <3>1, <3>2, <4>1, <4>2 DEF OwnReplay
      <4>. QED BY <2>c, <3>1, <4>3
    <3>3. CASE /\ Readable(file) /\ UnresolvedRuns(file.lines) = {} /\ ~CompletedMutation(file.lines)
               /\ AppendFlush(p, p, "STARTED", "preflight") /\ UNCHANGED subject
      BY <3>1, <3>3, AdmittedAlone, <2>b, EventsDistinct, <2>e, EventTypes DEF OwnReplay, Early, Intents
    <3>. QED BY <2>3, <3>2, <3>3 DEF Admit, TypeOK
  <2>4. CASE Preflight(p)
    <3>1. /\ UNCHANGED <<file, sent, subject, workerVars>> /\ pc[p] = "preflight" /\ Claimed(p) /\ Working(p)
          /\ ~Refused(p) /\ ~Intended(p) /\ subject[p] = p /\ \A e \in sent : e[1] = p
          /\ cancels[p] = 0
      BY <2>4, <2>b, Undisturbed DEF Preflight, Claimed, Working, OwnReplay, Early, Attempts, Flushing
    <3>2. CASE AppendFlush(p, p, "BLOCKED", "release")
      BY EventsDistinct, <2>e, <3>1, <3>2, EventTypes DEF Intents
    <3>3. CASE AppendFlush(p, p, Intent["source"], Sending["source"])
      BY EventsDistinct, EventTypes, LegPlaces, <2>e, <3>1, <3>3 DEF Legs, Sends
    <3>4. CASE Enqueued(p, p, "DIAGNOSTIC") /\ UNCHANGED <<next, pc>>
      <4>1. OwnRecords(p)' /\ ~Refused(p)' /\ ~Intended(p)'
        BY EventsDistinct, <2>b, <3>1, <3>4, EnqueuedReplay, EventTypes DEF Intents, OwnReplay
      <4>2. OwnReplay(p)' BY <2>b, <3>1, <3>4, <4>1 DEF OwnReplay
      <4>. QED BY <2>c, <3>1, <4>2
    <3>. QED BY <2>4, <3>2, <3>3, <3>4 DEF Preflight
  <2>5. ASSUME NEW leg \in Legs, Send(p, leg) PROVE ReplayInv'
    <3>1. /\ pc[p] = Sending[leg] /\ pc'[p] = Answered[leg] /\ sent' = sent \cup {<<p, leg>>}
          /\ UNCHANGED <<file, pending, subject, next, workerVars>>
      BY <2>5 DEF Send, TypeOK
    <3>2. Attempts(p) /\ Claimed(p) /\ Working(p) BY <3>1, LegPlaces DEF Attempts, Sends, Claimed, Working
    <3>3. \A e \in sent' : e[1] = p BY <2>b, <3>1, <3>2 DEF OwnReplay
    <3>4. NoReplay' BY <3>3 DEF NoReplay
    <3>5. ~Early(p)' BY <3>1, LegPlaces DEF Early, Flushing
    <3>6. /\ (Refused(p)' <=> Refused(p)) /\ (Intended(p)' <=> Intended(p))
          /\ (OwnRecords(p)' <=> OwnRecords(p))
      BY <3>1 DEF Refused, Intended, OwnRecords, Joined
    <3>7. OwnReplay(p)' BY <2>b, <3>1, <3>2, <3>3, <3>5, <3>6 DEF OwnReplay
    <3>. QED BY <2>a, <3>1, <3>4, <3>7, ReplayFrame
  <2>6. CASE IntendReceiver(p)
    <3>1. /\ AppendFlush(p, p, Intent["receiver"], Sending["receiver"])
          /\ UNCHANGED <<file, sent, subject, workerVars>> /\ pc[p] = Answered["source"]
      BY <2>6 DEF IntendReceiver
    <3>2. Attempts(p) /\ Claimed(p) /\ cancels[p] = 0
      BY <3>1, LegPlaces, Undisturbed DEF Attempts, Claimed, Legs, Flushing
    <3>3. ~Refused(p) /\ subject[p] = p /\ \A e \in sent : e[1] = p BY <2>b, <3>2 DEF OwnReplay
    <3>. QED BY <3>1, <3>2, <3>3, LegPlaces, EventsDistinct, EventTypes, <2>e DEF Legs, Sends
  <2>7. CASE Complete(p)
    <3>1. PICK event \in {"COMPLETE", "UNKNOWN"} : AppendFlush(p, subject[p], event, "release") BY <2>7 DEF Complete
    <3>a. pc[p] \in {"source_answered", "receiver_answered", "resume"} BY <2>7, LegPlaces DEF Complete
    <3>2. /\ UNCHANGED <<file, sent, workerVars>> /\ Claimed(p) /\ subject[p] \in Procs /\ cancels[p] = 0
      BY <2>7, <3>a, Undisturbed DEF Complete, Claimed, TypeOK, Flushing
    <3>3. event \notin Intents \cup {"BLOCKED"} /\ event \in Events BY EventsDistinct, EventTypes DEF Intents
    <3>. QED BY <2>e, <3>1, <3>2, <3>3
  <2>8. CASE Write(p) \/ WriteFails(p)
    <3>1. /\ pc[p] = "write" /\ UNCHANGED <<sent, pending, subject, next, workerVars>>
          /\ pc'[p] \in {"fsync", "release"}
      BY <2>8 DEF Write, WriteFails, Poison, TypeOK
    <3>2. Claimed(p) /\ Working(p) /\ (Attempts(p)' => Attempts(p)) /\ (Early(p)' => Early(p))
      BY <3>1, LegPlaces DEF Claimed, Working, Attempts, Early, Sends, Flushing
    <3>3. Joined(p)' = Joined(p) BY <3>1 DEF Joined
    <3>. QED BY <2>8, <2>a, <3>1, <3>2, <3>3, JoinedEvents, ReplayKept
  <2>9. CASE Fsync(p) \/ FsyncDir(p)
    <3>1. /\ pc[p] \in {"fsync", "fsyncdir"} /\ UNCHANGED <<file, sent, subject, next, workerVars>>
          /\ \/ pc'[p] = "fsyncdir" /\ UNCHANGED pending
             \/ pc'[p] \in {"release", next[p]} /\ pending'[p] = <<>>
      BY <2>9 DEF Fsync, FsyncDir, Flushed, TypeOK
    <3>2. pc[p] \in Flushing /\ Claimed(p) /\ Working(p) BY <3>1 DEF Flushing, Claimed, Working
    <3>3. next[p] \in {"preflight", "release"} \cup Sends BY <2>b DEF OwnReplay
    <3>4. (Attempts(p)' => Attempts(p)) /\ (Early(p)' => Early(p))
      BY <3>1, <3>2, <3>3, LegPlaces DEF Attempts, Early, Sends, Flushing
    <3>5. Joined(p)' \subseteq Joined(p) \cup {<<>>} BY <3>1 DEF Joined
    <3>. QED BY <2>a, <3>1, <3>2, <3>4, <3>5, ReplayKept
  <2>10. CASE FsyncFails(p) \/ Crash(p)
    <3>1. /\ UNCHANGED <<file, sent, pending, subject, next, cancels, batch>> /\ (Claimed(p)' => Claimed(p))
          /\ pc'[p] \in {"release", "done"} /\ worker'[p] \in {worker[p], "none"}
      BY <2>10 DEF FsyncFails, Poison, Crash, WorkerLeaves, Claimed, TypeOK
    <3>2. ~Attempts(p)' /\ ~Early(p)' BY <3>1, LegPlaces DEF Attempts, Early, Sends, Flushing
    <3>3. Joined(p)' = Joined(p) BY <3>1 DEF Joined
    <3>. QED BY <2>d, <3>1, <3>2, <3>3
  <2>11. CASE Cancel(p)
    <3>1. /\ UNCHANGED <<file, sent, pending, subject, next, pc, worker>>
          /\ cancels[p] = 0 /\ cancels'[p] = 1
      BY <2>11 DEF Cancel, TypeOK
    <3>2. Joined(p)' = Joined(p) BY <3>1 DEF Joined
    <3>. QED BY <3>1, <3>2, <2>d DEF Claimed, Attempts, Early, Flushing
  <2>12. CASE CancelDraining(p)
    <3>1. /\ UNCHANGED <<file, sent, pending, subject, next>> /\ pc[p] \in Flushing
          /\ pc'[p] = "release" /\ batch'[p] = pending[p]
      BY <2>12 DEF CancelDraining, TypeOK, Flushing
    <3>2. Claimed(p) /\ ~Attempts(p)' /\ ~Early(p)'
      BY <3>1, LegPlaces DEF Claimed, Attempts, Early, Sends, Flushing
    <3>3. Joined(p)' \subseteq Joined(p) BY <3>1 DEF Joined
    <3>. QED BY <2>d, <3>1, <3>2, <3>3
  <2>13. CASE Release(p)
    <3>1. /\ UNCHANGED <<file, sent, pending, subject, workerVars>> /\ pc[p] = "release"
          /\ \/ pc'[p] = "done" /\ UNCHANGED next
             \/ pc'[p] = "write" /\ next'[p] = "release"
      BY <2>13 DEF Release, TypeOK
    <3>2. Claimed(p) /\ ~Attempts(p)' /\ ~Early(p)' BY <3>1, LegPlaces DEF Claimed, Attempts, Early, Sends, Flushing
    <3>3. Joined(p)' = Joined(p) BY <3>1 DEF Joined
    <3>. QED BY <2>d, <3>1, <3>2, <3>3
  <2>. QED BY <1>3, <2>1, <2>2, <2>3, <2>4, <2>5, <2>6, <2>7, <2>8, <2>9, <2>10, <2>11, <2>12, <2>13
    DEF Step, Fault
<1>4. ASSUME NEW p \in Procs, Worker(p) PROVE ReplayInv'
  <2>1. WorkerMoves(p) BY <1>4, WorkerFrame
  <2>2. Joined(p)' \subseteq Joined(p) \cup {<<>>} BY <2>1 DEF WorkerMoves, Joined
  <2>3. /\ Working(p) /\ UNCHANGED <<sent, subject, next, pc>> /\ Apart(p)
        /\ (Attempts(p)' <=> Attempts(p)) /\ (Early(p)' <=> Early(p))
    BY <2>1 DEF WorkerMoves, Working, Attempts, Early
  <2>4. UNCHANGED file \/ Reaches(p) BY <1>4, JoinedEvents DEF Worker, WorkerSyncs
  <2>. QED BY <2>2, <2>3, <2>4, ReplayKept
<1>. QED BY <1>1, <1>2, <1>3, <1>4 DEF Next

-----------------------------------------------------------------------------
(* The theorems.                                                           *)

\* The layers together; the last two need EntryIsKept.
OrderInv == TypeOK /\ ClaimInv /\ RunInv /\ SequenceInv /\ StableInv
JournalInv == OrderInv /\ DurableInv /\ ReplayInv

\* Nothing is written, queued or sent at first.
LEMMA InitOrder == Init => OrderInv
<1>. SUFFICES ASSUME Init PROVE OrderInv OBVIOUS
<1>1. NoFile \in Images /\ NoFile.lines = <<>> /\ NoFile.end = "clean" BY DEF NoFile, Images, Ends
<1>2. <<>> \in Seq(Records) OBVIOUS
<1>3. TypeOK
  <2>1. file \in Images /\ stable \in Images /\ entry \in BOOLEAN /\ owner \in Procs \cup {NoProc}
    BY <1>1 DEF Init
  <2>2. pc \in [Procs -> Places] /\ next \in [Procs -> Places] BY DEF Init, Places
  <2>3. sequence \in [Procs -> Nat] /\ subject \in [Procs -> Procs] /\ cancels \in [Procs -> 0..2]
    BY DEF Init
  <2>4. /\ pending \in [Procs -> Seq(Records)] /\ batch \in [Procs -> Seq(Records)]
        /\ failed \in [Procs -> BOOLEAN] /\ created \in [Procs -> BOOLEAN]
        /\ worker \in [Procs -> {"none", "write", "fsync"}]
    BY <1>2 DEF Init
  <2>5. sent \subseteq Procs \X Legs /\ losses \in Nat /\ failures \in Nat BY DEF Init
  <2>. QED BY <2>1, <2>2, <2>3, <2>4, <2>5 DEF TypeOK
<1>4. SequenceInv BY <1>1, EmptyLines DEF Init, SequenceInv, OwnSequence, Claimed
<1>5. StableInv BY <1>1 DEF Init, StableInv
<1>. QED BY <1>3, <1>4, <1>5, ClaimInductive, RunInductive DEF OrderInv

\* Every step keeps the first layers, whatever power loss forgets.
LEMMA OrderStep == OrderInv /\ [Next]_vars => OrderInv'
BY TypeStep, ClaimStep, RunStep, SequenceStep, StableStep DEF OrderInv

\* Nobody has sent, refused or intended anything at first.
LEMMA InitJournal == Init => JournalInv
<1>. SUFFICES ASSUME Init PROVE JournalInv OBVIOUS
<1>1. DurableInv BY LegPlaces DEF Init, DurableInv, OwnDurable
<1>2. \A run, event : ~HasEvent(file.lines, run, event) BY DEF Init, NoFile, HasEvent
<1>3. \A run, event : ~HasEvent(<<>>, run, event) BY DEF HasEvent
<1>4. ASSUME NEW p \in Procs PROVE OwnReplay(p)
  <2>1. pc[p] = "new" /\ next[p] = "release" /\ subject[p] = p /\ worker[p] = "none" BY DEF Init
  <2>2. Joined(p) = {<<>>} BY DEF Init, Joined
  <2>3. ~Refused(p) /\ ~Intended(p) BY <1>2, <1>3, <2>2 DEF Refused, Intended, Blocks, Intends
  <2>4. ~Attempts(p) /\ ~Working(p) BY <2>1, LegPlaces DEF Attempts, Working, Claimed, Sends, Flushing
  <2>. QED BY <2>1, <2>3, <2>4 DEF OwnReplay
<1>5. ReplayInv BY <1>2, <1>4 DEF Init, ReplayInv, NoReplay, Blocks, Intends
<1>. QED BY <1>1, <1>5, InitOrder DEF JournalInv

\* Every step keeps all of them while the entry of a synced file is kept.
LEMMA JournalStep == EntryIsKept /\ JournalInv /\ [Next]_vars => JournalInv'
BY OrderStep, DurableStep, ReplayStep DEF JournalInv, OrderInv

\* Type correctness of the journal and of its writers.
THEOREM TypeCorrect == Spec => []TypeOK
<1>1. OrderInv => TypeOK BY DEF OrderInv
<1>. QED BY <1>1, InitOrder, OrderStep, PTL DEF Spec

\* No flush runs beside the lock, however many processes are cancelled, and
\* cancelled again: a second cancellation leaves its worker to write after
\* release_attempt unlocked, but never with an order still to come.
THEOREM LockExcludes == Spec => []FlushHoldsLock
<1>1. OrderInv => FlushHoldsLock
  <2>. SUFFICES ASSUME OrderInv, NEW p \in Procs, pc[p] \in Flushing \/ worker[p] # "none"
                PROVE  owner = p \/ (p \in Abandoned /\ <<p, "receiver">> \notin sent)
    BY DEF FlushHoldsLock
  <2>1. CASE pc[p] \in Flushing BY <2>1 DEF OrderInv, ClaimInv, Claimed, Flushing
  <2>2. CASE worker[p] # "none"
    <3>1. cancels[p] = 2 BY <2>2 DEF OrderInv, RunInv, OwnRun
    <3>2. ~BothSent(p) BY <3>1 DEF OrderInv, RunInv, OwnRun
    <3>. QED BY <3>1, <3>2 DEF Abandoned, BothSent
  <2>. QED BY <2>1, <2>2
<1>. QED BY <1>1, InitOrder, OrderStep, PTL DEF Spec

\* Two records share a sequence number, or go back, only by an abandoned run,
\* for any number of processes, whatever dies, fails, is cancelled or is lost:
\* acquire_attempt reads the last sequence again under the lock, and a writer
\* whose flush failed never appends again.
THEOREM SequenceCorrect == Spec => []SequencesIncrease
<1>1. OrderInv => SequencesIncrease
  BY DEF OrderInv, SequenceInv, Increasing, Rises, SequencesIncrease
<1>. QED BY <1>1, InitOrder, OrderStep, PTL DEF Spec

\* An order leaves only when its intent survives any power loss, or nobody can
\* decode the file any more: _flush_pending syncs before it returns, on a file
\* system that keeps the entry of a synced file.
THEOREM DurableCorrect == ASSUME EntryIsKept PROVE Spec => []SentIsDurable
<1>1. JournalInv => SentIsDurable
  <2>. SUFFICES ASSUME JournalInv, NEW e \in sent
                PROVE  HasEvent(stable.lines, e[1], Intent[e[2]]) \/ ~Readable(stable)
    BY DEF SentIsDurable
  <2>. QED BY DEF JournalInv, DurableInv, Recorded, Readable
<1>2. JournalInv /\ [Next]_vars => JournalInv' BY JournalStep
<1>. QED BY <1>1, <1>2, InitJournal, PTL DEF Spec

\* At most one process ever sends under one journal path: an attempt that
\* finds an unresolved or a completed run, or bytes it cannot decode, sends
\* nothing (_execute_locked), and every run that sent left one of them.
THEOREM NoReplayEver == ASSUME EntryIsKept PROVE Spec => []NoReplay
<1>1. JournalInv => NoReplay BY DEF JournalInv, ReplayInv
<1>2. JournalInv /\ [Next]_vars => JournalInv' BY JournalStep
<1>. QED BY <1>1, <1>2, InitJournal, PTL DEF Spec

-----------------------------------------------------------------------------
(* The read stream: what it tells its readers, for any keys, nonces and    *)
(* frames.                                                                 *)

Entries == [state : Stream!States, fresh : BOOLEAN]
Hints   == [state : Stream!States, fresh : BOOLEAN, event : Nat]

StreamType ==
    /\ lastOrders \in [Keys -> Stream!States \cup {None}]
    /\ orders \in [Keys -> Entries \cup {None}]
    /\ exact \in [Keys -> Hints \cup {None}]
    /\ version \in [Keys -> Nat] /\ consumed \in [Keys -> Nat]
    /\ accepted \in [Keys -> Nat]
    /\ shown \in [Keys -> SUBSET Stream!States] /\ first \in [Keys -> SUBSET Stream!States]
    /\ spent \in [Keys -> SUBSET Nat]
    /\ malformed \in BOOLEAN /\ conflicts \in BOOLEAN

\* The depth, fresh or not, is the book of the last nonce.
BookInv == depth # None => stream = "up" /\ bookSnapshot /\ depth = bookNonce

\* What is cached of an order is what was last accepted of it, which goes back
\* on nothing that was told.
CacheInv(k) ==
    /\ orders[k] # None =>
          /\ stream = "up"
          /\ lastOrders[k] # None /\ orders[k].state = lastOrders[k]
          /\ orders[k].fresh => orders[k].state \in first[k]
    /\ stream = "none" => shown[k] = {}
    /\ stream = "up" =>
          \A s \in shown[k] : lastOrders[k] # None /\ ~Stream!Regresses(s, lastOrders[k])

\* A hint is of the last accepted event, and one that woke a waiter is consumed.
HintInv(k) ==
    /\ \A e \in spent[k] : e <= accepted[k]
    /\ exact[k] # None =>
          /\ stream = "up"
          /\ exact[k].state = lastOrders[k]
          /\ exact[k].event = accepted[k]
          /\ accepted[k] \in spent[k] => version[k] <= consumed[k]

\* What disturbs an admission leaves a trace that nothing removes.
Blemished == stream # "up" \/ malformed \/ conflicts
AdmissionInv ==
    /\ granted = FALSE
    /\ stream = "none" => anchor = None
    /\ anchor # None /\ ~Blemished =>
          /\ anchor.version \in [Keys -> Nat]
          /\ \A j \in Keys : version[j] >= anchor.version[j]
          /\ disturbed = TRUE => \E j \in Keys \ {anchor.key} : version[j] > anchor.version[j]

StreamInv ==
    /\ stream \in {"none", "up", "down"} /\ disturbed \in BOOLEAN
    /\ StreamType /\ BookInv /\ AdmissionInv
    /\ \A k \in Keys : CacheInv(k) /\ HintInv(k)

\* No state goes back on itself, and what does not go back on what came before
\* does not go back on anything.
LEMMA RegressesNot ==
    ASSUME NEW s \in Stream!States
    PROVE  ~Stream!Regresses(s, s)
BY DEF Stream!Regresses, Stream!States

LEMMA RegressesThrough ==
    ASSUME NEW a \in Stream!States, NEW b \in Stream!States, NEW c \in Stream!States,
           ~Stream!Regresses(a, b), ~Stream!Regresses(b, c)
    PROVE  ~Stream!Regresses(a, c)
BY DEF Stream!Regresses, Stream!States

LEMMA StreamInit == Stream!Init => StreamInv
<1>. SUFFICES ASSUME Stream!Init PROVE StreamInv OBVIOUS
<1>. USE DEF Stream!Init, Stream!Empty
<1>1. StreamType BY DEF StreamType
<1>2. BookInv /\ AdmissionInv BY DEF BookInv, AdmissionInv
<1>3. ASSUME NEW k \in Keys PROVE CacheInv(k) /\ HintInv(k) BY DEF CacheInv, HintInv
<1>. QED BY <1>1, <1>2, <1>3 DEF StreamInv

LEMMA ConnectStep == StreamInv /\ Stream!Connect => StreamInv'
<1>. SUFFICES ASSUME StreamInv, Stream!Connect PROVE StreamInv' OBVIOUS
<1>. USE DEF StreamInv, Stream!Connect, Stream!observer, Stream!hints, Stream!reads, Stream!seen
<1>1. StreamType' BY DEF StreamType
<1>2. BookInv' /\ AdmissionInv' BY DEF BookInv, AdmissionInv
<1>3. ASSUME NEW k \in Keys PROVE CacheInv(k)' /\ HintInv(k)' BY DEF CacheInv, HintInv
<1>. QED BY <1>1, <1>2, <1>3

LEMMA ForgetStep ==
    StreamInv /\ Stream!Forget /\ UNCHANGED <<malformed, conflicts>> => StreamInv'
BY DEF Stream!Forget, Stream!Empty, StreamInv, StreamType, BookInv, AdmissionInv, CacheInv, HintInv, Blemished

LEMMA AgeStep == StreamInv /\ Stream!Age => StreamInv'
<1>. SUFFICES ASSUME StreamInv, Stream!Age PROVE StreamInv' OBVIOUS
<1>. USE DEF StreamInv, Stream!Age, Stream!observer
<1>1. StreamType' BY DEF StreamType, Stream!Empty, Entries, Hints
<1>2. BookInv' BY DEF BookInv
<1>3. AdmissionInv' BY DEF AdmissionInv, Blemished
<1>4. ASSUME NEW k \in Keys PROVE CacheInv(k)' BY DEF StreamType, Entries, CacheInv, Stream!Regresses
<1>5. ASSUME NEW k \in Keys PROVE HintInv(k)' BY DEF StreamType, Hints, HintInv
<1>. QED BY <1>1, <1>2, <1>3, <1>4, <1>5

LEMMA GarbledStep == StreamInv /\ Stream!GarbledFrame => StreamInv'
BY DEF Stream!GarbledFrame, Stream!Frame, Stream!Empty, Stream!hints, Stream!Regresses, StreamInv, StreamType,
  BookInv, AdmissionInv, CacheInv, HintInv, Blemished

LEMMA BookStep ==
    ASSUME NEW n, NEW b, NEW good \in BOOLEAN, NEW kind,
           StreamInv, Stream!BookFrame(kind, b, n, good)
    PROVE  StreamInv'
<1>. USE DEF StreamInv, Stream!BookFrame, Stream!Frame
<1>1. StreamType' BY DEF StreamType
<1>2. BookInv' BY DEF BookInv, Stream!ReadBook
<1>3. AdmissionInv' BY DEF AdmissionInv, Blemished
<1>4. ASSUME NEW k \in Keys PROVE CacheInv(k)' /\ HintInv(k)' BY DEF CacheInv, HintInv, Stream!Regresses
<1>. QED BY <1>1, <1>2, <1>3, <1>4

\* What a frame of one order does to the states, the hints and the caches.
LEMMA OrderFrameStep ==
    ASSUME NEW kind, NEW k \in Keys, NEW s \in Stream!States \cup {None}, NEW whole \in BOOLEAN,
           StreamInv, Stream!OrderFrame(kind, k, s, whole)
    PROVE  StreamInv'
<1>. DEFINE judged == IF s = None THEN "junk" ELSE Stream!Judged(k, s)
            sub    == kind = "subscribed"
            prior  == IF sub THEN None ELSE orders[k]
            held  == IF s = None THEN None ELSE Stream!Cached(k, s, judged, whole, prior)
<1>. USE DEF StreamInv
<1>0. stream = "up" /\ stream' = "up" BY DEF Stream!OrderFrame, Stream!Frame
<1>1. judged \in {"junk", "duplicate", "conflict", "order"} BY DEF Stream!Judged
<1>2. /\ judged = "junk" => s = None
      /\ judged # "junk" => s \in Stream!States
      /\ judged = "duplicate" => lastOrders[k] = s
      /\ judged = "order" /\ lastOrders[k] # None => ~Stream!Regresses(lastOrders[k], s)
  BY DEF Stream!Judged
<1>3. /\ lastOrders' = (IF judged = "order" THEN [lastOrders EXCEPT ![k] = s] ELSE lastOrders)
      /\ orders' = [j \in Keys |-> IF j = k THEN held ELSE IF sub THEN None ELSE orders[j]]
      /\ accepted' = (IF judged = "order" THEN [accepted EXCEPT ![k] = @ + 1] ELSE accepted)
      /\ first' = (IF judged = "order" THEN [first EXCEPT ![k] = @ \cup {s}] ELSE first)
      /\ malformed' = (malformed \/ judged = "junk")
      /\ conflicts' = (conflicts \/ judged = "conflict")
      /\ Stream!Hint(k, s, judged)
      /\ Stream!Told(TRUE, orders')
      /\ disturbed' = (disturbed \/ judged \notin {"order", "duplicate"}
                          \/ (judged = "order" /\ anchor # None /\ anchor.key # k))
      /\ spent' = (IF judged = "conflict" /\ exact[k] # None
                     THEN [spent EXCEPT ![k] = @ \cup {exact[k].event}] ELSE spent)
      /\ UNCHANGED <<depth, anchor, granted, bookSnapshot, bookNonce>>
  BY DEF Stream!OrderFrame
<1>. HIDE DEF judged
<1>4. held # None =>
         \/ held = [state |-> s, fresh |-> TRUE] /\ judged = "order"
         \/ held = prior /\ prior # None /\ judged = "duplicate" /\ prior.state = s
  BY <1>1 DEF Stream!Cached
<1>. HIDE DEF held
<1>5. ASSUME NEW j \in Keys, orders'[j] # None
      PROVE  \/ j = k /\ judged = "order" /\ orders'[j] = [state |-> s, fresh |-> TRUE]
             \/ orders[j] # None /\ orders'[j] = orders[j] /\ (j = k => judged = "duplicate")
  BY <1>3, <1>4, <1>5
<1>. HIDE DEF sub, prior
<1>6. ASSUME NEW j \in Keys
      PROVE  lastOrders'[j] = (IF j = k /\ judged = "order" THEN s ELSE lastOrders[j])
  BY <1>3 DEF StreamType
<1>7. ASSUME NEW j \in Keys, orders'[j] # None
      PROVE  /\ orders'[j] \in Entries
             /\ lastOrders'[j] # None /\ orders'[j].state = lastOrders'[j]
    <2>1. CASE j = k /\ judged = "order" /\ orders'[j] = [state |-> s, fresh |-> TRUE]
      BY <1>2, <2>1, <1>6 DEF judged, Entries
    <2>2. CASE orders[j] # None /\ orders'[j] = orders[j] /\ (j = k => judged = "duplicate")
      BY <1>6, <2>2 DEF StreamType, CacheInv
    <2>. QED BY <1>5, <1>7, <2>1, <2>2
<1>8. ASSUME NEW j \in Keys
      PROVE  shown'[j] = shown[j] \cup
                 (IF orders'[j] # None /\ orders'[j].fresh THEN {orders'[j].state} ELSE {})
  BY <1>3 DEF Stream!Told
<1>9. StreamType'
    <2>1. lastOrders' \in [Keys -> Stream!States \cup {None}] BY <1>2, <1>3 DEF StreamType
    <2>2. orders' \in [Keys -> Entries \cup {None}] BY <1>3, <1>7
    <2>3. accepted' \in [Keys -> Nat] /\ first' \in [Keys -> SUBSET Stream!States] BY <1>2, <1>3 DEF StreamType
    <2>4. /\ exact' \in [Keys -> Hints \cup {None}]
          /\ version' \in [Keys -> Nat] /\ consumed' \in [Keys -> Nat]
        <3>1. CASE judged = "order"
            <4>1. [state |-> s, fresh |-> TRUE, event |-> accepted'[k]] \in Hints BY <1>2, <2>3, <3>1 DEF Hints
            <4>2. /\ exact' = [exact EXCEPT ![k] =
                                   [state |-> s, fresh |-> TRUE, event |-> accepted'[k]]]
                  /\ version' = [version EXCEPT ![k] = @ + 1] /\ consumed' = consumed
              BY <1>3, <3>1 DEF Stream!Hint
            <4>. QED BY <4>1, <4>2 DEF StreamType
        <3>2. CASE judged # "order" BY <1>3, <3>2 DEF Stream!Hint, StreamType
        <3>. QED BY <3>1, <3>2
    <2>5. shown' \in [Keys -> SUBSET Stream!States] BY <1>3, <1>7, <1>8 DEF Stream!Told, StreamType, Entries
    <2>6. spent' \in [Keys -> SUBSET Nat] BY <1>3 DEF StreamType, Hints
    <2>7. malformed' \in BOOLEAN /\ conflicts' \in BOOLEAN BY <1>3 DEF StreamType
    <2>. QED BY <2>1, <2>2, <2>3, <2>4, <2>5, <2>6, <2>7 DEF StreamType
<1>10. BookInv' BY <1>0, <1>3 DEF BookInv
<1>11. ASSUME NEW j \in Keys PROVE CacheInv(j)'
    <2>1. ASSUME orders'[j] # None, orders'[j].fresh PROVE orders'[j].state \in first'[j]
      BY <1>3, <1>5, <2>1 DEF CacheInv, StreamType
    <2>2. ASSUME NEW t \in shown'[j]
          PROVE  lastOrders'[j] # None /\ ~Stream!Regresses(t, lastOrders'[j])
        <3>1. CASE t \in shown[j]
            <4>1. lastOrders[j] # None /\ ~Stream!Regresses(t, lastOrders[j]) BY <1>0, <3>1 DEF CacheInv
            <4>2. CASE j = k /\ judged = "order"
              BY <1>2, <4>2, <3>1, <4>1, RegressesThrough, <1>6 DEF judged, StreamType
            <4>. QED BY <1>6, <4>1, <4>2
        <3>2. CASE orders'[j] # None /\ t = orders'[j].state BY <1>7, <3>2, RegressesNot DEF Entries
        <3>. QED BY <1>8, <2>2, <3>1, <3>2
    <2>. QED BY <1>0, <1>7, <2>1, <2>2 DEF CacheInv
<1>12. ASSUME NEW j \in Keys PROVE HintInv(j)'
    <2>1. /\ \A e \in spent[j] : e \in Nat /\ e <= accepted[j]
          /\ accepted[j] \in Nat
          /\ exact[j] = None \/ exact[j] \in Hints
      BY DEF HintInv, StreamType
    <2>2. CASE j # k BY <1>3, <2>2, <1>0, <1>6 DEF Stream!Hint, StreamType, HintInv
    <2>3. CASE j = k /\ judged = "order" BY <1>3, <2>3, <2>1, <1>0, <1>6 DEF Stream!Hint, StreamType, HintInv
    <2>4. CASE j = k /\ judged = "conflict" BY <1>3, <2>4, <2>1 DEF Stream!Hint, StreamType, HintInv
    <2>5. CASE j = k /\ judged \in {"junk", "duplicate"} BY <1>3, <2>5, <1>0, <1>6 DEF Stream!Hint, HintInv
    <2>. QED BY <1>1, <2>2, <2>3, <2>4, <2>5
<1>13. AdmissionInv'
    <2>1. SUFFICES ASSUME anchor # None /\ ~Blemished'
                   PROVE  /\ \A j \in Keys : version'[j] >= version[j]
                          /\ disturbed' = TRUE => \/ disturbed = TRUE
                                                  \/ k # anchor.key /\ version'[k] > version[k]
        <3>1. ~Blemished' => ~Blemished BY <1>0, <1>3 DEF Blemished
        <3>2. anchor' = anchor /\ granted' = granted BY <1>3
        <3>3. version' \in [Keys -> Nat] /\ version \in [Keys -> Nat] BY <1>9 DEF StreamType
        <3>4. CASE anchor = None \/ Blemished' BY <1>0, <3>2, <3>4 DEF AdmissionInv
        <3>5. CASE anchor # None /\ ~Blemished'
            <4>1. /\ anchor.version \in [Keys -> Nat]
                  /\ \A j \in Keys : version[j] >= anchor.version[j]
                  /\ disturbed = TRUE =>
                        \E j \in Keys \ {anchor.key} : version[j] > anchor.version[j]
              BY <3>1, <3>5 DEF AdmissionInv
            <4>2. /\ \A j \in Keys : version'[j] >= version[j]
                  /\ disturbed' = TRUE => \/ disturbed = TRUE
                                          \/ k # anchor.key /\ version'[k] > version[k]
              BY <2>1, <3>5
            <4>3. \A j \in Keys : /\ version'[j] \in Nat /\ version[j] \in Nat
                                  /\ anchor.version[j] \in Nat
              BY <3>3, <4>1
            <4>4. \A j \in Keys : version'[j] >= anchor.version[j] BY <4>1, <4>2, <4>3
            <4>5. ASSUME disturbed' = TRUE
                  PROVE  \E j \in Keys \ {anchor.key} : version'[j] > anchor.version[j]
              BY <4>1, <4>2, <4>3, <4>5
            <4>. QED BY <1>0, <3>2, <4>1, <4>4, <4>5 DEF AdmissionInv
        <3>. QED BY <3>4, <3>5
    <2>2. judged \in {"order", "duplicate"} BY <1>1, <1>3, <2>1 DEF Blemished
    <2>3. CASE judged = "order" BY <1>3, <2>3, <2>1 DEF Stream!Hint, StreamType
    <2>4. CASE judged = "duplicate" BY <1>3, <2>4 DEF Stream!Hint, StreamType
    <2>. QED BY <2>2, <2>3, <2>4
<1>14. stream' \in {"none", "up", "down"} /\ disturbed' \in BOOLEAN BY <1>0, <1>3
<1>. QED BY <1>9, <1>10, <1>11, <1>12, <1>13, <1>14

LEMMA NoOrderStep ==
    ASSUME NEW kind, StreamInv, Stream!NoOrderFrame(kind)
    PROVE  StreamInv'
<1>. USE DEF StreamInv, Stream!NoOrderFrame, Stream!Frame, Stream!hints, Stream!seen,
             Stream!Empty
<1>1. StreamType' BY DEF StreamType
<1>2. BookInv' /\ AdmissionInv' BY DEF BookInv, AdmissionInv, Blemished
<1>3. ASSUME NEW j \in Keys PROVE CacheInv(j)' /\ HintInv(j)' BY DEF CacheInv, HintInv, Stream!Regresses
<1>. QED BY <1>1, <1>2, <1>3

LEMMA WaitStep ==
    ASSUME NEW k \in Keys, StreamInv, Stream!WaitTerminalHint(k)
    PROVE  StreamInv'
<1>. USE DEF StreamInv, Stream!WaitTerminalHint, Stream!observer, Stream!reads
<1>1. exact[k] # None /\ exact[k] \in Hints /\ exact[k].event = accepted[k]
  BY DEF Stream!TerminalHint, StreamType, HintInv
<1>2. StreamType' BY <1>1 DEF StreamType, Hints
<1>3. BookInv' /\ AdmissionInv' BY DEF BookInv, AdmissionInv, Blemished
<1>4. ASSUME NEW j \in Keys PROVE CacheInv(j)' BY DEF CacheInv, Stream!Regresses
<1>5. ASSUME NEW j \in Keys PROVE HintInv(j)'
    <2>1. CASE j = k BY <1>1, <2>1 DEF StreamType, HintInv
    <2>2. CASE j # k BY <2>2 DEF StreamType, HintInv
    <2>. QED BY <2>1, <2>2
<1>. QED BY <1>2, <1>3, <1>4, <1>5

LEMMA AdmissionStep ==
    ASSUME NEW k \in Keys, StreamInv, Stream!BeginAdmission(k)
    PROVE  StreamInv'
<1>. USE DEF StreamInv, Stream!BeginAdmission, Stream!observer, Stream!reads, Stream!hints
<1>1. StreamType' /\ BookInv' BY DEF StreamType, BookInv
<1>2. AdmissionInv' BY DEF AdmissionInv, Blemished, Stream!SubscriptionReady, StreamType
<1>3. ASSUME NEW j \in Keys PROVE CacheInv(j)' /\ HintInv(j)' BY DEF CacheInv, HintInv, Stream!Regresses
<1>. QED BY <1>1, <1>2, <1>3

LEMMA GrantStep == StreamInv /\ Stream!GrantView => StreamInv'
<1>. SUFFICES ASSUME StreamInv, Stream!GrantView PROVE StreamInv' OBVIOUS
<1>. USE DEF StreamInv, Stream!GrantView, Stream!observer, Stream!reads, Stream!hints
<1>1. disturbed = FALSE
  BY DEF Blemished, Stream!SubscriptionReady, Stream!NothingInvalid, Stream!OthersUntouched, AdmissionInv,
    StreamType
<1>2. StreamType' /\ BookInv' BY DEF StreamType, BookInv
<1>3. AdmissionInv' BY <1>1 DEF AdmissionInv, Blemished
<1>4. ASSUME NEW j \in Keys PROVE CacheInv(j)' /\ HintInv(j)' BY DEF CacheInv, HintInv, Stream!Regresses
<1>. QED BY <1>2, <1>3, <1>4

LEMMA StreamStutter == StreamInv /\ UNCHANGED Stream!vars => StreamInv'
<1>. SUFFICES ASSUME StreamInv, UNCHANGED Stream!vars PROVE StreamInv' OBVIOUS
<1>. USE DEF StreamInv, Stream!vars, Stream!observer, Stream!reads, Stream!hints, Stream!seen
<1>1. StreamType' /\ BookInv' /\ AdmissionInv' BY DEF StreamType, BookInv, AdmissionInv, Blemished
<1>2. ASSUME NEW j \in Keys PROVE CacheInv(j)' /\ HintInv(j)' BY DEF CacheInv, HintInv, Stream!Regresses
<1>. QED BY <1>1, <1>2

LEMMA StreamInvAlways == Stream!Spec => []StreamInv
<1>1. ASSUME StreamInv, [Stream!Next]_Stream!vars PROVE StreamInv'
    <2>1. CASE Stream!Disconnect BY <1>1, <2>1, ForgetStep DEF Stream!Disconnect
    <2>2. CASE Stream!StoppingFrame BY <1>1, <2>2, ForgetStep DEF Stream!StoppingFrame
    <2>. QED
      BY <1>1, <2>1, <2>2, ConnectStep, AgeStep, GarbledStep, BookStep, OrderFrameStep, NoOrderStep, WaitStep,
        AdmissionStep, GrantStep, StreamStutter DEF Stream!Next
<1>. QED BY <1>1, StreamInit, PTL DEF Stream!Spec

\* What the read stream tells its readers is of its own connection: the book
\* of the last nonce, orders that go back on nothing, a wake for each event at
\* most, and a view over an undisturbed stretch (feed, ws_admission_view).
THEOREM StreamsAreTrue == Stream!Spec => []StreamIsTrue
<1>1. ASSUME StreamInv PROVE StreamIsTrue
    <2>1. Stream!BookIsTrue BY <1>1 DEF StreamInv, BookInv, Stream!BookIsTrue, Stream!Book
    <2>2. Stream!ReadsAreTrue
        <3>. SUFFICES ASSUME NEW k \in Keys, Stream!Order(k) # None
                      PROVE  /\ stream = "up"
                             /\ Stream!Order(k) \in first[k]
                             /\ \A s \in shown[k] : ~Stream!Regresses(s, Stream!Order(k))
          BY DEF Stream!ReadsAreTrue
        <3>1. orders[k] # None /\ orders[k].fresh /\ Stream!Order(k) = orders[k].state BY DEF Stream!Order
        <3>. QED BY <1>1, <3>1 DEF StreamInv, CacheInv
    <2>3. Stream!HintsAreTrue
        <3>. SUFFICES ASSUME NEW k \in Keys, exact[k] # None, version[k] > consumed[k]
                      PROVE  /\ stream = "up" /\ exact[k].state = lastOrders[k]
                             /\ exact[k].event \notin spent[k]
          BY DEF Stream!HintsAreTrue
        <3>1. version[k] \in Nat /\ consumed[k] \in Nat BY <1>1 DEF StreamInv, StreamType
        <3>. QED BY <1>1, <3>1 DEF StreamInv, HintInv
    <2>4. Stream!AdmissionIsClean BY <1>1 DEF StreamInv, AdmissionInv, Stream!AdmissionIsClean
    <2>. QED BY <2>1, <2>2, <2>3, <2>4 DEF StreamIsTrue, Stream!StreamIsTrue
<1>. QED BY <1>1, StreamInvAlways, PTL

\* The same of the run, where the stream is one of two that share nothing.
THEOREM StreamsCheckedAreTrue == RecordsSpec => []StreamIsTrue
<1>1. RecordsInit => Stream!Init BY DEF RecordsInit
<1>2. [RecordsNext]_<<vars, which, streamVars, bookVars, socketVars>>
         => [Stream!Next]_(Stream!vars)
  BY DEF streamVars, Stream!vars, Stream!observer, Stream!hints, Stream!reads, Stream!seen, RecordsNext,
    BookOnly, SocketOnly
<1>. QED BY <1>1, <1>2, StreamsAreTrue, PTL DEF RecordsSpec, Stream!Spec

-----------------------------------------------------------------------------
(* The books of the paper runtime: one market on a socket of its venue.   *)

AllKinds == {"RISEX", "LIGHTER", "NADO"}
BookFrames == [t : {"delta", "snap"}, from : Nat, to : Nat]
Copies == [conn : BOOLEAN, ok : BOOLEAN, seq : Int, has : SUBSET Nat]
Endings == {"NONE", "OPEN", "COMPLETE", "FAILED"}
BookEpisodes == [sess : Nat, buf : Seq(BookFrames), end : Endings, over : Nat]
Tasks == [t : {"none", "try", "asked", "sleep", "timer"}, n : Nat, from : Nat]
Refreshes == [on : BOOLEAN, from : Nat, moved : BOOLEAN]

RecoveryTypes ==
    /\ venue \in AllKinds
    /\ made \in Nat /\ on \in BOOLEAN /\ asked \in Nat /\ wire \in Seq(BookFrames)
    /\ turn \in Nat /\ turn # 0 /\ seen \in Nat
    /\ stage \in {"down", "fetch", "join", "read", "sleep"}
    /\ copy \in Copies /\ ready \in BOOLEAN /\ keeper \in Nat /\ flow \in BOOLEAN
    /\ episode \in BookEpisodes /\ task \in Tasks /\ ref \in Refreshes

\* Frames of a venue that has made h changes; and the ones on the wire come in
\* the order of the book, behind the last one read.
Fit(f, h) == f.from <= f.to /\ f.to <= h
AllFit(q, h) == \A i \in 1..Len(q) : Fit(q[i], h)
Upto(q, n) == \A i \in 1..Len(q) : q[i].to <= n
InOrder(q) == \A i \in 1..(Len(q) - 1) : q[i].to <= q[i + 1].to

RecoveryWire ==
    /\ seen <= made /\ AllFit(wire, made) /\ InOrder(wire)
    /\ wire # <<>> => seen <= wire[1].to

\* A book in use shows the changes up to one of them.
Whole(b, h) == b.ok => \E n \in 0..h : b.has = 1..n /\ b.seq \in {Book!NoSeq, n}

\* A recovery holds back what was read, and nothing that was not.
EpisodeInv ==
    /\ episode.sess <= turn
    /\ stage = "down" => ~Book!Owns
    /\ AllFit(episode.buf, made)
    /\ Book!Owns => Upto(episode.buf, seen)
    /\ task.from <= made /\ ref.from <= made

SnapIn(q) == \E i \in 1..Len(q) : q[i].t = "snap"
Comes(n, q) == n > 0 \/ SnapIn(q)

\* RISEx: a socket that is read has its snapshot, or one is still to come.
RisexInv ==
    venue = "RISEX" =>
        /\ task = Book!NoTask /\ episode.end # "FAILED"
        /\ keeper # 0 => /\ stage = "read" /\ ~Book!Open /\ keeper = turn
                         /\ ready /\ copy.conn /\ copy.ok /\ copy.seq = seen
                         /\ ref.on => ref.moved
        /\ stage = "fetch" => Comes(asked, wire)
        /\ stage = "read" => keeper = turn \/ Comes(asked, wire)
        /\ stage # "join"

\* Lighter: the same, unless the timer of a recovery ended it as failed.
LighterInv ==
    venue = "LIGHTER" =>
        /\ stage \notin {"fetch", "join"}
        /\ Book!Usable => /\ stage = "read" /\ episode.end \in {"NONE", "COMPLETE"}
                          /\ ready /\ copy.seq = seen
        /\ stage = "read" =>
                 /\ Book!Open => Book!Owns /\ task.t # "none"
                 /\ episode.end \in {"NONE", "COMPLETE"} => Book!Usable \/ Comes(asked, wire)

\* Nado: its frames bring no snapshot, so a lost book has a rescue at work.
NadoInv ==
    venue = "NADO" =>
        /\ asked = 0 /\ ~SnapIn(wire) /\ task.t # "timer"
        /\ copy.ok => copy.seq # Book!NoSeq
        /\ stage = "fetch" => episode.end \in {"NONE", "COMPLETE"}
        /\ stage \in {"join", "read"} => (Book!Open => Book!Owns /\ task.t # "none")
        /\ stage = "join" => episode.end # "NONE"
        /\ stage \in {"join", "read"} /\ episode.end \in {"NONE", "COMPLETE"} => Book!Usable

RecoveryInv ==
    /\ RecoveryTypes /\ RecoveryWire /\ EpisodeInv /\ Whole(copy, made)
    /\ RisexInv /\ LighterInv /\ NadoInv

LEMMA LostIs ==
    ASSUME NEW b \in Copies
    PROVE  /\ Book!Lost(b) \in Copies /\ ~Book!Lost(b).ok /\ Book!Lost(b).conn = b.conn
           /\ Book!Cut(b) \in Copies /\ ~Book!Cut(b).ok
           /\ \A h : Whole(Book!Lost(b), h) /\ Whole(Book!Cut(b), h)
<1>1. Book!NoSeq \in Int /\ {} \in SUBSET Nat BY DEF Book!NoSeq
<1>2. Book!Lost(b) \in Copies /\ ~Book!Lost(b).ok /\ Book!Lost(b).conn = b.conn BY <1>1 DEF Book!Lost, Copies
<1>. DEFINE l == Book!Lost(b)
<1>3. Book!Cut(b) = [l EXCEPT !.conn = FALSE] BY DEF Book!Cut
<1>4. Book!Cut(b) \in Copies /\ ~Book!Cut(b).ok
    <2>. HIDE DEF l
    <2>1. l \in Copies /\ ~l.ok BY <1>2 DEF l
    <2>. QED BY <1>3, <2>1 DEF Copies
<1>. QED BY <1>2, <1>4 DEF Whole

LEMMA ShowsIs ==
    ASSUME NEW h \in Nat, NEW n \in 0..h, NEW s \in {Book!NoSeq, n}
    PROVE  /\ Book!Shows(n, s) \in Copies /\ Book!Shows(n, s).ok /\ Book!Shows(n, s).conn
           /\ Book!Shows(n, s).seq = s /\ Whole(Book!Shows(n, s), h)
BY DEF Book!Shows, Copies, Book!NoSeq, Whole

LEMMA AbsoluteIs ==
    ASSUME NEW b \in Copies, NEW f \in BookFrames
    PROVE  /\ Book!Absolute(b, f) \in Copies /\ Book!Absolute(b, f).ok = b.ok
           /\ Book!Absolute(b, f).conn = b.conn /\ Book!Absolute(b, f).seq = f.to
           /\ Book!Absolute(b, f).has = b.has \cup (f.from + 1)..f.to
<1>1. f.from \in Nat /\ f.to \in Nat BY DEF BookFrames
<1>2. b.has \cup (f.from + 1)..f.to \in SUBSET Nat BY <1>1 DEF Copies
<1>. DEFINE c == [b EXCEPT !.has = @ \cup (f.from + 1)..f.to]
<1>3. c \in Copies /\ c.ok = b.ok /\ c.conn = b.conn /\ c.has = b.has \cup (f.from + 1)..f.to BY <1>2 DEF Copies
<1>4. Book!Absolute(b, f) = [c EXCEPT !.seq = f.to] BY <1>1 DEF Book!Absolute, Copies
<1>. HIDE DEF c
<1>. QED BY <1>1, <1>3, <1>4 DEF Copies

\* A delta that continues a whole book leaves a whole one.
LEMMA Continued ==
    ASSUME NEW b \in Copies, NEW f \in BookFrames, NEW h \in Nat, Fit(f, h), b.ok, Whole(b, h),
           b.seq # Book!NoSeq, f.from <= b.seq, b.seq <= f.to
    PROVE  Whole(Book!Absolute(b, f), h)
<1>1. PICK n \in 0..h : b.has = 1..n /\ b.seq = n BY DEF Whole
<1>2. f.from \in Nat /\ f.to \in 0..h BY DEF Fit, BookFrames
<1>3. 1..n \cup (f.from + 1)..f.to = 1..f.to BY <1>1, <1>2
<1>. QED BY <1>1, <1>2, <1>3, AbsoluteIs DEF Whole

LEMMA Applied ==
    ASSUME NEW b \in Copies, NEW f \in BookFrames, NEW h \in Nat, Fit(f, h), Whole(b, h),
           venue \in AllKinds, venue = "NADO" /\ b.ok => b.seq # Book!NoSeq
    PROVE  /\ Book!ApplyDelta(b, f) \in Copies /\ Book!ApplyDelta(b, f).conn = b.conn
           /\ Book!ApplyDelta(b, f).ok => b.ok /\ Book!ApplyDelta(b, f).seq # Book!NoSeq
           /\ venue # "NADO" /\ Book!ApplyDelta(b, f).ok => Book!ApplyDelta(b, f).seq = f.to
           /\ Whole(Book!ApplyDelta(b, f), h)
<1>. DEFINE a == Book!ApplyDelta(b, f)
<1>0. f.to \in Nat /\ f.from \in Nat /\ f.from <= f.to /\ f.to \in 0..h /\ b.seq \in Int
  BY DEF BookFrames, Fit, Copies
<1>1. CASE a = Book!Lost(b) BY <1>1, LostIs
<1>2. CASE a = b /\ b.ok /\ venue = "NADO" BY <1>2
<1>3. CASE a = Book!Absolute(b, f) /\ b.ok /\ b.seq # Book!NoSeq /\ f.from <= b.seq
         /\ b.seq <= f.to
  BY <1>0, <1>3, AbsoluteIs, Continued DEF Book!NoSeq
<1>4. CASE a = Book!Absolute(b, f) /\ b.ok /\ Book!Absolute(b, f).has = 1..f.to
  BY <1>0, <1>4, AbsoluteIs DEF Book!NoSeq, Whole
<1>5. CASE ~b.ok BY <1>1, <1>5 DEF Book!ApplyDelta
<1>6. CASE b.ok /\ venue = "NADO" BY <1>6, <1>0, <1>1, <1>2, <1>3 DEF Book!ApplyDelta, Book!NadoDelta
<1>7. CASE b.ok /\ venue = "LIGHTER" BY <1>7, <1>0, <1>1, <1>3 DEF Book!ApplyDelta, Book!LighterDelta
<1>8. CASE b.ok /\ venue = "RISEX" BY <1>8, <1>1, <1>4 DEF Book!ApplyDelta, Book!RisexUpdate
<1>. QED BY <1>5, <1>6, <1>7, <1>8 DEF AllKinds

Least ==
    \A T \in SUBSET Nat : T # {} => \E x \in T : x = 0 \/ (x - 1 \in Nat /\ x - 1 \notin T)
LEMMA LeastIs == Least
<1>. SUFFICES ASSUME NEW T \in SUBSET Nat, T # {}
              PROVE  \E x \in T : x = 0 \/ (x - 1 \in Nat /\ x - 1 \notin T)
  BY DEF Least
<1>1. \E x \in T : \A y \in T : ~(<<y, x>> \in OpToRel(<, Nat)) BY NatLessThanWellFounded, WFMin
<1>2. PICK x \in T : \A y \in T : ~(<<y, x>> \in OpToRel(<, Nat)) BY <1>1
<1>3. \A y \in T : ~(y < x) BY <1>2 DEF OpToRel
<1>. QED BY <1>3

\* One delta of the buffer q, on what the ones before it made of b.
Tried(b, q, x, i) == IF q[i].to > b.seq THEN Book!ApplyDelta(x, q[i]) ELSE x
Made(b, q, g, n) ==
    g = [i \in 0..n |-> IF i = 0 THEN b ELSE Tried(b, q, g[i - 1], i)]

LEMMA MadeExists ==
    ASSUME NEW b, NEW q, NEW m \in Nat
    PROVE  \E g : Made(b, q, g, m)
<1>. DEFINE T == {n \in Nat : ~\E g : Made(b, q, g, n)}
<1>1. SUFFICES ASSUME T # {} PROVE FALSE OBVIOUS
<1>2. PICK n \in T : n = 0 \/ (n - 1 \in Nat /\ n - 1 \notin T) BY <1>1, LeastIs DEF Least
<1>3. CASE n = 0
    <2>. DEFINE z == [i \in 0..0 |-> b]
    <2>1. z = [i \in 0..0 |-> IF i = 0 THEN b ELSE Tried(b, q, z[i - 1], i)] OBVIOUS
    <2>. QED BY <1>2, <1>3, <2>1 DEF Made
<1>4. CASE n # 0
    <2>1. n - 1 \in Nat /\ n \in Nat BY <1>2, <1>4
    <2>2. PICK g : Made(b, q, g, n - 1) BY <1>2, <1>4, <2>1
    <2>. DEFINE h == [i \in 0..n |-> IF i = n THEN Tried(b, q, g[n - 1], n) ELSE g[i]]
    <2>3. ASSUME NEW i \in 0..n PROVE h[i] = IF i = 0 THEN b ELSE Tried(b, q, h[i - 1], i)
        <3>1. CASE i = n BY <2>1, <3>1, <1>4
        <3>2. CASE i # n
            <4>1. i \in 0..(n - 1) /\ h[i] = g[i] BY <2>1, <3>2
            <4>2. g[i] = IF i = 0 THEN b ELSE Tried(b, q, g[i - 1], i) BY <2>2, <4>1 DEF Made
            <4>3. i # 0 => h[i - 1] = g[i - 1] BY <2>1, <3>2
            <4>. HIDE DEF h
            <4>. QED BY <4>1, <4>2, <4>3
        <3>. QED BY <3>1, <3>2
    <2>4. h = [i \in 0..n |-> h[i]] OBVIOUS
    <2>. HIDE DEF h
    <2>5. Made(b, q, h, n) BY <2>3, <2>4 DEF Made
    <2>. QED BY <1>2, <2>5
<1>. QED BY <1>3, <1>4

\* What is so of the first book and stays so with every delta is so of the last.
LEMMA CaughtUpIs ==
    ASSUME NEW b \in Copies, NEW q \in Seq(BookFrames), NEW h \in Nat, AllFit(q, h), Whole(b,
       h),
           venue \in AllKinds, b.ok, b.seq # Book!NoSeq
    PROVE  /\ Book!CaughtUp(b, q) \in Copies /\ Book!CaughtUp(b, q).conn = b.conn
           /\ Whole(Book!CaughtUp(b, q), h)
           /\ Book!CaughtUp(b, q).ok => Book!CaughtUp(b, q).seq # Book!NoSeq
           /\ Upto(q, b.seq) => Book!CaughtUp(b, q) = b
<1>. DEFINE P(x) == /\ x \in Copies /\ x.conn = b.conn /\ Whole(x, h)
                    /\ x.ok => x.seq # Book!NoSeq
                    /\ Upto(q, b.seq) => x = b
            t == CHOOSE g : g = [i \in 0..Len(q) |->
                                    IF i = 0 THEN b
                                    ELSE IF q[i].to > b.seq THEN Book!ApplyDelta(g[i - 1], q[i])
                                    ELSE g[i - 1]]
<1>0. Len(q) \in Nat OBVIOUS
<1>1. Book!CaughtUp(b, q) = t[Len(q)] BY DEF Book!CaughtUp
<1>2. \E g : g = [i \in 0..Len(q) |->
                    IF i = 0 THEN b
                    ELSE IF q[i].to > b.seq THEN Book!ApplyDelta(g[i - 1], q[i]) ELSE g[i - 1]]
    <2>1. \E g : Made(b, q, g, Len(q)) BY <1>0, MadeExists
    <2>2. PICK g : Made(b, q, g, Len(q)) BY <2>1
    <2>3. g = [i \in 0..Len(q) |->
                 IF i = 0 THEN b
                 ELSE IF q[i].to > b.seq THEN Book!ApplyDelta(g[i - 1], q[i]) ELSE g[i - 1]]
      BY <2>2 DEF Made, Tried
    <2>. QED BY <2>3
<1>3. t = [i \in 0..Len(q) |->
             IF i = 0 THEN b
             ELSE IF q[i].to > b.seq THEN Book!ApplyDelta(t[i - 1], q[i]) ELSE t[i - 1]]
  BY <1>2
<1>. HIDE DEF t
<1>4. ASSUME NEW x, NEW i \in 1..Len(q), P(x), q[i].to > b.seq PROVE P(Book!ApplyDelta(x, q[i]))
    <2>1. q[i] \in BookFrames /\ Fit(q[i], h) BY DEF AllFit
    <2>2. ~Upto(q, b.seq) BY <2>1, <1>4 DEF BookFrames, Copies, Upto
    <2>3. x \in Copies /\ Whole(x, h) /\ x.conn = b.conn /\ (x.ok => x.seq # Book!NoSeq) BY <1>4
    <2>. QED BY <2>1, <2>2, <2>3, Applied
<1>5. P(b) OBVIOUS
<1>. DEFINE T == {i \in 0..Len(q) : ~P(t[i])}
<1>6. T = {}
    <2>. SUFFICES ASSUME T # {} PROVE FALSE OBVIOUS
    <2>. HIDE DEF P
    <2>0. T \in SUBSET Nat BY <1>0
    <2>1. PICK i \in T : i = 0 \/ (i - 1 \in Nat /\ i - 1 \notin T) BY <2>0, LeastIs DEF Least
    <2>2. CASE i = 0 BY <1>0, <1>3, <1>5, <2>2
    <2>3. CASE i # 0
        <3>1. i \in 1..Len(q) /\ i - 1 \in 0..Len(q) BY <1>0, <2>1, <2>3
        <3>2. P(t[i - 1]) BY <2>1, <2>3, <3>1
        <3>3. t[i] = IF q[i].to > b.seq THEN Book!ApplyDelta(t[i - 1], q[i]) ELSE t[i - 1] BY <1>3, <2>3, <3>1
        <3>4. P(t[i]) BY <1>4, <3>1, <3>2, <3>3
        <3>. QED BY <3>4
    <2>. QED BY <2>2, <2>3
<1>7. P(t[Len(q)])
    <2>. HIDE DEF P
    <2>. QED BY <1>0, <1>6
<1>. QED BY <1>1, <1>7

\* The book a recovery makes of a snapshot.
LEMMA BuiltIs ==
    ASSUME RecoveryTypes, EpisodeInv, NEW n \in 0..made, NEW s \in {Book!NoSeq, n}
    PROVE  LET r == Book!BuildRecoveryBook(n, s)
           IN  /\ r \in Copies /\ Whole(r, made)
               /\ r.ok => r.conn
               /\ venue = "LIGHTER" /\ s = Book!NoSeq => ~r.ok
               /\ s # Book!NoSeq /\ r.ok => r.seq # Book!NoSeq
               /\ s # Book!NoSeq /\ r.ok /\ Upto(episode.buf, n) => r.seq = n
<1>. DEFINE r == Book!BuildRecoveryBook(n, s)
<1>0. /\ copy \in Copies /\ made \in Nat /\ venue \in AllKinds
            /\ episode.buf \in Seq(BookFrames)
      /\ AllFit(episode.buf, made)
  BY DEF RecoveryTypes, EpisodeInv, BookEpisodes
<1>1. ~Book!Lost(copy).ok /\ Book!Lost(copy) \in Copies /\ Whole(Book!Lost(copy), made) BY <1>0, LostIs
<1>2. /\ Book!Shows(n, s) \in Copies /\ Book!Shows(n, s).ok /\ Book!Shows(n, s).conn
      /\ Book!Shows(n, s).seq = s /\ Whole(Book!Shows(n, s), made)
  BY <1>0, ShowsIs
<1>3. CASE s = Book!NoSeq BY <1>1, <1>2, <1>3 DEF Book!BuildRecoveryBook
<1>4. CASE s # Book!NoSeq /\ r = Book!Lost(copy) BY <1>1, <1>4
<1>5. CASE s # Book!NoSeq /\ r = Book!CaughtUp(Book!Shows(n, s), episode.buf)
    <2>. DEFINE b == Book!Shows(n, s)
    <2>1. s = n BY <1>5
    <2>. HIDE DEF b
    <2>2. b \in Copies /\ b.ok /\ b.conn /\ b.seq = n /\ Whole(b, made) /\ b.seq # Book!NoSeq
      BY <1>2, <1>5, <2>1 DEF b
    <2>3. /\ Book!CaughtUp(b, episode.buf) \in Copies /\ Book!CaughtUp(b, episode.buf).conn
          /\ Whole(Book!CaughtUp(b, episode.buf), made)
          /\ Book!CaughtUp(b, episode.buf).ok => Book!CaughtUp(b, episode.buf).seq # Book!NoSeq
          /\ Upto(episode.buf, n) => Book!CaughtUp(b, episode.buf) = b
      BY <1>0, <2>2, CaughtUpIs
    <2>4. r = Book!CaughtUp(b, episode.buf) BY <1>5 DEF b
    <2>5. /\ r \in Copies /\ Whole(r, made) /\ r.conn
          /\ r.ok => r.seq # Book!NoSeq
          /\ Upto(episode.buf, n) /\ r.ok => r.seq = n
        <3>. HIDE DEF r
        <3>. QED BY <2>2, <2>3, <2>4
    <2>. QED BY <1>5, <2>5
<1>6. s # Book!NoSeq => r = Book!Lost(copy) \/ r = Book!CaughtUp(Book!Shows(n, s), episode.buf)
  BY DEF Book!BuildRecoveryBook
<1>. QED BY <1>3, <1>4, <1>5, <1>6

Ended(e, x) == [e EXCEPT !.end = x, !.buf = <<>>]
LEMMA EndedIs ==
    ASSUME NEW e \in BookEpisodes, NEW x \in Endings
    PROVE  /\ Ended(e, x) \in BookEpisodes /\ Ended(e, x).end = x /\ Ended(e, x).buf = <<>>
           /\ Ended(e, x).sess = e.sess
<1>. DEFINE none == <<>>
            c == [e EXCEPT !.end = x]
<1>1. none \in Seq(BookFrames) OBVIOUS
<1>2. Ended(e, x) = [c EXCEPT !.buf = none] BY DEF Ended, BookEpisodes
<1>3. c \in BookEpisodes /\ c.end = x /\ c.sess = e.sess BY DEF BookEpisodes
<1>. HIDE DEF c, none
<1>4. [c EXCEPT !.buf = none] \in BookEpisodes /\ [c EXCEPT !.buf = none].end = x
      /\ [c EXCEPT !.buf = none].buf = none /\ [c EXCEPT !.buf = none].sess = e.sess
  BY <1>1, <1>3 DEF BookEpisodes
<1>. QED BY <1>2, <1>4 DEF none

LEMMA NoneBuffered ==
    \A h : AllFit(<<>>, h) /\ Upto(<<>>, h) /\ InOrder(<<>>) /\ ~SnapIn(<<>>)
BY DEF AllFit, Upto, InOrder, SnapIn

\* r is q with the frame f behind it.
LEMMA AppendedIs ==
    ASSUME NEW q \in Seq(BookFrames), NEW h \in Nat, NEW h2 \in Nat, h <= h2,
           AllFit(q, h), InOrder(q), NEW s \in Nat, s <= h, q # <<>> => s <= q[1].to,
           NEW f \in BookFrames, Fit(f, h2), h <= f.to
    PROVE  LET r == Append(q, f)
           IN  /\ r \in Seq(BookFrames) /\ AllFit(r, h2) /\ InOrder(r)
               /\ r # <<>> /\ s <= r[1].to
               /\ SnapIn(r) <=> SnapIn(q) \/ f.t = "snap"
<1>. DEFINE r == Append(q, f)
<1>0. Len(q) \in Nat /\ f.to \in Nat BY DEF BookFrames
<1>1. /\ r \in Seq(BookFrames) /\ Len(r) = Len(q) + 1 /\ r[Len(q) + 1] = f
      /\ \A i \in 1..Len(q) : r[i] = q[i]
    OBVIOUS
<1>2. \A i \in 1..Len(q) : q[i] \in BookFrames /\ q[i].to \in Nat /\ q[i].to <= h
         /\ Fit(q[i], h)
    <2>1. ASSUME NEW i \in 1..Len(q) PROVE q[i] \in BookFrames OBVIOUS
    <2>. QED BY <2>1 DEF AllFit, Fit, BookFrames
<1>. HIDE DEF r
<1>3. AllFit(r, h2)
    <2>1. ASSUME NEW i \in 1..Len(r) PROVE Fit(r[i], h2)
        <3>1. CASE i = Len(q) + 1 BY <1>1, <3>1
        <3>2. CASE i # Len(q) + 1
            <4>1. i \in 1..Len(q) /\ r[i] = q[i] BY <1>0, <1>1, <3>2
            <4>2. q[i] \in BookFrames /\ Fit(q[i], h) BY <1>2, <4>1
            <4>3. Fit(q[i], h2) BY <4>2 DEF Fit, BookFrames
            <4>. QED BY <4>1, <4>3
        <3>. QED BY <3>1, <3>2
    <2>. QED BY <2>1 DEF AllFit
<1>4. InOrder(r)
    <2>1. ASSUME NEW i \in 1..(Len(r) - 1) PROVE r[i].to <= r[i + 1].to
        <3>0. i \in 1..Len(q) BY <1>0, <1>1
        <3>1. CASE i = Len(q) BY <1>0, <1>1, <1>2, <3>0, <3>1
        <3>2. CASE i # Len(q)
            <4>1. i \in 1..(Len(q) - 1) /\ i + 1 \in 1..Len(q) BY <1>0, <3>0, <3>2
            <4>2. q[i].to <= q[i + 1].to BY <4>1 DEF InOrder
            <4>. QED BY <1>1, <3>0, <4>1, <4>2
        <3>. QED BY <3>1, <3>2
    <2>. QED BY <2>1 DEF InOrder
<1>5. r # <<>> /\ s <= r[1].to
    <2>1. CASE q = <<>>
        <3>1. Len(q) = 0 /\ Len(r) # 0 /\ Len(q) + 1 = 1 BY <1>0, <1>1, <2>1
        <3>2. r[1] = f /\ r # <<>> BY <1>1, <3>1
        <3>. QED BY <1>0, <3>2
    <2>2. CASE q # <<>> BY <1>0, <2>2, <1>1
    <2>. QED BY <2>1, <2>2
<1>6. SnapIn(r) <=> SnapIn(q) \/ f.t = "snap"
    <2>1. ASSUME SnapIn(q) PROVE SnapIn(r)
        <3>1. PICK i \in 1..Len(q) : q[i].t = "snap" BY <2>1 DEF SnapIn
        <3>2. i \in 1..Len(r) /\ r[i].t = "snap" BY <1>0, <1>1, <3>1
        <3>. QED BY <3>2 DEF SnapIn
    <2>2. ASSUME f.t = "snap" PROVE SnapIn(r) BY <1>0, <1>1, <2>2 DEF SnapIn
    <2>3. ASSUME SnapIn(r) PROVE SnapIn(q) \/ f.t = "snap"
        <3>1. PICK i \in 1..Len(r) : r[i].t = "snap" BY <2>3 DEF SnapIn
        <3>2. CASE i = Len(q) + 1 BY <1>1, <3>1, <3>2
        <3>3. CASE i # Len(q) + 1 BY <1>0, <1>1, <3>3, <3>1 DEF SnapIn
        <3>. QED BY <3>2, <3>3
    <2>. QED BY <2>1, <2>2, <2>3
<1>. QED BY <1>1, <1>3, <1>4, <1>5, <1>6 DEF r

\* r is q without the frame that was read.
LEMMA ReadIs ==
    ASSUME NEW q \in Seq(BookFrames), q # <<>>, NEW h \in Nat, AllFit(q, h), InOrder(q)
    PROVE  /\ Head(q) \in BookFrames /\ Fit(Head(q), h) /\ Head(q) = q[1]
           /\ Tail(q) \in Seq(BookFrames) /\ AllFit(Tail(q), h) /\ InOrder(Tail(q))
           /\ Tail(q) # <<>> => Head(q).to <= Tail(q)[1].to
           /\ SnapIn(Tail(q)) => SnapIn(q)
           /\ SnapIn(q) /\ Head(q).t # "snap" => SnapIn(Tail(q))
<1>. DEFINE r == Tail(q)
<1>0. Len(q) \in Nat /\ 1 \in 1..Len(q) OBVIOUS
<1>1. /\ r \in Seq(BookFrames) /\ Len(r) = Len(q) - 1 /\ Head(q) = q[1]
      /\ \A i \in 1..Len(r) : r[i] = q[i + 1]
    OBVIOUS
<1>2. Head(q) \in BookFrames /\ Fit(Head(q), h) BY <1>0, <1>1 DEF AllFit
<1>. HIDE DEF r
<1>3. AllFit(r, h) BY <1>0, <1>1 DEF AllFit
<1>4. InOrder(r)
    <2>1. ASSUME NEW i \in 1..(Len(r) - 1) PROVE r[i].to <= r[i + 1].to BY <1>0, <1>1 DEF InOrder
    <2>. QED BY <2>1 DEF InOrder
<1>5. ASSUME r # <<>> PROVE Head(q).to <= r[1].to BY <1>0, <1>1, <1>5 DEF InOrder
<1>6. ASSUME SnapIn(r) PROVE SnapIn(q)
    <2>1. PICK i \in 1..Len(r) : r[i].t = "snap" BY <1>6 DEF SnapIn
    <2>2. i + 1 \in 1..Len(q) /\ q[i + 1].t = "snap" BY <1>0, <1>1, <2>1
    <2>. QED BY <2>2 DEF SnapIn
<1>7. ASSUME SnapIn(q), Head(q).t # "snap" PROVE SnapIn(r)
    <2>1. PICK i \in 1..Len(q) : q[i].t = "snap" BY <1>7 DEF SnapIn
    <2>2. i # 1 /\ i - 1 \in 1..Len(r) /\ (i - 1) + 1 = i BY <1>0, <1>1, <1>7, <2>1
    <2>3. r[i - 1] = q[(i - 1) + 1] BY <1>1, <2>2
    <2>. QED BY <2>1, <2>2, <2>3 DEF SnapIn
<1>. QED BY <1>1, <1>2, <1>3, <1>4, <1>5, <1>6, <1>7 DEF r

LEMMA FitsMore ==
    ASSUME NEW q \in Seq(BookFrames), NEW h \in Nat, NEW h2 \in Nat, h <= h2, AllFit(q, h)
    PROVE  AllFit(q, h2)
<1>1. ASSUME NEW i \in 1..Len(q) PROVE Fit(q[i], h2)
    <2>1. q[i] \in BookFrames /\ Fit(q[i], h) BY DEF AllFit
    <2>. QED BY <2>1 DEF Fit, BookFrames
<1>. QED BY <1>1 DEF AllFit

LEMMA WholeMore ==
    ASSUME NEW b, NEW h \in Nat, NEW h2 \in Nat, h <= h2, Whole(b, h)
    PROVE  Whole(b, h2)
BY DEF Whole

LEMMA ConnectedIs ==
    ASSUME NEW b \in Copies
    PROVE  LET c == [b EXCEPT !.conn = TRUE]
           IN  /\ c \in Copies /\ c.conn /\ c.ok = b.ok /\ c.seq = b.seq
               /\ \A h : Whole(b, h) => Whole(c, h)
BY DEF Copies, Whole

LEMMA MovedIs ==
    ASSUME RecoveryTypes, Book!Moved
    PROVE  ref' \in Refreshes /\ ref'.from = ref.from /\ ref'.on = ref.on /\ ref'.moved = ref.on
BY DEF RecoveryTypes, Book!Moved, Refreshes

LEMMA SnapIs ==
    ASSUME NEW n \in Nat
    PROVE  /\ Book!Snap(n) \in BookFrames /\ Fit(Book!Snap(n), n) /\ Book!Snap(n).to = n
                /\ Book!Snap(n).t = "snap"
BY DEF Book!Snap, BookFrames, Fit

LEMMA DeltaIs ==
    ASSUME NEW m \in Nat, NEW n \in Nat, m <= n
    PROVE  /\ Book!Delta(m, n) \in BookFrames /\ Fit(Book!Delta(m, n), n)
                /\ Book!Delta(m, n).to = n
           /\ Book!Delta(m, n).t = "delta"
BY DEF Book!Delta, BookFrames, Fit

LEMMA NewEpisodeIs ==
    ASSUME RecoveryTypes
    PROVE  /\ Book!NewEpisode \in BookEpisodes /\ Book!NewEpisode.sess = turn
                /\ Book!NewEpisode.buf = <<>>
           /\ Book!NewEpisode.end = "OPEN"
<1>. DEFINE none == <<>>
<1>1. none \in Seq(BookFrames) /\ turn \in Nat BY DEF RecoveryTypes
<1>2. Book!NewEpisode = [sess |-> turn, buf |-> none, end |-> "OPEN", over |-> 0] BY DEF Book!NewEpisode
<1>. HIDE DEF none
<1>3. Book!NewEpisode \in BookEpisodes /\ Book!NewEpisode.sess = turn
         /\ Book!NewEpisode.buf = none
      /\ Book!NewEpisode.end = "OPEN"
  BY <1>1, <1>2 DEF BookEpisodes, Endings
<1>. QED BY <1>3 DEF none

LEMMA FrameIs ==
    ASSUME RecoveryTypes, RecoveryWire, NEW t \in {"delta", "snap"}, Book!Frame(t)
    PROVE  /\ stage = "read" /\ wire # <<>>
           /\ Head(wire) \in BookFrames /\ Fit(Head(wire), made) /\ Head(wire).t = t
           /\ seen' = Head(wire).to /\ seen' \in 0..made /\ seen <= seen'
           /\ wire' \in Seq(BookFrames)
           /\ SnapIn(wire') => SnapIn(wire)
           /\ t = "delta" /\ SnapIn(wire) => SnapIn(wire')
           /\ t = "snap" => SnapIn(wire)
           /\ UNCHANGED <<venue, made, faults, turn, stage>>
           /\ RecoveryWire'
<1>1. /\ wire \in Seq(BookFrames) /\ wire # <<>> /\ wire' = Tail(wire) /\ seen' = Head(wire).to
      /\ made \in Nat /\ AllFit(wire, made) /\ InOrder(wire) /\ Head(wire).t = t
            /\ stage = "read"
      /\ seen <= wire[1].to
  BY DEF RecoveryTypes, RecoveryWire, Book!Frame
<1>2. UNCHANGED <<venue, made, faults, turn, stage>> BY DEF Book!Frame
<1>3. /\ Head(wire) \in BookFrames /\ Fit(Head(wire), made) /\ Head(wire) = wire[1]
      /\ wire' \in Seq(BookFrames) /\ AllFit(wire', made) /\ InOrder(wire')
      /\ wire' # <<>> => Head(wire).to <= wire'[1].to
      /\ SnapIn(wire') => SnapIn(wire)
      /\ SnapIn(wire) /\ Head(wire).t # "snap" => SnapIn(wire')
  BY <1>1, ReadIs
<1>4. seen' \in 0..made /\ seen <= seen' BY <1>1, <1>3 DEF Fit, BookFrames
<1>5. t = "snap" => SnapIn(wire) BY <1>1, <1>3 DEF SnapIn
<1>6. RecoveryWire' BY <1>1, <1>2, <1>3, <1>4 DEF RecoveryWire
<1>. QED BY <1>1, <1>2, <1>3, <1>4, <1>5, <1>6

LEMMA UptoMore ==
    ASSUME NEW q \in Seq(BookFrames), NEW s \in Nat, NEW s2 \in Nat, s <= s2, Upto(q, s)
    PROVE  Upto(q, s2)
<1>1. ASSUME NEW i \in 1..Len(q) PROVE q[i].to <= s2
    <2>1. q[i] \in BookFrames /\ q[i].to <= s BY DEF Upto
    <2>. QED BY <2>1 DEF BookFrames
<1>. QED BY <1>1 DEF Upto

LEMMA BufferedIs ==
    ASSUME NEW q \in Seq(BookFrames), NEW h \in Nat, AllFit(q, h), NEW f \in BookFrames, Fit(f,
       h)
    PROVE  /\ Append(q, f) \in Seq(BookFrames) /\ AllFit(Append(q, f), h)
           /\ Upto(q, f.to) => Upto(Append(q, f), f.to)
<1>. DEFINE r == Append(q, f)
<1>0. Len(q) \in Nat /\ f.to \in Nat BY DEF BookFrames
<1>1. /\ r \in Seq(BookFrames) /\ Len(r) = Len(q) + 1 /\ r[Len(q) + 1] = f
      /\ \A i \in 1..Len(q) : r[i] = q[i]
    OBVIOUS
<1>. HIDE DEF r
<1>2. ASSUME NEW i \in 1..Len(r) PROVE r[i] = f \/ (i \in 1..Len(q) /\ r[i] = q[i]) BY <1>0, <1>1
<1>3. AllFit(r, h) BY <1>2 DEF AllFit
<1>4. ASSUME Upto(q, f.to) PROVE Upto(r, f.to) BY <1>0, <1>2, <1>4 DEF Upto
<1>. QED BY <1>1, <1>3, <1>4 DEF r

LEMMA BookRescueAsksStep ==
    ASSUME RecoveryInv, Book!RescueAsks
    PROVE  RecoveryInv'
<1>0. /\ RecoveryTypes /\ RecoveryWire /\ EpisodeInv /\ Whole(copy, made)
      /\ RisexInv /\ LighterInv /\ NadoInv
  BY DEF RecoveryInv
<1>1. RecoveryTypes'
  BY <1>0 DEF Book!RescueAsks, Book!venueVars, Book!bookVars, RecoveryTypes, Tasks, Refreshes, BookEpisodes,
    Endings, Book!Rescue, Book!Timer, Book!NoTask, Book!NoRefresh
<1>2. RecoveryWire' BY <1>0 DEF Book!RescueAsks, Book!venueVars, Book!bookVars, RecoveryTypes, RecoveryWire
<1>3. EpisodeInv'
  BY <1>0 DEF Book!RescueAsks, Book!venueVars, Book!bookVars, RecoveryTypes, EpisodeInv, Book!Owns, Book!Open,
    Book!Usable, Tasks, BookEpisodes, Refreshes, Book!NoTask, Book!Rescue, Book!Timer, Book!NoRefresh
<1>4. Whole(copy, made)' BY <1>0 DEF Book!RescueAsks, Book!venueVars, Book!bookVars, RecoveryTypes
<1>5. RisexInv'
  BY <1>0 DEF Book!RescueAsks, Book!venueVars, Book!bookVars, RecoveryTypes, RisexInv, Book!Owns, Book!Open,
    Book!Usable, Tasks, BookEpisodes, Refreshes, Book!NoTask, Book!Rescue, Book!Timer, Book!NoRefresh
<1>6. LighterInv'
  BY <1>0 DEF Book!RescueAsks, Book!venueVars, Book!bookVars, RecoveryTypes, LighterInv, Book!Owns, Book!Open,
    Book!Usable, Tasks, BookEpisodes, Refreshes, Book!NoTask, Book!Rescue, Book!Timer, Book!NoRefresh
<1>7. NadoInv'
  BY <1>0 DEF Book!RescueAsks, Book!venueVars, Book!bookVars, RecoveryTypes, NadoInv, Book!Owns, Book!Open,
    Book!Usable, Tasks, BookEpisodes, Refreshes, Book!NoTask, Book!Rescue, Book!Timer, Book!NoRefresh
<1>. QED BY <1>1, <1>2, <1>3, <1>4, <1>5, <1>6, <1>7 DEF RecoveryInv

LEMMA BookRescueDisplacedStep ==
    ASSUME RecoveryInv, Book!RescueDisplaced
    PROVE  RecoveryInv'
<1>0. /\ RecoveryTypes /\ RecoveryWire /\ EpisodeInv /\ Whole(copy, made)
      /\ RisexInv /\ LighterInv /\ NadoInv
  BY DEF RecoveryInv
<1>1. RecoveryTypes'
  BY <1>0 DEF Book!RescueDisplaced, Book!venueVars, Book!bookVars, RecoveryTypes, Tasks, Refreshes,
    BookEpisodes, Endings, Book!Rescue, Book!Timer, Book!NoTask, Book!NoRefresh
<1>2. RecoveryWire' BY <1>0 DEF Book!RescueDisplaced, Book!venueVars, Book!bookVars, RecoveryTypes, RecoveryWire
<1>3. EpisodeInv'
  BY <1>0 DEF Book!RescueDisplaced, Book!venueVars, Book!bookVars, RecoveryTypes, EpisodeInv, Book!Owns,
    Book!Open, Book!Usable, Tasks, BookEpisodes, Refreshes, Book!NoTask, Book!Rescue, Book!Timer,
    Book!NoRefresh
<1>4. Whole(copy, made)' BY <1>0 DEF Book!RescueDisplaced, Book!venueVars, Book!bookVars, RecoveryTypes
<1>5. RisexInv'
  BY <1>0 DEF Book!RescueDisplaced, Book!venueVars, Book!bookVars, RecoveryTypes, RisexInv, Book!Owns,
    Book!Open, Book!Usable, Tasks, BookEpisodes, Refreshes, Book!NoTask, Book!Rescue, Book!Timer,
    Book!NoRefresh
<1>6. LighterInv'
  BY <1>0 DEF Book!RescueDisplaced, Book!venueVars, Book!bookVars, RecoveryTypes, LighterInv, Book!Owns,
    Book!Open, Book!Usable, Tasks, BookEpisodes, Refreshes, Book!NoTask, Book!Rescue, Book!Timer,
    Book!NoRefresh
<1>7. NadoInv'
  BY <1>0 DEF Book!RescueDisplaced, Book!venueVars, Book!bookVars, RecoveryTypes, NadoInv, Book!Owns,
    Book!Open, Book!Usable, Tasks, BookEpisodes, Refreshes, Book!NoTask, Book!Rescue, Book!Timer,
    Book!NoRefresh
<1>. QED BY <1>1, <1>2, <1>3, <1>4, <1>5, <1>6, <1>7 DEF RecoveryInv

LEMMA BookRescueWakesStep ==
    ASSUME RecoveryInv, Book!RescueWakes
    PROVE  RecoveryInv'
<1>0. /\ RecoveryTypes /\ RecoveryWire /\ EpisodeInv /\ Whole(copy, made)
      /\ RisexInv /\ LighterInv /\ NadoInv
  BY DEF RecoveryInv
<1>1. RecoveryTypes'
  BY <1>0 DEF Book!RescueWakes, RecoveryTypes, Tasks, Book!Rescue, Book!venueVars, Book!bookVars
<1>2. RecoveryWire' BY <1>0 DEF Book!RescueWakes, Book!venueVars, Book!bookVars, RecoveryTypes, RecoveryWire
<1>3. EpisodeInv'
  BY <1>0 DEF Book!RescueWakes, Book!venueVars, Book!bookVars, RecoveryTypes, EpisodeInv, Book!Owns,
    Book!Open, Book!Usable, Tasks, BookEpisodes, Refreshes, Book!NoTask, Book!Rescue, Book!Timer,
    Book!NoRefresh
<1>4. Whole(copy, made)' BY <1>0 DEF Book!RescueWakes, Book!venueVars, Book!bookVars, RecoveryTypes
<1>5. RisexInv'
  BY <1>0 DEF Book!RescueWakes, Book!venueVars, Book!bookVars, RecoveryTypes, RisexInv, Book!Owns, Book!Open,
    Book!Usable, Tasks, BookEpisodes, Refreshes, Book!NoTask, Book!Rescue, Book!Timer, Book!NoRefresh
<1>6. LighterInv'
  BY <1>0 DEF Book!RescueWakes, Book!venueVars, Book!bookVars, RecoveryTypes, LighterInv, Book!Owns,
    Book!Open, Book!Usable, Tasks, BookEpisodes, Refreshes, Book!NoTask, Book!Rescue, Book!Timer,
    Book!NoRefresh
<1>7. NadoInv'
  BY <1>0 DEF Book!RescueWakes, Book!venueVars, Book!bookVars, RecoveryTypes, NadoInv, Book!Owns, Book!Open,
    Book!Usable, Tasks, BookEpisodes, Refreshes, Book!NoTask, Book!Rescue, Book!Timer, Book!NoRefresh
<1>. QED BY <1>1, <1>2, <1>3, <1>4, <1>5, <1>6, <1>7 DEF RecoveryInv

LEMMA BookTimerFiresStep ==
    ASSUME RecoveryInv, Book!TimerFires
    PROVE  RecoveryInv'
<1>0. /\ RecoveryTypes /\ RecoveryWire /\ EpisodeInv /\ Whole(copy, made)
      /\ RisexInv /\ LighterInv /\ NadoInv
  BY DEF RecoveryInv
<1>z. copy \in Copies BY <1>0 DEF RecoveryTypes
<1>a. /\ Book!Lost(copy) \in Copies /\ ~Book!Lost(copy).ok /\ Whole(Book!Lost(copy), made) BY <1>z, LostIs
<1>b. /\ episode' \in BookEpisodes /\ episode'.sess = episode.sess
      /\ \/ episode' = episode /\ copy' = copy /\ ~Book!Owns
         \/ episode'.end = "FAILED" /\ episode'.buf = <<>> /\ copy' = Book!Lost(copy)
               /\ Book!Owns
  BY <1>0, EndedIs DEF Book!TimerFires, RecoveryTypes, Ended, Endings
<1>c. AllFit(<<>>, made) BY NoneBuffered
<1>1. RecoveryTypes'
  BY <1>0, <1>a, <1>b, <1>c DEF Book!TimerFires, Book!venueVars, Book!bookVars, RecoveryTypes, Tasks,
    Refreshes, BookEpisodes, Endings, Book!Rescue, Book!Timer, Book!NoTask, Book!NoRefresh
<1>2. RecoveryWire'
  BY <1>0, <1>a, <1>b, <1>c DEF Book!TimerFires, Book!venueVars, Book!bookVars, RecoveryTypes, RecoveryWire
<1>3. EpisodeInv'
  BY <1>0, <1>a, <1>b, <1>c DEF Book!TimerFires, Book!venueVars, Book!bookVars, RecoveryTypes, EpisodeInv,
    Book!Owns, Book!Open, Book!Usable, Tasks, BookEpisodes, Refreshes, Book!NoTask, Book!Rescue, Book!Timer,
    Book!NoRefresh
<1>4. Whole(copy, made)' BY <1>0, <1>a, <1>b, <1>c DEF Book!TimerFires, Book!venueVars, Book!bookVars, RecoveryTypes
<1>5. RisexInv'
  BY <1>0, <1>a, <1>b, <1>c DEF Book!TimerFires, Book!venueVars, Book!bookVars, RecoveryTypes, RisexInv,
    Book!Owns, Book!Open, Book!Usable, Tasks, BookEpisodes, Refreshes, Book!NoTask, Book!Rescue, Book!Timer,
    Book!NoRefresh
<1>6. LighterInv'
  BY <1>0, <1>a, <1>b, <1>c DEF Book!TimerFires, Book!venueVars, Book!bookVars, RecoveryTypes, LighterInv,
    Book!Owns, Book!Open, Book!Usable, Tasks, BookEpisodes, Refreshes, Book!NoTask, Book!Rescue, Book!Timer,
    Book!NoRefresh
<1>7. NadoInv'
  BY <1>0, <1>a, <1>b, <1>c DEF Book!TimerFires, Book!venueVars, Book!bookVars, RecoveryTypes, NadoInv,
    Book!Owns, Book!Open, Book!Usable, Tasks, BookEpisodes, Refreshes, Book!NoTask, Book!Rescue, Book!Timer,
    Book!NoRefresh
<1>. QED BY <1>1, <1>2, <1>3, <1>4, <1>5, <1>6, <1>7 DEF RecoveryInv

LEMMA BookJoinedStep ==
    ASSUME RecoveryInv, Book!Joined
    PROVE  RecoveryInv'
<1>0. /\ RecoveryTypes /\ RecoveryWire /\ EpisodeInv /\ Whole(copy, made)
      /\ RisexInv /\ LighterInv /\ NadoInv
  BY DEF RecoveryInv
<1>1. RecoveryTypes'
  BY <1>0 DEF Book!Joined, Book!venueVars, Book!bookVars, RecoveryTypes, Tasks, Refreshes, BookEpisodes,
    Endings, Book!Rescue, Book!Timer, Book!NoTask, Book!NoRefresh
<1>2. RecoveryWire' BY <1>0 DEF Book!Joined, Book!venueVars, Book!bookVars, RecoveryTypes, RecoveryWire
<1>3. EpisodeInv'
  BY <1>0 DEF Book!Joined, Book!venueVars, Book!bookVars, RecoveryTypes, EpisodeInv, Book!Owns, Book!Open,
    Book!Usable, Tasks, BookEpisodes, Refreshes, Book!NoTask, Book!Rescue, Book!Timer, Book!NoRefresh
<1>4. Whole(copy, made)' BY <1>0 DEF Book!Joined, Book!venueVars, Book!bookVars, RecoveryTypes
<1>5. RisexInv'
  BY <1>0 DEF Book!Joined, Book!venueVars, Book!bookVars, RecoveryTypes, RisexInv, Book!Owns, Book!Open,
    Book!Usable, Tasks, BookEpisodes, Refreshes, Book!NoTask, Book!Rescue, Book!Timer, Book!NoRefresh
<1>6. LighterInv'
  BY <1>0 DEF Book!Joined, Book!venueVars, Book!bookVars, RecoveryTypes, LighterInv, Book!Owns, Book!Open,
    Book!Usable, Tasks, BookEpisodes, Refreshes, Book!NoTask, Book!Rescue, Book!Timer, Book!NoRefresh
<1>7. NadoInv'
  BY <1>0 DEF Book!Joined, Book!venueVars, Book!bookVars, RecoveryTypes, NadoInv, Book!Owns, Book!Open,
    Book!Usable, Tasks, BookEpisodes, Refreshes, Book!NoTask, Book!Rescue, Book!Timer, Book!NoRefresh
<1>. QED BY <1>1, <1>2, <1>3, <1>4, <1>5, <1>6, <1>7 DEF RecoveryInv

LEMMA BookRefreshAsksStep ==
    ASSUME RecoveryInv, Book!RefreshAsks
    PROVE  RecoveryInv'
<1>0. /\ RecoveryTypes /\ RecoveryWire /\ EpisodeInv /\ Whole(copy, made)
      /\ RisexInv /\ LighterInv /\ NadoInv
  BY DEF RecoveryInv
<1>1. RecoveryTypes'
  BY <1>0 DEF Book!RefreshAsks, Book!venueVars, Book!bookVars, Book!Kept, Book!OwnedRisexBook, RecoveryTypes,
    Tasks, Refreshes, BookEpisodes, Endings, Book!Rescue, Book!Timer, Book!NoTask, Book!NoRefresh
<1>2. RecoveryWire'
  BY <1>0 DEF Book!RefreshAsks, Book!venueVars, Book!bookVars, Book!Kept, Book!OwnedRisexBook, RecoveryTypes,
    RecoveryWire
<1>3. EpisodeInv'
  BY <1>0 DEF Book!RefreshAsks, Book!venueVars, Book!bookVars, Book!Kept, Book!OwnedRisexBook, RecoveryTypes,
    EpisodeInv, Book!Owns, Book!Open, Book!Usable, Tasks, BookEpisodes, Refreshes, Book!NoTask, Book!Rescue,
    Book!Timer, Book!NoRefresh
<1>4. Whole(copy, made)'
  BY <1>0 DEF Book!RefreshAsks, Book!venueVars, Book!bookVars, Book!Kept, Book!OwnedRisexBook, RecoveryTypes
<1>5. RisexInv'
  BY <1>0 DEF Book!RefreshAsks, Book!venueVars, Book!bookVars, Book!Kept, Book!OwnedRisexBook, RecoveryTypes,
    RisexInv, Book!Owns, Book!Open, Book!Usable, Tasks, BookEpisodes, Refreshes, Book!NoTask, Book!Rescue,
    Book!Timer, Book!NoRefresh
<1>6. LighterInv'
  BY <1>0 DEF Book!RefreshAsks, Book!venueVars, Book!bookVars, Book!Kept, Book!OwnedRisexBook, RecoveryTypes,
    LighterInv, Book!Owns, Book!Open, Book!Usable, Tasks, BookEpisodes, Refreshes, Book!NoTask, Book!Rescue,
    Book!Timer, Book!NoRefresh
<1>7. NadoInv'
  BY <1>0 DEF Book!RefreshAsks, Book!venueVars, Book!bookVars, Book!Kept, Book!OwnedRisexBook, RecoveryTypes,
    NadoInv, Book!Owns, Book!Open, Book!Usable, Tasks, BookEpisodes, Refreshes, Book!NoTask, Book!Rescue,
    Book!Timer, Book!NoRefresh
<1>. QED BY <1>1, <1>2, <1>3, <1>4, <1>5, <1>6, <1>7 DEF RecoveryInv

LEMMA BookRefreshAnsweredStep ==
    ASSUME RecoveryInv, Book!RefreshAnswered
    PROVE  RecoveryInv'
<1>0. /\ RecoveryTypes /\ RecoveryWire /\ EpisodeInv /\ Whole(copy, made)
      /\ RisexInv /\ LighterInv /\ NadoInv
  BY DEF RecoveryInv
<1>a. /\ copy' \in Copies /\ Whole(copy', made)
      /\ copy' = copy \/ (/\ ~Book!Overtaken /\ copy'.ok /\ copy'.conn
                          /\ venue # "NADO" => copy'.seq = Book!NoSeq
                          /\ venue = "NADO" => copy'.seq # Book!NoSeq)
    <2>1. CASE copy' = copy BY <1>0, <2>1 DEF RecoveryTypes
    <2>2. CASE ~Book!Overtaken
             /\ \E n \in Book!Answers(ref.from) : copy' = Book!Shows(n, Book!RestSequence(n))
        <3>1. PICK n \in Book!Answers(ref.from) : copy' = Book!Shows(n, Book!RestSequence(n)) BY <2>2
        <3>2. n \in 0..made /\ made \in Nat BY <1>0 DEF Book!Answers, RecoveryTypes, EpisodeInv, Refreshes
        <3>3. Book!RestSequence(n) \in {Book!NoSeq, n} /\ (venue # "NADO"
                 => Book!RestSequence(n) = Book!NoSeq)
              /\ (venue = "NADO" => Book!RestSequence(n) # Book!NoSeq)
          BY <3>2 DEF Book!RestSequence, Book!NoSeq
        <3>. QED BY <2>2, <3>1, <3>2, <3>3, ShowsIs
    <2>. QED BY <2>1, <2>2 DEF Book!RefreshAnswered
<1>1. RecoveryTypes'
  BY <1>0, <1>a DEF Book!RefreshAnswered, Book!venueVars, Book!bookVars, Book!Overtaken, RecoveryTypes, Tasks,
    Refreshes, BookEpisodes, Endings, Book!Rescue, Book!Timer, Book!NoTask, Book!NoRefresh
<1>2. RecoveryWire'
  BY <1>0, <1>a DEF Book!RefreshAnswered, Book!venueVars, Book!bookVars, Book!Overtaken, RecoveryTypes,
    RecoveryWire
<1>3. EpisodeInv'
  BY <1>0, <1>a DEF Book!RefreshAnswered, Book!venueVars, Book!bookVars, Book!Overtaken, RecoveryTypes,
    EpisodeInv, Book!Owns, Book!Open, Book!Usable, Tasks, BookEpisodes, Refreshes, Book!NoTask, Book!Rescue,
    Book!Timer, Book!NoRefresh
<1>4. Whole(copy, made)'
  BY <1>0, <1>a DEF Book!RefreshAnswered, Book!venueVars, Book!bookVars, Book!Overtaken, RecoveryTypes
<1>5. RisexInv'
  BY <1>0, <1>a DEF Book!RefreshAnswered, Book!venueVars, Book!bookVars, Book!Overtaken, RecoveryTypes,
    RisexInv, Book!Owns, Book!Open, Book!Usable, Tasks, BookEpisodes, Refreshes, Book!NoTask, Book!Rescue,
    Book!Timer, Book!NoRefresh
<1>6. LighterInv'
  BY <1>0, <1>a DEF Book!RefreshAnswered, Book!venueVars, Book!bookVars, Book!Overtaken, RecoveryTypes,
    LighterInv, Book!Owns, Book!Open, Book!Usable, Tasks, BookEpisodes, Refreshes, Book!NoTask, Book!Rescue,
    Book!Timer, Book!NoRefresh
<1>7. NadoInv'
  BY <1>0, <1>a DEF Book!RefreshAnswered, Book!venueVars, Book!bookVars, Book!Overtaken, RecoveryTypes,
    NadoInv, Book!Owns, Book!Open, Book!Usable, Tasks, BookEpisodes, Refreshes, Book!NoTask, Book!Rescue,
    Book!Timer, Book!NoRefresh
<1>. QED BY <1>1, <1>2, <1>3, <1>4, <1>5, <1>6, <1>7 DEF RecoveryInv

LEMMA BookSubscribedStep ==
    ASSUME RecoveryInv, Book!Subscribed
    PROVE  RecoveryInv'
<1>0. /\ RecoveryTypes /\ RecoveryWire /\ EpisodeInv /\ Whole(copy, made)
      /\ RisexInv /\ LighterInv /\ NadoInv
  BY DEF RecoveryInv
<1>a. made \in Nat /\ wire \in Seq(BookFrames) /\ asked \in Nat BY <1>0 DEF RecoveryTypes
<1>b. /\ wire' \in Seq(BookFrames) /\ AllFit(wire', made) /\ InOrder(wire')
      /\ wire' # <<>> /\ seen <= wire'[1].to /\ SnapIn(wire')
  BY <1>0, <1>a, SnapIs, AppendedIs DEF Book!Subscribed, RecoveryWire, RecoveryTypes
<1>1. RecoveryTypes'
  BY <1>0, <1>b DEF Book!Subscribed, Book!venueVars, Book!bookVars, RecoveryTypes, Tasks, Refreshes,
    BookEpisodes, Endings, Book!Rescue, Book!Timer, Book!NoTask, Book!NoRefresh
<1>2. RecoveryWire' BY <1>0, <1>b DEF Book!Subscribed, Book!venueVars, Book!bookVars, RecoveryTypes, RecoveryWire
<1>3. EpisodeInv'
  BY <1>0, <1>b DEF Book!Subscribed, Book!venueVars, Book!bookVars, RecoveryTypes, EpisodeInv, Book!Owns,
    Book!Open, Book!Usable, Tasks, BookEpisodes, Refreshes, Book!NoTask, Book!Rescue, Book!Timer,
    Book!NoRefresh
<1>4. Whole(copy, made)' BY <1>0, <1>b DEF Book!Subscribed, Book!venueVars, Book!bookVars, RecoveryTypes
<1>5. RisexInv'
  BY <1>0, <1>b DEF Book!Subscribed, Book!venueVars, Book!bookVars, RecoveryTypes, RisexInv, Book!Owns,
    Book!Open, Book!Usable, Tasks, BookEpisodes, Refreshes, Book!NoTask, Book!Rescue, Book!Timer,
    Book!NoRefresh, Comes
<1>6. LighterInv'
  BY <1>0, <1>b DEF Book!Subscribed, Book!venueVars, Book!bookVars, RecoveryTypes, LighterInv, Book!Owns,
    Book!Open, Book!Usable, Tasks, BookEpisodes, Refreshes, Book!NoTask, Book!Rescue, Book!Timer,
    Book!NoRefresh, Comes
<1>7. NadoInv'
  BY <1>0, <1>b DEF Book!Subscribed, Book!venueVars, Book!bookVars, RecoveryTypes, NadoInv, Book!Owns,
    Book!Open, Book!Usable, Tasks, BookEpisodes, Refreshes, Book!NoTask, Book!Rescue, Book!Timer,
    Book!NoRefresh
<1>. QED BY <1>1, <1>2, <1>3, <1>4, <1>5, <1>6, <1>7 DEF RecoveryInv

LEMMA BookChangeStep ==
    ASSUME RecoveryInv, Book!Change
    PROVE  RecoveryInv'
<1>0. /\ RecoveryTypes /\ RecoveryWire /\ EpisodeInv /\ Whole(copy, made)
      /\ RisexInv /\ LighterInv /\ NadoInv
  BY DEF RecoveryInv
<1>a. made \in Nat /\ wire \in Seq(BookFrames) /\ seen \in Nat /\ seen <= made
  BY <1>0 DEF RecoveryTypes, RecoveryWire
<1>b. \E n \in 1..2, went \in {"once", "twice", "lost"} :
         /\ made' = made + n
         /\ wire' = IF ~on \/ went = "lost" THEN wire
                    ELSE IF went = "once" THEN Append(wire, Book!Delta(made, made'))
                    ELSE wire \o <<Book!Delta(made, made'), Book!Delta(made, made')>>
    <2>1. PICK n \in 1..(IF venue = "NADO" THEN 2 ELSE 1), went \in {"once", "twice", "lost"} :
             /\ made' = made + n
             /\ wire' = IF ~on \/ went = "lost" THEN wire
                        ELSE IF went = "once" THEN Append(wire, Book!Delta(made, made + n))
                        ELSE wire \o <<Book!Delta(made, made + n), Book!Delta(made, made + n)>>
      BY Zenon DEF Book!Change
    <2>2. n \in 1..2 OBVIOUS
    <2>. QED BY <2>1, <2>2, Zenon
<1>c. made' \in Nat /\ made <= made' BY <1>a, <1>b
<1>. DEFINE f == Book!Delta(made, made')
            w == Append(wire, f)
<1>d. f \in BookFrames /\ Fit(f, made') /\ f.to = made' /\ f.t = "delta" /\ made <= f.to BY <1>a, <1>c, DeltaIs
<1>. HIDE DEF f
<1>e. AllFit(wire, made') /\ Whole(copy, made') /\ AllFit(episode.buf, made')
  BY <1>0, <1>a, <1>c, FitsMore, WholeMore DEF RecoveryWire, EpisodeInv, RecoveryTypes, BookEpisodes
<1>f. /\ w \in Seq(BookFrames) /\ AllFit(w, made') /\ InOrder(w) /\ w # <<>> /\ seen <= w[1].to
      /\ SnapIn(w) <=> SnapIn(wire)
  BY <1>0, <1>a, <1>c, <1>d, AppendedIs DEF RecoveryWire
<1>g. /\ Append(w, f) \in Seq(BookFrames) /\ AllFit(Append(w, f), made')
            /\ InOrder(Append(w, f))
      /\ Append(w, f) # <<>> /\ seen <= Append(w, f)[1].to
      /\ SnapIn(Append(w, f)) <=> SnapIn(w)
    <2>. HIDE DEF w
    <2>1. seen <= made' /\ made' <= made' /\ made' <= f.to BY <1>a, <1>c, <1>d
    <2>2. w \in Seq(BookFrames) /\ AllFit(w, made') /\ InOrder(w) /\ (w # <<>>
             => seen <= w[1].to)
      BY <1>f
    <2>. QED BY <1>a, <1>c, <1>d, <2>1, <2>2, AppendedIs
<1>h. wire \o <<f, f>> = Append(w, f) BY <1>a, <1>d
<1>i. wire' \in {wire, w, Append(w, f)} BY <1>b, <1>c, <1>h DEF f
<1>j. /\ wire' \in Seq(BookFrames) /\ AllFit(wire', made') /\ InOrder(wire')
      /\ wire' # <<>> => seen <= wire'[1].to
      /\ SnapIn(wire') <=> SnapIn(wire)
    <2>. HIDE DEF w
    <2>1. CASE wire' = wire BY <1>0, <1>a, <1>e, <2>1 DEF RecoveryWire
    <2>2. CASE wire' = w BY <1>f, <2>2
    <2>3. CASE wire' = Append(w, f) BY <1>f, <1>g, <2>3
    <2>. QED BY <1>i, <2>1, <2>2, <2>3
<1>. HIDE DEF w
<1>1. RecoveryTypes'
  BY <1>0, <1>a, <1>c, <1>e, <1>j DEF Book!Change, Book!venueVars, Book!bookVars, RecoveryTypes, Tasks,
    Refreshes, BookEpisodes, Endings, Book!Rescue, Book!Timer, Book!NoTask, Book!NoRefresh
<1>2. RecoveryWire'
  BY <1>0, <1>a, <1>c, <1>e, <1>j DEF Book!Change, Book!venueVars, Book!bookVars, RecoveryTypes, RecoveryWire
<1>3. EpisodeInv'
  BY <1>0, <1>a, <1>c, <1>e, <1>j DEF Book!Change, Book!venueVars, Book!bookVars, RecoveryTypes, EpisodeInv,
    Book!Owns, Book!Open, Book!Usable, Tasks, BookEpisodes, Refreshes, Book!NoTask, Book!Rescue, Book!Timer,
    Book!NoRefresh
<1>4. Whole(copy, made)'
  BY <1>0, <1>a, <1>c, <1>e, <1>j DEF Book!Change, Book!venueVars, Book!bookVars, RecoveryTypes
<1>5. RisexInv'
  BY <1>0, <1>a, <1>c, <1>e, <1>j DEF Book!Change, Book!venueVars, Book!bookVars, RecoveryTypes, RisexInv,
    Book!Owns, Book!Open, Book!Usable, Tasks, BookEpisodes, Refreshes, Book!NoTask, Book!Rescue, Book!Timer,
    Book!NoRefresh, Comes
<1>6. LighterInv'
  BY <1>0, <1>a, <1>c, <1>e, <1>j DEF Book!Change, Book!venueVars, Book!bookVars, RecoveryTypes, LighterInv,
    Book!Owns, Book!Open, Book!Usable, Tasks, BookEpisodes, Refreshes, Book!NoTask, Book!Rescue, Book!Timer,
    Book!NoRefresh, Comes
<1>7. NadoInv'
  BY <1>0, <1>a, <1>c, <1>e, <1>j DEF Book!Change, Book!venueVars, Book!bookVars, RecoveryTypes, NadoInv,
    Book!Owns, Book!Open, Book!Usable, Tasks, BookEpisodes, Refreshes, Book!NoTask, Book!Rescue, Book!Timer,
    Book!NoRefresh
<1>. QED BY <1>1, <1>2, <1>3, <1>4, <1>5, <1>6, <1>7 DEF RecoveryInv

LEMMA BookDropStep ==
    ASSUME RecoveryInv, Book!Drop
    PROVE  RecoveryInv'
<1>0. /\ RecoveryTypes /\ RecoveryWire /\ EpisodeInv /\ Whole(copy, made)
      /\ RisexInv /\ LighterInv /\ NadoInv
  BY DEF RecoveryInv
<1>a. Book!Cut(copy) \in Copies /\ ~Book!Cut(copy).ok /\ Whole(Book!Cut(copy), made)
         /\ <<>> \in Seq(BookFrames)
  BY <1>0, LostIs DEF RecoveryTypes
<1>b. ref' \in Refreshes /\ ref'.from = ref.from /\ ref'.on = ref.on /\ ref'.moved = ref.on
  BY <1>0, MovedIs DEF Book!Drop, Book!MarkDisconnected
<1>1. RecoveryTypes'
  BY <1>0, <1>a, <1>b, NoneBuffered DEF Book!Drop, Book!venueVars, Book!bookVars, Book!MarkDisconnected,
    RecoveryTypes, Tasks, Refreshes, BookEpisodes, Endings, Book!Rescue, Book!Timer, Book!NoTask,
    Book!NoRefresh
<1>2. RecoveryWire'
  BY <1>0, <1>a, <1>b, NoneBuffered DEF Book!Drop, Book!venueVars, Book!bookVars, Book!MarkDisconnected,
    RecoveryTypes, RecoveryWire
<1>3. EpisodeInv'
  BY <1>0, <1>a, <1>b, NoneBuffered DEF Book!Drop, Book!venueVars, Book!bookVars, Book!MarkDisconnected,
    RecoveryTypes, EpisodeInv, Book!Owns, Book!Open, Book!Usable, Tasks, BookEpisodes, Refreshes, Book!NoTask,
    Book!Rescue, Book!Timer, Book!NoRefresh
<1>4. Whole(copy, made)'
  BY <1>0, <1>a, <1>b, NoneBuffered DEF Book!Drop, Book!venueVars, Book!bookVars, Book!MarkDisconnected,
    RecoveryTypes
<1>5. RisexInv'
  BY <1>0, <1>a, <1>b, NoneBuffered DEF Book!Drop, Book!venueVars, Book!bookVars, Book!MarkDisconnected,
    RecoveryTypes, RisexInv, Book!Owns, Book!Open, Book!Usable, Tasks, BookEpisodes, Refreshes, Book!NoTask,
    Book!Rescue, Book!Timer, Book!NoRefresh
<1>6. LighterInv'
  BY <1>0, <1>a, <1>b, NoneBuffered DEF Book!Drop, Book!venueVars, Book!bookVars, Book!MarkDisconnected,
    RecoveryTypes, LighterInv, Book!Owns, Book!Open, Book!Usable, Tasks, BookEpisodes, Refreshes, Book!NoTask,
    Book!Rescue, Book!Timer, Book!NoRefresh
<1>7. NadoInv'
  BY <1>0, <1>a, <1>b, NoneBuffered DEF Book!Drop, Book!venueVars, Book!bookVars, Book!MarkDisconnected,
    RecoveryTypes, NadoInv, Book!Owns, Book!Open, Book!Usable, Tasks, BookEpisodes, Refreshes, Book!NoTask,
    Book!Rescue, Book!Timer, Book!NoRefresh
<1>. QED BY <1>1, <1>2, <1>3, <1>4, <1>5, <1>6, <1>7 DEF RecoveryInv

LEMMA BookWakeStep ==
    ASSUME RecoveryInv, Book!Wake
    PROVE  RecoveryInv'
<1>0. /\ RecoveryTypes /\ RecoveryWire /\ EpisodeInv /\ Whole(copy, made)
      /\ RisexInv /\ LighterInv /\ NadoInv
  BY DEF RecoveryInv
<1>b. ref' \in Refreshes /\ ref'.from = ref.from /\ ref'.on = ref.on /\ ref'.moved = ref.on
  BY <1>0, MovedIs DEF Book!Wake
<1>c. wire # <<>> => wire[1] \in BookFrames /\ 0 <= wire[1].to
    <2>1. ASSUME wire # <<>> PROVE 1 \in 1..Len(wire) /\ wire[1] \in BookFrames BY <1>0, <2>1 DEF RecoveryTypes
    <2>. QED BY <2>1 DEF BookFrames
<1>1. RecoveryTypes'
  BY <1>0, <1>b, <1>c DEF Book!Wake, Book!venueVars, Book!bookVars, RecoveryTypes, Tasks, Refreshes,
    BookEpisodes, Endings, Book!Rescue, Book!Timer, Book!NoTask, Book!NoRefresh
<1>2. RecoveryWire' BY <1>0, <1>b, <1>c DEF Book!Wake, Book!venueVars, Book!bookVars, RecoveryTypes, RecoveryWire
<1>3. EpisodeInv'
  BY <1>0, <1>b, <1>c DEF Book!Wake, Book!venueVars, Book!bookVars, RecoveryTypes, EpisodeInv, Book!Owns,
    Book!Open, Book!Usable, Tasks, BookEpisodes, Refreshes, Book!NoTask, Book!Rescue, Book!Timer,
    Book!NoRefresh
<1>4. Whole(copy, made)' BY <1>0, <1>b, <1>c DEF Book!Wake, Book!venueVars, Book!bookVars, RecoveryTypes
<1>5. RisexInv'
  BY <1>0, <1>b, <1>c DEF Book!Wake, Book!venueVars, Book!bookVars, RecoveryTypes, RisexInv, Book!Owns,
    Book!Open, Book!Usable, Tasks, BookEpisodes, Refreshes, Book!NoTask, Book!Rescue, Book!Timer,
    Book!NoRefresh
<1>6. LighterInv'
  BY <1>0, <1>b, <1>c DEF Book!Wake, Book!venueVars, Book!bookVars, RecoveryTypes, LighterInv, Book!Owns,
    Book!Open, Book!Usable, Tasks, BookEpisodes, Refreshes, Book!NoTask, Book!Rescue, Book!Timer,
    Book!NoRefresh
<1>7. NadoInv'
  BY <1>0, <1>b, <1>c DEF Book!Wake, Book!venueVars, Book!bookVars, RecoveryTypes, NadoInv, Book!Owns,
    Book!Open, Book!Usable, Tasks, BookEpisodes, Refreshes, Book!NoTask, Book!Rescue, Book!Timer,
    Book!NoRefresh
<1>. QED BY <1>1, <1>2, <1>3, <1>4, <1>5, <1>6, <1>7 DEF RecoveryInv

LEMMA BookConnectStep ==
    ASSUME RecoveryInv, Book!Connect
    PROVE  RecoveryInv'
<1>0. /\ RecoveryTypes /\ RecoveryWire /\ EpisodeInv /\ Whole(copy, made)
      /\ RisexInv /\ LighterInv /\ NadoInv
  BY DEF RecoveryInv
<1>a. copy' \in Copies /\ Whole(copy', made) /\ copy'.conn /\ (copy'.ok => venue # "LIGHTER"
         /\ copy.ok)
      /\ copy'.seq \in {copy.seq, Book!NoSeq} /\ (venue # "LIGHTER" => copy'.seq = copy.seq)
    <2>. DEFINE c == [copy EXCEPT !.conn = TRUE]
    <2>1. c \in Copies /\ Whole(c, made) /\ c.conn /\ c.ok = copy.ok /\ c.seq = copy.seq
      BY <1>0, ConnectedIs DEF RecoveryTypes
    <2>2. copy' = IF venue = "LIGHTER" THEN Book!Lost(c) ELSE c BY DEF Book!Connect
    <2>. HIDE DEF c
    <2>3. Book!Lost(c) \in Copies /\ ~Book!Lost(c).ok /\ Whole(Book!Lost(c), made)
             /\ Book!Lost(c).conn /\ Book!Lost(c).seq = Book!NoSeq
      BY <2>1, LostIs DEF Book!Lost, Copies
    <2>. QED BY <2>1, <2>2, <2>3
<1>b. /\ Book!NewEpisode \in BookEpisodes /\ Book!NewEpisode.sess = turn
            /\ Book!NewEpisode.buf = <<>>
      /\ Book!NewEpisode.end = "OPEN"
  BY <1>0, NewEpisodeIs
<1>c. venue \in AllKinds /\ ~Book!Owns BY <1>0 DEF RecoveryTypes, EpisodeInv, Book!Connect
<1>d. venue = "RISEX" => /\ asked' > 0 /\ venue' = venue /\ stage' \in {"read", "fetch"} /\ keeper' = 0
                         /\ task' = Book!NoTask /\ episode'.end # "FAILED"
  BY <1>0, <1>b DEF Book!Connect, Book!ReplaceDisplaced, Book!Displaced, RisexInv, Book!Owns, Book!Open,
    RecoveryTypes, BookEpisodes, Endings
<1>f. venue' = venue BY DEF Book!Connect
<1>e. venue = "NADO" => /\ asked' = 0 /\ venue' = venue /\ wire' = wire /\ copy'.seq = copy.seq
                        /\ \/ stage' = "join" /\ episode'.end = "OPEN"
                                 /\ episode'.sess = turn' /\ task'.t = "try"
                           \/ stage' = "fetch" /\ episode'.end \in {"NONE", "COMPLETE"}
                                 /\ task' = task
    <2>1. ASSUME venue = "NADO", Book!Displaced PROVE stage' = "join"
             /\ episode' = Book!NewEpisode /\ task' = Book!Rescue
      BY <1>c, <2>1 DEF Book!Connect, Book!ReplaceDisplaced
    <2>2. ASSUME venue = "NADO", ~Book!Displaced PROVE stage' = "fetch"
             /\ episode' = episode /\ task' = task
      BY <1>c, <2>2 DEF Book!Connect, Book!ReplaceDisplaced
    <2>3. ~Book!Displaced => episode.end \in {"NONE", "COMPLETE"}
      BY <1>0, <1>c DEF Book!Displaced, Book!Owns, Book!Open, RecoveryTypes, BookEpisodes, Endings
    <2>4. venue = "NADO" => asked' = 0 /\ copy'.seq = copy.seq BY <1>a DEF Book!Connect
    <2>. QED BY <1>b, <2>1, <2>2, <2>3, <2>4 DEF Book!Connect, Book!Rescue
<1>1. RecoveryTypes'
  BY <1>0, <1>a, <1>b, <1>c, NoneBuffered DEF Book!Connect, Book!venueVars, Book!bookVars,
    Book!ReplaceDisplaced, Book!Displaced, AllKinds, RecoveryTypes, Tasks, Refreshes, BookEpisodes, Endings,
    Book!Rescue, Book!Timer, Book!NoTask, Book!NoRefresh
<1>2. RecoveryWire'
  BY <1>0, <1>a, <1>b, <1>c, NoneBuffered DEF Book!Connect, Book!venueVars, Book!bookVars,
    Book!ReplaceDisplaced, Book!Displaced, AllKinds, RecoveryTypes, RecoveryWire
<1>3. EpisodeInv'
  BY <1>0, <1>a, <1>b, <1>c, NoneBuffered DEF Book!Connect, Book!venueVars, Book!bookVars,
    Book!ReplaceDisplaced, Book!Displaced, AllKinds, RecoveryTypes, EpisodeInv, Book!Owns, Book!Open,
    Book!Usable, Tasks, BookEpisodes, Refreshes, Book!NoTask, Book!Rescue, Book!Timer, Book!NoRefresh
<1>4. Whole(copy, made)'
  BY <1>0, <1>a, <1>b, <1>c, NoneBuffered DEF Book!Connect, Book!venueVars, Book!bookVars,
    Book!ReplaceDisplaced, Book!Displaced, AllKinds, RecoveryTypes
<1>5. RisexInv' BY <1>d DEF RisexInv, Comes, Book!Connect, Book!venueVars
<1>6. LighterInv'
  BY <1>0, <1>a, <1>b, <1>c, NoneBuffered DEF Book!Connect, Book!venueVars, Book!bookVars,
    Book!ReplaceDisplaced, Book!Displaced, AllKinds, RecoveryTypes, LighterInv, Book!Owns, Book!Open,
    Book!Usable, Tasks, BookEpisodes, Refreshes, Book!NoTask, Book!Rescue, Book!Timer, Book!NoRefresh, Comes
<1>7. NadoInv' BY <1>0, <1>a, <1>e, <1>f DEF NadoInv, Book!Open, Book!Owns, Book!Usable
<1>. QED BY <1>1, <1>2, <1>3, <1>4, <1>5, <1>6, <1>7 DEF RecoveryInv

LEMMA BookFetchedStep ==
    ASSUME RecoveryInv, Book!Fetched
    PROVE  RecoveryInv'
<1>0. /\ RecoveryTypes /\ RecoveryWire /\ EpisodeInv /\ Whole(copy, made)
      /\ RisexInv /\ LighterInv /\ NadoInv
  BY DEF RecoveryInv
<1>a. ref' \in Refreshes /\ ref'.from = ref.from /\ ref'.on = ref.on /\ ref'.moved = ref.on
  BY <1>0, MovedIs DEF Book!Fetched, Book!RecoverSnapshot
<1>b. /\ copy' \in Copies /\ Whole(copy', made) /\ copy'.ok /\ copy'.conn
      /\ venue = "NADO" => copy'.seq # Book!NoSeq
    <2>1. PICK n \in Book!Answers(made) : copy' = Book!Shows(n, Book!RestSequence(n))
      BY DEF Book!Fetched, Book!RecoverSnapshot
    <2>2. n \in 0..made /\ made \in Nat BY <1>0 DEF Book!Answers, RecoveryTypes
    <2>3. Book!RestSequence(n) \in {Book!NoSeq, n} /\ (venue = "NADO"
             => Book!RestSequence(n) # Book!NoSeq)
      BY <2>2 DEF Book!RestSequence, Book!NoSeq
    <2>. QED BY <2>1, <2>2, <2>3, ShowsIs
<1>c. venue # "LIGHTER" /\ (venue = "RISEX" => keeper' = 0) /\ keeper' \in Nat
         /\ ready' \in BOOLEAN
  BY <1>0 DEF Book!Fetched, Book!RecoverSnapshot, RecoveryTypes, LighterInv, RisexInv
<1>1. RecoveryTypes'
  BY <1>0, <1>a, <1>b, <1>c DEF Book!Fetched, Book!venueVars, Book!bookVars, RecoveryTypes, Tasks, Refreshes,
    BookEpisodes, Endings, Book!Rescue, Book!Timer, Book!NoTask, Book!NoRefresh
<1>2. RecoveryWire'
  BY <1>0, <1>a, <1>b, <1>c DEF Book!Fetched, Book!venueVars, Book!bookVars, RecoveryTypes, RecoveryWire
<1>3. EpisodeInv'
  BY <1>0, <1>a, <1>b, <1>c DEF Book!Fetched, Book!venueVars, Book!bookVars, RecoveryTypes, EpisodeInv,
    Book!Owns, Book!Open, Book!Usable, Tasks, BookEpisodes, Refreshes, Book!NoTask, Book!Rescue, Book!Timer,
    Book!NoRefresh
<1>4. Whole(copy, made)' BY <1>0, <1>a, <1>b, <1>c DEF Book!Fetched, Book!venueVars, Book!bookVars, RecoveryTypes
<1>5. RisexInv'
  BY <1>0, <1>a, <1>b, <1>c DEF Book!Fetched, Book!venueVars, Book!bookVars, RecoveryTypes, RisexInv,
    Book!Owns, Book!Open, Book!Usable, Tasks, BookEpisodes, Refreshes, Book!NoTask, Book!Rescue, Book!Timer,
    Book!NoRefresh
<1>6. LighterInv'
  BY <1>0, <1>a, <1>b, <1>c DEF Book!Fetched, Book!venueVars, Book!bookVars, RecoveryTypes, LighterInv,
    Book!Owns, Book!Open, Book!Usable, Tasks, BookEpisodes, Refreshes, Book!NoTask, Book!Rescue, Book!Timer,
    Book!NoRefresh
<1>7. NadoInv'
  BY <1>0, <1>a, <1>b, <1>c DEF Book!Fetched, Book!venueVars, Book!bookVars, RecoveryTypes, NadoInv,
    Book!Owns, Book!Open, Book!Usable, Tasks, BookEpisodes, Refreshes, Book!NoTask, Book!Rescue, Book!Timer,
    Book!NoRefresh
<1>. QED BY <1>1, <1>2, <1>3, <1>4, <1>5, <1>6, <1>7 DEF RecoveryInv

LEMMA BookRefusedStep ==
    ASSUME RecoveryInv, Book!Refused
    PROVE  RecoveryInv'
<1>0. /\ RecoveryTypes /\ RecoveryWire /\ EpisodeInv /\ Whole(copy, made)
      /\ RisexInv /\ LighterInv /\ NadoInv
  BY DEF RecoveryInv
<1>f. /\ stage = "read"
      /\ Head(wire) \in BookFrames /\ Fit(Head(wire), made)
      /\ seen' = Head(wire).to /\ seen' \in 0..made /\ seen <= seen'
      /\ wire' \in Seq(BookFrames)
      /\ SnapIn(wire') => SnapIn(wire)
      /\ UNCHANGED <<venue, made, faults, turn, stage>>
      /\ RecoveryWire'
  BY <1>0, FrameIs DEF Book!Refused
<1>1. RecoveryTypes'
  BY <1>0, <1>f DEF Book!Refused, Book!venueVars, Book!bookVars, Book!Quiet, RecoveryTypes, Tasks, Refreshes,
    BookEpisodes, Endings, Book!Rescue, Book!Timer, Book!NoTask, Book!NoRefresh
<1>2. RecoveryWire' BY <1>f
<1>3. EpisodeInv'
  BY <1>0, <1>f DEF Book!Refused, Book!venueVars, Book!bookVars, Book!Quiet, RecoveryTypes, EpisodeInv,
    Book!Owns, Book!Open, Book!Usable, Tasks, BookEpisodes, Refreshes, Book!NoTask, Book!Rescue, Book!Timer,
    Book!NoRefresh
<1>4. Whole(copy, made)' BY <1>0, <1>f DEF Book!Refused, Book!venueVars, Book!bookVars, Book!Quiet, RecoveryTypes
<1>5. RisexInv'
  BY <1>0, <1>f DEF Book!Refused, Book!venueVars, Book!bookVars, Book!Quiet, RecoveryTypes, RisexInv,
    Book!Owns, Book!Open, Book!Usable, Tasks, BookEpisodes, Refreshes, Book!NoTask, Book!Rescue, Book!Timer,
    Book!NoRefresh
<1>6. LighterInv'
  BY <1>0, <1>f DEF Book!Refused, Book!venueVars, Book!bookVars, Book!Quiet, RecoveryTypes, LighterInv,
    Book!Owns, Book!Open, Book!Usable, Tasks, BookEpisodes, Refreshes, Book!NoTask, Book!Rescue, Book!Timer,
    Book!NoRefresh
<1>7. NadoInv'
  BY <1>0, <1>f DEF Book!Refused, Book!venueVars, Book!bookVars, Book!Quiet, RecoveryTypes, NadoInv,
    Book!Owns, Book!Open, Book!Usable, Tasks, BookEpisodes, Refreshes, Book!NoTask, Book!Rescue, Book!Timer,
    Book!NoRefresh
<1>. QED BY <1>1, <1>2, <1>3, <1>4, <1>5, <1>6, <1>7 DEF RecoveryInv

LEMMA BookFirstSnapshotStep ==
    ASSUME RecoveryInv, Book!FirstSnapshot
    PROVE  RecoveryInv'
<1>0. /\ RecoveryTypes /\ RecoveryWire /\ EpisodeInv /\ Whole(copy, made)
      /\ RisexInv /\ LighterInv /\ NadoInv
  BY DEF RecoveryInv
<1>f. /\ stage = "read"
      /\ Head(wire) \in BookFrames /\ Fit(Head(wire), made)
      /\ seen' = Head(wire).to /\ seen' \in 0..made /\ seen <= seen'
      /\ wire' \in Seq(BookFrames)
      /\ SnapIn(wire') => SnapIn(wire)
      /\ UNCHANGED <<venue, made, faults, turn, stage>>
      /\ RecoveryWire'
      /\ SnapIn(wire)
  BY <1>0, FrameIs DEF Book!FirstSnapshot
<1>m. ref' \in Refreshes /\ ref'.from = ref.from /\ ref'.on = ref.on /\ ref'.moved = ref.on
  BY <1>0, MovedIs DEF Book!FirstSnapshot, Book!RecoverSnapshot
<1>a. /\ copy' \in Copies /\ Whole(copy', made) /\ copy'.ok /\ copy'.conn
      /\ copy'.seq = seen' /\ copy'.seq # Book!NoSeq /\ ready' = TRUE /\ keeper' \in Nat
      /\ venue = "RISEX" => keeper' = turn
    <2>1. made \in Nat /\ turn \in Nat /\ keeper \in Nat BY <1>0 DEF RecoveryTypes
    <2>2. copy' = Book!Shows(seen', seen') BY <1>f DEF Book!FirstSnapshot, Book!RecoverSnapshot
    <2>3. seen' # Book!NoSeq BY <1>f DEF Book!NoSeq
    <2>4. /\ copy' \in Copies /\ Whole(copy', made) /\ copy'.ok /\ copy'.conn
          /\ copy'.seq = seen'
      BY <1>f, <2>1, <2>2, ShowsIs
    <2>5. ready' = TRUE /\ keeper' \in Nat /\ (venue = "RISEX" => keeper' = turn)
      BY <2>1 DEF Book!FirstSnapshot, Book!RecoverSnapshot
    <2>. QED BY <2>3, <2>4, <2>5
<1>u. /\ episode' = episode /\ task' = task /\ episode.end \in {"NONE", "COMPLETE"}
      /\ venue = "RISEX" => task = Book!NoTask
  BY <1>0 DEF Book!FirstSnapshot, RisexInv
<1>1. RecoveryTypes'
  BY <1>0, <1>f, <1>m, <1>a DEF Book!FirstSnapshot, Book!venueVars, Book!bookVars, Book!Quiet, RecoveryTypes,
    Tasks, Refreshes, BookEpisodes, Endings, Book!Rescue, Book!Timer, Book!NoTask, Book!NoRefresh
<1>2. RecoveryWire' BY <1>f
<1>3. EpisodeInv'
  BY <1>0, <1>f, <1>m, <1>a DEF Book!FirstSnapshot, Book!venueVars, Book!bookVars, Book!Quiet, RecoveryTypes,
    EpisodeInv, Book!Owns, Book!Open, Book!Usable, Tasks, BookEpisodes, Refreshes, Book!NoTask, Book!Rescue,
    Book!Timer, Book!NoRefresh
<1>4. Whole(copy, made)'
  BY <1>0, <1>f, <1>m, <1>a DEF Book!FirstSnapshot, Book!venueVars, Book!bookVars, Book!Quiet, RecoveryTypes
<1>5. RisexInv' BY <1>f, <1>m, <1>a, <1>u DEF RisexInv, Book!Open
<1>6. LighterInv' BY <1>f, <1>a, <1>u DEF LighterInv, Book!Usable, Book!Open
<1>7. NadoInv'
  BY <1>0, <1>f, <1>m, <1>a DEF Book!FirstSnapshot, Book!venueVars, Book!bookVars, Book!Quiet, RecoveryTypes,
    NadoInv, Book!Owns, Book!Open, Book!Usable, Tasks, BookEpisodes, Refreshes, Book!NoTask, Book!Rescue,
    Book!Timer, Book!NoRefresh
<1>. QED BY <1>1, <1>2, <1>3, <1>4, <1>5, <1>6, <1>7 DEF RecoveryInv

LEMMA BookRecoverySnapshotStep ==
    ASSUME RecoveryInv, Book!RecoverySnapshot
    PROVE  RecoveryInv'
<1>0. /\ RecoveryTypes /\ RecoveryWire /\ EpisodeInv /\ Whole(copy, made)
      /\ RisexInv /\ LighterInv /\ NadoInv
  BY DEF RecoveryInv
<1>f. /\ stage = "read"
      /\ Head(wire) \in BookFrames /\ Fit(Head(wire), made)
      /\ seen' = Head(wire).to /\ seen' \in 0..made /\ seen <= seen'
      /\ wire' \in Seq(BookFrames)
      /\ SnapIn(wire') => SnapIn(wire)
      /\ UNCHANGED <<venue, made, faults, turn, stage>>
      /\ RecoveryWire'
      /\ SnapIn(wire)
  BY <1>0, FrameIs DEF Book!RecoverySnapshot
<1>m. ref' \in Refreshes /\ ref'.from = ref.from /\ ref'.on = ref.on /\ ref'.moved = ref.on
  BY <1>0, MovedIs DEF Book!RecoverySnapshot, Book!PublishRecoverySnapshot
<1>a. /\ copy' \in Copies /\ Whole(copy', made) /\ copy'.ok /\ copy'.conn
      /\ copy'.seq = seen' /\ copy'.seq # Book!NoSeq /\ ready' = TRUE /\ keeper' \in Nat
      /\ venue = "RISEX" => keeper' = turn
    <2>1. episode.sess = turn /\ turn \in Nat /\ keeper \in Nat /\ seen \in Nat
             /\ episode.buf \in Seq(BookFrames)
      BY <1>0 DEF RecoveryTypes, Book!RecoverySnapshot, Book!Owns, BookEpisodes
    <2>2. Upto(episode.buf, seen') BY <1>0, <1>f, <2>1, UptoMore DEF EpisodeInv, Book!RecoverySnapshot
    <2>3. copy' = Book!BuildRecoveryBook(seen', seen') /\ copy'.ok
      BY <1>f DEF Book!RecoverySnapshot, Book!PublishRecoverySnapshot
    <2>4. seen' # Book!NoSeq BY <1>f DEF Book!NoSeq
    <2>. DEFINE r == Book!BuildRecoveryBook(seen', seen')
    <2>5. /\ r \in Copies /\ Whole(r, made)
          /\ r.ok => r.conn
          /\ seen' # Book!NoSeq /\ r.ok /\ Upto(episode.buf, seen') => r.seq = seen'
      BY <1>0, <1>f, BuiltIs
    <2>6. ready' = TRUE /\ keeper' \in Nat /\ (venue = "RISEX" => keeper' = turn)
      BY <2>1 DEF Book!RecoverySnapshot, Book!PublishRecoverySnapshot
    <2>. HIDE DEF r
    <2>7. copy' = r /\ r.ok BY <2>3 DEF r
    <2>. QED BY <2>2, <2>4, <2>5, <2>6, <2>7, Zenon
<1>u. /\ episode' \in BookEpisodes /\ episode'.end = "COMPLETE" /\ episode'.buf = <<>>
            /\ episode'.sess = episode.sess
      /\ task' \in {task, Book!NoTask}
  BY <1>0, EndedIs DEF Book!RecoverySnapshot, Book!PublishRecoverySnapshot, RecoveryTypes, Ended, Endings
<1>v. venue = "RISEX" => task = Book!NoTask BY <1>0 DEF RisexInv
<1>w. venue # "NADO" BY <1>0, <1>f DEF NadoInv
<1>1. RecoveryTypes'
  BY <1>0, <1>f, <1>m, <1>a, <1>u, NoneBuffered DEF Book!RecoverySnapshot, Book!venueVars, Book!bookVars,
    Book!Quiet, RecoveryTypes, Tasks, Refreshes, BookEpisodes, Endings, Book!Rescue, Book!Timer, Book!NoTask,
    Book!NoRefresh
<1>2. RecoveryWire' BY <1>f
<1>3. EpisodeInv'
  BY <1>0, <1>f, <1>m, <1>a, <1>u, NoneBuffered DEF Book!RecoverySnapshot, Book!venueVars, Book!bookVars,
    Book!Quiet, RecoveryTypes, EpisodeInv, Book!Owns, Book!Open, Book!Usable, Tasks, BookEpisodes, Refreshes,
    Book!NoTask, Book!Rescue, Book!Timer, Book!NoRefresh
<1>4. Whole(copy, made)'
  BY <1>0, <1>f, <1>m, <1>a, <1>u, NoneBuffered DEF Book!RecoverySnapshot, Book!venueVars, Book!bookVars,
    Book!Quiet, RecoveryTypes
<1>5. RisexInv' BY <1>f, <1>m, <1>a, <1>u, <1>v DEF RisexInv, Book!Open
<1>6. LighterInv' BY <1>f, <1>a, <1>u DEF LighterInv, Book!Usable, Book!Open
<1>7. NadoInv' BY <1>f, <1>w DEF NadoInv
<1>. QED BY <1>1, <1>2, <1>3, <1>4, <1>5, <1>6, <1>7 DEF RecoveryInv

LEMMA BookRecoverySnapshotFailsStep ==
    ASSUME RecoveryInv, Book!RecoverySnapshotFails
    PROVE  RecoveryInv'
<1>0. /\ RecoveryTypes /\ RecoveryWire /\ EpisodeInv /\ Whole(copy, made)
      /\ RisexInv /\ LighterInv /\ NadoInv
  BY DEF RecoveryInv
<1>f. /\ stage = "read"
      /\ Head(wire) \in BookFrames /\ Fit(Head(wire), made)
      /\ seen' = Head(wire).to /\ seen' \in 0..made /\ seen <= seen'
      /\ wire' \in Seq(BookFrames)
      /\ SnapIn(wire') => SnapIn(wire)
      /\ UNCHANGED <<venue, made, faults, turn, stage>>
      /\ RecoveryWire'
      /\ SnapIn(wire)
  BY <1>0, FrameIs DEF Book!RecoverySnapshotFails
<1>m. ref' \in Refreshes /\ ref'.from = ref.from /\ ref'.on = ref.on /\ ref'.moved = ref.on
  BY <1>0, MovedIs DEF Book!RecoverySnapshotFails, Book!MarkDisconnected
<1>a. Book!Cut(copy) \in Copies /\ ~Book!Cut(copy).ok /\ Whole(Book!Cut(copy), made)
  BY <1>0, LostIs DEF RecoveryTypes
<1>b. /\ Book!NewEpisode \in BookEpisodes /\ Book!NewEpisode.sess = turn
            /\ Book!NewEpisode.buf = <<>>
      /\ Book!NewEpisode.end = "OPEN"
  BY <1>0, NewEpisodeIs
<1>u. /\ episode' \in BookEpisodes /\ episode'.buf = <<>> /\ episode'.sess = turn
      /\ venue = "RISEX" => episode'.end = "OPEN" /\ asked' = asked + 1
      /\ venue # "RISEX" => episode'.end = "FAILED" /\ asked' = asked
    <2>1. episode.sess = turn /\ episode \in BookEpisodes
      BY <1>0 DEF Book!RecoverySnapshotFails, Book!Owns, RecoveryTypes
    <2>2. ASSUME venue = "RISEX" PROVE episode' = Book!NewEpisode /\ asked' = asked + 1
      BY <2>2 DEF Book!RecoverySnapshotFails, Book!ResubscribeRisexOrderbooks
    <2>3. ASSUME venue # "RISEX" PROVE episode' = Ended(episode, "FAILED") /\ asked' = asked
      BY <2>3 DEF Book!RecoverySnapshotFails, Ended, Book!Quiet
    <2>4. "FAILED" \in Endings BY DEF Endings
    <2>5. /\ Ended(episode, "FAILED") \in BookEpisodes
                /\ Ended(episode, "FAILED").end = "FAILED"
          /\ Ended(episode, "FAILED").buf = <<>> /\ Ended(episode, "FAILED").sess = turn
      BY <2>1, <2>4, EndedIs
    <2>. QED BY <1>b, <2>2, <2>3, <2>5
<1>v. /\ copy' = Book!Cut(copy) /\ ready' = FALSE /\ asked' \in Nat /\ on' \in BOOLEAN
      /\ flow' = flow /\ Book!NoTask \in Tasks
    <2>1. Book!NoTask \in Tasks BY DEF Tasks, Book!NoTask
    <2>2. copy' = Book!Cut(copy) /\ ready' = FALSE /\ flow' = flow
      BY DEF Book!RecoverySnapshotFails, Book!MarkDisconnected
    <2>3. on' \in {on, FALSE} /\ on \in BOOLEAN /\ asked \in Nat
      BY <1>0 DEF Book!RecoverySnapshotFails, Book!ResubscribeRisexOrderbooks, Book!Quiet, RecoveryTypes
    <2>4. asked' \in {asked, asked + 1} BY <1>u
    <2>5. on' \in BOOLEAN BY <2>3, Zenon
    <2>6. asked' \in Nat BY <2>3, <2>4
    <2>. QED BY <2>1, <2>2, <2>5, <2>6
<1>w. venue # "NADO" /\ task' = Book!NoTask /\ keeper' = 0
  BY <1>0, <1>f DEF NadoInv, Book!RecoverySnapshotFails, Book!MarkDisconnected
<1>1. RecoveryTypes'
    <2>1. copy' \in Copies /\ ready' \in BOOLEAN /\ flow' \in BOOLEAN /\ keeper' \in Nat
      BY <1>0, <1>a, <1>v, <1>w DEF RecoveryTypes
    <2>2. task' \in Tasks /\ on' \in BOOLEAN /\ asked' \in Nat /\ seen' \in Nat BY <1>f, <1>v, <1>w
    <2>. QED BY <1>0, <1>f, <1>m, <1>u, <2>1, <2>2 DEF RecoveryTypes
<1>2. RecoveryWire' BY <1>f
<1>3. EpisodeInv' BY <1>0, <1>f, <1>m, <1>u, <1>w, NoneBuffered DEF RecoveryTypes, EpisodeInv, Book!NoTask
<1>4. Whole(copy, made)' BY <1>a, <1>f, <1>v
<1>5. RisexInv' BY <1>0, <1>f, <1>u, <1>w DEF RisexInv, Book!Open, Comes, RecoveryTypes
<1>6. LighterInv'
  BY <1>0, <1>f, <1>a, <1>u DEF LighterInv, Book!Usable, Book!Open, Book!RecoverySnapshotFails,
    Book!MarkDisconnected
<1>7. NadoInv' BY <1>f, <1>w DEF NadoInv
<1>. QED BY <1>1, <1>2, <1>3, <1>4, <1>5, <1>6, <1>7 DEF RecoveryInv

LEMMA BookBufferedStep ==
    ASSUME RecoveryInv, Book!Buffered
    PROVE  RecoveryInv'
<1>0. /\ RecoveryTypes /\ RecoveryWire /\ EpisodeInv /\ Whole(copy, made)
      /\ RisexInv /\ LighterInv /\ NadoInv
  BY DEF RecoveryInv
<1>f. /\ stage = "read"
      /\ Head(wire) \in BookFrames /\ Fit(Head(wire), made)
      /\ seen' = Head(wire).to /\ seen' \in 0..made /\ seen <= seen'
      /\ wire' \in Seq(BookFrames)
      /\ SnapIn(wire') => SnapIn(wire)
      /\ UNCHANGED <<venue, made, faults, turn, stage>>
      /\ RecoveryWire'
      /\ SnapIn(wire) => SnapIn(wire')
  BY <1>0, FrameIs DEF Book!Buffered
<1>a. /\ episode' \in BookEpisodes /\ episode'.sess = episode.sess /\ episode'.end = "OPEN"
            /\ episode.end = "OPEN"
      /\ AllFit(episode'.buf, made) /\ Upto(episode'.buf, seen') /\ episode.sess = turn
    <2>1. /\ episode \in BookEpisodes /\ episode.buf \in Seq(BookFrames)
                /\ AllFit(episode.buf, made) /\ Upto(episode.buf, seen)
          /\ episode.sess = turn /\ episode.end = "OPEN" /\ made \in Nat /\ seen \in Nat
      BY <1>0 DEF Book!Buffered, Book!Owns, Book!Open, RecoveryTypes, BookEpisodes, EpisodeInv
    <2>2. Upto(episode.buf, Head(wire).to) BY <1>f, <2>1, UptoMore
    <2>. DEFINE q == Append(episode.buf, Head(wire))
    <2>3. q \in Seq(BookFrames) /\ AllFit(q, made) /\ Upto(q, seen') BY <1>f, <2>1, <2>2, BufferedIs
    <2>4. episode' = [episode EXCEPT !.buf = q] BY DEF Book!Buffered
    <2>. HIDE DEF q
    <2>. QED BY <2>1, <2>3, <2>4 DEF BookEpisodes
<1>1. RecoveryTypes'
  BY <1>0, <1>f, <1>a DEF Book!Buffered, Book!venueVars, Book!bookVars, Book!Quiet, RecoveryTypes, Tasks,
    Refreshes, BookEpisodes, Endings, Book!Rescue, Book!Timer, Book!NoTask, Book!NoRefresh
<1>2. RecoveryWire' BY <1>f
<1>3. EpisodeInv'
  BY <1>0, <1>f, <1>a DEF Book!Buffered, Book!venueVars, Book!bookVars, Book!Quiet, RecoveryTypes, EpisodeInv,
    Book!Owns, Book!Open, Book!Usable, Tasks, BookEpisodes, Refreshes, Book!NoTask, Book!Rescue, Book!Timer,
    Book!NoRefresh
<1>4. Whole(copy, made)'
  BY <1>0, <1>f, <1>a DEF Book!Buffered, Book!venueVars, Book!bookVars, Book!Quiet, RecoveryTypes
<1>5. RisexInv'
  BY <1>0, <1>f, <1>a DEF Book!Buffered, Book!venueVars, Book!bookVars, Book!Quiet, RecoveryTypes, RisexInv,
    Book!Owns, Book!Open, Book!Usable, Tasks, BookEpisodes, Refreshes, Book!NoTask, Book!Rescue, Book!Timer,
    Book!NoRefresh, Comes
<1>6. LighterInv'
  BY <1>0, <1>f, <1>a DEF Book!Buffered, Book!venueVars, Book!bookVars, Book!Quiet, RecoveryTypes, LighterInv,
    Book!Owns, Book!Open, Book!Usable, Tasks, BookEpisodes, Refreshes, Book!NoTask, Book!Rescue, Book!Timer,
    Book!NoRefresh, Comes
<1>7. NadoInv'
  BY <1>0, <1>f, <1>a DEF Book!Buffered, Book!venueVars, Book!bookVars, Book!Quiet, RecoveryTypes, NadoInv,
    Book!Owns, Book!Open, Book!Usable, Tasks, BookEpisodes, Refreshes, Book!NoTask, Book!Rescue, Book!Timer,
    Book!NoRefresh
<1>. QED BY <1>1, <1>2, <1>3, <1>4, <1>5, <1>6, <1>7 DEF RecoveryInv

LEMMA BookOverflowStep ==
    ASSUME RecoveryInv, Book!Overflow
    PROVE  RecoveryInv'
<1>0. /\ RecoveryTypes /\ RecoveryWire /\ EpisodeInv /\ Whole(copy, made)
      /\ RisexInv /\ LighterInv /\ NadoInv
  BY DEF RecoveryInv
<1>f. /\ stage = "read"
      /\ Head(wire) \in BookFrames /\ Fit(Head(wire), made)
      /\ seen' = Head(wire).to /\ seen' \in 0..made /\ seen <= seen'
      /\ wire' \in Seq(BookFrames)
      /\ SnapIn(wire') => SnapIn(wire)
      /\ UNCHANGED <<venue, made, faults, turn, stage>>
      /\ RecoveryWire'
      /\ SnapIn(wire) => SnapIn(wire')
  BY <1>0, FrameIs DEF Book!Overflow
<1>b. /\ Book!NewEpisode \in BookEpisodes /\ Book!NewEpisode.sess = turn
            /\ Book!NewEpisode.buf = <<>>
      /\ Book!NewEpisode.end = "OPEN"
  BY <1>0, NewEpisodeIs
<1>a. Book!Lost(copy) \in Copies /\ ~Book!Lost(copy).ok /\ Whole(Book!Lost(copy), made)
  BY <1>0, LostIs DEF RecoveryTypes
<1>c. episode \in BookEpisodes /\ episode.sess = turn /\ episode.end = "OPEN"
         /\ asked \in Nat /\ on \in BOOLEAN
  BY <1>0 DEF Book!Overflow, Book!Owns, Book!Open, RecoveryTypes
<1>d. /\ copy' = Book!Lost(copy) /\ ready' = ready /\ keeper' = keeper /\ flow' = flow
            /\ ref' = ref
  BY DEF Book!Overflow
<1>e. Book!Rescue \in Tasks /\ Book!NoTask \in Tasks /\ Book!Rescue.t = "try"
         /\ Book!Rescue.from = 0 /\ Book!NoTask.from = 0
      /\ Book!NoTask.t = "none"
  BY DEF Book!Rescue, Book!NoTask, Tasks
<1>g. \/ /\ episode' \in BookEpisodes /\ episode'.buf = <<>> /\ episode'.end = "OPEN"
               /\ episode'.sess = turn
         /\ task' = IF venue = "RISEX" THEN task ELSE Book!Rescue
         /\ on' = on /\ asked' = asked
      \/ /\ episode' = Book!NewEpisode /\ task' = Book!NoTask /\ on' = FALSE
               /\ asked' = asked + 1
         /\ venue = "RISEX"
      \/ /\ episode' \in BookEpisodes /\ episode'.buf = <<>> /\ episode'.end = "FAILED"
               /\ episode'.sess = turn
         /\ task' = Book!NoTask /\ venue # "RISEX"
         /\ on' = on /\ asked' = asked
    <2>1. ASSUME episode.over + 1 < BookOverflows
          PROVE  /\ episode' \in BookEpisodes /\ episode'.buf = <<>>
                      /\ episode'.end = "OPEN" /\ episode'.sess = turn
                 /\ task' = IF venue = "RISEX" THEN task ELSE Book!Rescue
                 /\ on' = on /\ asked' = asked
        <3>. DEFINE none == <<>>
                    c == [episode EXCEPT !.buf = none]
        <3>1. episode' = [c EXCEPT !.over = episode.over + 1] BY <1>c, <2>1 DEF Book!Overflow, BookEpisodes
        <3>2. none \in Seq(BookFrames) /\ episode.over + 1 \in Nat BY <1>c DEF BookEpisodes
        <3>. HIDE DEF none
        <3>3. c \in BookEpisodes /\ c.buf = none /\ c.end = "OPEN" /\ c.sess = turn BY <1>c, <3>2 DEF BookEpisodes
        <3>. HIDE DEF c
        <3>4. episode' \in BookEpisodes /\ episode'.buf = none /\ episode'.end = "OPEN"
                 /\ episode'.sess = turn
          BY <3>1, <3>2, <3>3 DEF BookEpisodes
        <3>5. task' = (IF venue = "RISEX" THEN task ELSE Book!Rescue) /\ on' = on
                 /\ asked' = asked
          BY <2>1 DEF Book!Overflow, Book!Quiet
        <3>. QED BY <3>4, <3>5 DEF none
    <2>2. ASSUME ~(episode.over + 1 < BookOverflows), venue = "RISEX"
          PROVE  episode' = Book!NewEpisode /\ task' = Book!NoTask /\ on' = FALSE
                   /\ asked' = asked + 1
      BY <2>2 DEF Book!Overflow, Book!ResubscribeRisexOrderbooks
    <2>3. ASSUME ~(episode.over + 1 < BookOverflows), venue # "RISEX"
          PROVE  episode' = Ended(episode, "FAILED") /\ task' = Book!NoTask /\ on' = on
                   /\ asked' = asked
      BY <2>3, <1>c DEF Book!Overflow, Ended, BookEpisodes, Book!Quiet
    <2>4. "FAILED" \in Endings BY DEF Endings
    <2>5. /\ Ended(episode, "FAILED") \in BookEpisodes
                /\ Ended(episode, "FAILED").end = "FAILED"
          /\ Ended(episode, "FAILED").buf = <<>> /\ Ended(episode, "FAILED").sess = turn
      BY <1>c, <2>4, EndedIs
    <2>. QED BY <2>1, <2>2, <2>3, <2>5
<1>h. episode' \in BookEpisodes /\ episode'.buf = <<>> /\ episode'.sess = turn
         /\ asked' >= asked /\ asked' \in Nat
      /\ episode'.end \in {"OPEN", "FAILED"} /\ task' \in Tasks /\ task'.from <= made
  BY <1>b, <1>g, <1>c, <1>0, <1>e DEF EpisodeInv, RecoveryTypes
<1>i. on' \in BOOLEAN BY <1>c, <1>g, Zenon
<1>n. AllFit(<<>>, made) /\ Upto(<<>>, seen') BY NoneBuffered
<1>1. RecoveryTypes' BY <1>0, <1>a, <1>d, <1>f, <1>h, <1>i DEF RecoveryTypes
<1>2. RecoveryWire' BY <1>f
<1>3. EpisodeInv' BY <1>0, <1>d, <1>f, <1>h, <1>n DEF EpisodeInv, RecoveryTypes
<1>4. Whole(copy, made)' BY <1>a, <1>d, <1>f
<1>5. RisexInv' BY <1>0, <1>c, <1>d, <1>f, <1>g, <1>h, <1>b DEF RisexInv, Book!Open, Comes, RecoveryTypes
<1>6. LighterInv' BY <1>a, <1>b, <1>c, <1>d, <1>e, <1>f, <1>g DEF LighterInv, Book!Usable, Book!Open, Book!Owns
<1>7. NadoInv' BY <1>0, <1>a, <1>b, <1>c, <1>d, <1>e, <1>f, <1>g DEF NadoInv, Book!Usable, Book!Open, Book!Owns
<1>. QED BY <1>1, <1>2, <1>3, <1>4, <1>5, <1>6, <1>7 DEF RecoveryInv

LEMMA BookDeltaAppliedStep ==
    ASSUME RecoveryInv, Book!DeltaApplied
    PROVE  RecoveryInv'
<1>0. /\ RecoveryTypes /\ RecoveryWire /\ EpisodeInv /\ Whole(copy, made)
      /\ RisexInv /\ LighterInv /\ NadoInv
  BY DEF RecoveryInv
<1>f. /\ stage = "read"
      /\ Head(wire) \in BookFrames /\ Fit(Head(wire), made)
      /\ seen' = Head(wire).to /\ seen' \in 0..made /\ seen <= seen'
      /\ wire' \in Seq(BookFrames)
      /\ SnapIn(wire') => SnapIn(wire)
      /\ UNCHANGED <<venue, made, faults, turn, stage>>
      /\ RecoveryWire'
      /\ SnapIn(wire) => SnapIn(wire')
  BY <1>0, FrameIs DEF Book!DeltaApplied
<1>m. ref' \in Refreshes /\ ref'.from = ref.from /\ ref'.on = ref.on /\ ref'.moved = ref.on
  BY <1>0, MovedIs DEF Book!DeltaApplied
<1>a. /\ copy' \in Copies /\ Whole(copy', made) /\ copy'.ok /\ copy'.conn = copy.conn
      /\ copy'.seq # Book!NoSeq /\ copy.ok /\ ready' = TRUE
      /\ venue # "NADO" => copy'.seq = seen'
  BY <1>0, <1>f, Applied DEF RecoveryTypes, NadoInv, Book!DeltaApplied
<1>u. /\ episode' = episode /\ task' = task /\ keeper' = keeper
            /\ episode.end \in {"NONE", "COMPLETE"}
      /\ on' = on /\ asked' = asked /\ flow' = TRUE
      /\ venue = "RISEX" => keeper = turn /\ task = Book!NoTask
  BY <1>0 DEF Book!DeltaApplied, Book!Quiet, RisexInv
<1>1. RecoveryTypes'
  BY <1>0, <1>f, <1>m, <1>a, <1>u DEF Book!DeltaApplied, Book!venueVars, Book!bookVars, Book!Quiet,
    RecoveryTypes, Tasks, Refreshes, BookEpisodes, Endings, Book!Rescue, Book!Timer, Book!NoTask,
    Book!NoRefresh
<1>2. RecoveryWire' BY <1>f
<1>3. EpisodeInv'
  BY <1>0, <1>f, <1>m, <1>a, <1>u DEF Book!DeltaApplied, Book!venueVars, Book!bookVars, Book!Quiet,
    RecoveryTypes, EpisodeInv, Book!Owns, Book!Open, Book!Usable, Tasks, BookEpisodes, Refreshes, Book!NoTask,
    Book!Rescue, Book!Timer, Book!NoRefresh
<1>4. Whole(copy, made)'
  BY <1>0, <1>f, <1>m, <1>a, <1>u DEF Book!DeltaApplied, Book!venueVars, Book!bookVars, Book!Quiet,
    RecoveryTypes
<1>5. RisexInv' BY <1>0, <1>f, <1>m, <1>a, <1>u DEF RisexInv, Book!Open, RecoveryTypes
<1>6. LighterInv' BY <1>0, <1>f, <1>a, <1>u DEF LighterInv, Book!Usable, Book!Open, Comes
<1>7. NadoInv' BY <1>0, <1>f, <1>a, <1>u DEF NadoInv, Book!Usable, Book!Open
<1>. QED BY <1>1, <1>2, <1>3, <1>4, <1>5, <1>6, <1>7 DEF RecoveryInv

LEMMA BookDeltaGapStep ==
    ASSUME RecoveryInv, Book!DeltaGap
    PROVE  RecoveryInv'
<1>0. /\ RecoveryTypes /\ RecoveryWire /\ EpisodeInv /\ Whole(copy, made)
      /\ RisexInv /\ LighterInv /\ NadoInv
  BY DEF RecoveryInv
<1>f. /\ stage = "read"
      /\ Head(wire) \in BookFrames /\ Fit(Head(wire), made)
      /\ seen' = Head(wire).to /\ seen' \in 0..made /\ seen <= seen'
      /\ wire' \in Seq(BookFrames)
      /\ SnapIn(wire') => SnapIn(wire)
      /\ UNCHANGED <<venue, made, faults, turn, stage>>
      /\ RecoveryWire'
      /\ SnapIn(wire) => SnapIn(wire')
  BY <1>0, FrameIs DEF Book!DeltaGap
<1>m. ref' \in Refreshes /\ ref'.from = ref.from /\ ref'.on = ref.on /\ ref'.moved = ref.on
  BY <1>0, MovedIs DEF Book!DeltaGap, Book!MarkDisconnected
<1>b. /\ Book!NewEpisode \in BookEpisodes /\ Book!NewEpisode.sess = turn
            /\ Book!NewEpisode.buf = <<>>
      /\ Book!NewEpisode.end = "OPEN"
  BY <1>0, NewEpisodeIs
<1>a. /\ copy' \in Copies /\ ~copy'.ok /\ Whole(copy', made) /\ ready' = FALSE /\ keeper' = 0
      /\ flow' = flow
  BY <1>0, LostIs DEF RecoveryTypes, Book!DeltaGap, Book!MarkDisconnected
<1>c. task \in Tasks /\ task.from <= made /\ 0 <= made /\ on \in BOOLEAN /\ asked \in Nat
      /\ venue \in AllKinds /\ (venue = "RISEX" => task = Book!NoTask)
  BY <1>0 DEF RecoveryTypes, EpisodeInv, RisexInv
<1>g. /\ episode' = Book!NewEpisode
      /\ \/ venue = "NADO" /\ task' = Book!Rescue /\ on' = on /\ asked' = asked
         \/ venue = "LIGHTER" /\ task' = Book!Timer /\ on' = on /\ asked' = asked + 1
         \/ venue = "RISEX" /\ task' = task /\ on' = FALSE /\ asked' = asked + 1
  BY <1>c DEF Book!DeltaGap, Book!ResubscribeRisexOrderbooks, Book!Quiet, AllKinds
<1>e. /\ Book!Rescue \in Tasks /\ Book!Timer \in Tasks /\ Book!Rescue.t = "try"
            /\ Book!Rescue.from = 0
      /\ Book!Timer.t = "timer" /\ Book!Timer.from = 0
  BY DEF Book!Rescue, Book!Timer, Tasks
<1>h. asked' \in Nat /\ asked' >= asked /\ task' \in Tasks /\ task'.from <= made BY <1>c, <1>e, <1>g
<1>i. on' \in BOOLEAN BY <1>c, <1>g, Zenon
<1>n. AllFit(<<>>, made) /\ Upto(<<>>, seen') BY NoneBuffered
<1>1. RecoveryTypes'
    <2>1. copy' \in Copies /\ keeper' \in Nat /\ task' \in Tasks /\ asked' \in Nat
             /\ seen' \in Nat
      BY <1>0, <1>a, <1>f, <1>h DEF RecoveryTypes
    <2>2. ready' \in BOOLEAN /\ flow' \in BOOLEAN /\ on' \in BOOLEAN BY <1>0, <1>a, <1>i DEF RecoveryTypes
    <2>. QED BY <1>0, <1>b, <1>f, <1>g, <1>m, <2>1, <2>2 DEF RecoveryTypes
<1>2. RecoveryWire' BY <1>f
<1>3. EpisodeInv' BY <1>0, <1>b, <1>f, <1>g, <1>h, <1>m, <1>n DEF EpisodeInv, RecoveryTypes
<1>4. Whole(copy, made)' BY <1>a, <1>f
<1>5. RisexInv' BY <1>a, <1>b, <1>c, <1>f, <1>g DEF RisexInv, Book!Open, Comes
<1>6. LighterInv' BY <1>a, <1>b, <1>e, <1>f, <1>g DEF LighterInv, Book!Usable, Book!Open, Book!Owns
<1>7. NadoInv' BY <1>0, <1>a, <1>b, <1>e, <1>f, <1>g DEF NadoInv, Book!Usable, Book!Open, Book!Owns
<1>. QED BY <1>1, <1>2, <1>3, <1>4, <1>5, <1>6, <1>7 DEF RecoveryInv

LEMMA BookRescueAnsweredStep ==
    ASSUME RecoveryInv, Book!RescueAnswered
    PROVE  RecoveryInv'
<1>0. /\ RecoveryTypes /\ RecoveryWire /\ EpisodeInv /\ Whole(copy, made)
      /\ RisexInv /\ LighterInv /\ NadoInv
  BY DEF RecoveryInv
<1>m. ref' \in Refreshes /\ ref'.from = ref.from /\ ref'.on = ref.on /\ ref'.moved = ref.on
  BY <1>0, MovedIs DEF Book!RescueAnswered, Book!PublishRecoverySnapshot
<1>a. PICK n \in Book!Answers(task.from) :
         /\ Book!BuildRecoveryBook(n, Book!RestSequence(n)).ok
         /\ Book!PublishRecoverySnapshot(Book!BuildRecoveryBook(n, Book!RestSequence(n)))
  BY DEF Book!RescueAnswered
<1>b. n \in 0..made /\ Book!RestSequence(n) \in {Book!NoSeq, n} /\ (venue # "NADO"
         => Book!RestSequence(n) = Book!NoSeq)
      /\ (venue = "NADO" => Book!RestSequence(n) # Book!NoSeq)
  BY <1>0 DEF Book!Answers, RecoveryTypes, EpisodeInv, Tasks, Book!RestSequence, Book!NoSeq
<1>c. venue = "NADO"
  BY <1>0, <1>a, <1>b, BuiltIs DEF RisexInv, Book!RescueAnswered, Book!NoTask, RecoveryTypes, AllKinds
<1>d. /\ copy' \in Copies /\ Whole(copy', made) /\ copy'.ok /\ copy'.conn
            /\ copy'.seq # Book!NoSeq
      /\ ready' = TRUE /\ keeper' = keeper
    <2>. DEFINE s == Book!RestSequence(n)
                r == Book!BuildRecoveryBook(n, s)
    <2>1. s \in {Book!NoSeq, n} /\ s # Book!NoSeq /\ n \in 0..made BY <1>b, <1>c
    <2>2. r.ok /\ copy' = r /\ ready' = TRUE /\ keeper' = keeper BY <1>a, <1>c DEF Book!PublishRecoverySnapshot
    <2>. HIDE DEF s
    <2>3. /\ r \in Copies /\ Whole(r, made)
          /\ r.ok => r.conn
          /\ s # Book!NoSeq /\ r.ok => r.seq # Book!NoSeq
      BY <1>0, <2>1, BuiltIs, Zenon
    <2>. HIDE DEF r
    <2>. QED BY <2>1, <2>2, <2>3, Zenon
<1>e. episode' \in BookEpisodes /\ episode'.end = "COMPLETE" /\ episode'.buf = <<>>
         /\ episode'.sess = episode.sess
  BY <1>0, <1>a, EndedIs DEF Book!PublishRecoverySnapshot, RecoveryTypes, Ended, Endings
<1>g. Book!NoTask \in Tasks /\ Book!NoTask.from = 0 /\ Book!NoTask.t = "none"
         /\ task' = Book!NoTask
  BY DEF Book!RescueAnswered, Book!NoTask, Tasks
<1>n. AllFit(<<>>, made) BY NoneBuffered
<1>1. RecoveryTypes'
  BY <1>0, <1>m, <1>d, <1>e, <1>g, <1>n DEF Book!RescueAnswered, Book!venueVars, Book!bookVars, RecoveryTypes,
    Tasks, Refreshes, BookEpisodes, Endings, Book!Rescue, Book!Timer, Book!NoTask, Book!NoRefresh
<1>2. RecoveryWire'
  BY <1>0, <1>m, <1>d, <1>e, <1>g, <1>n DEF Book!RescueAnswered, Book!venueVars, Book!bookVars, RecoveryTypes,
    RecoveryWire
<1>3. EpisodeInv'
  BY <1>0, <1>m, <1>d, <1>e, <1>g, <1>n DEF Book!RescueAnswered, Book!venueVars, Book!bookVars, RecoveryTypes,
    EpisodeInv, Book!Owns, Book!Open, Book!Usable, Tasks, BookEpisodes, Refreshes, Book!NoTask, Book!Rescue,
    Book!Timer, Book!NoRefresh
<1>4. Whole(copy, made)'
  BY <1>0, <1>m, <1>d, <1>e, <1>g, <1>n DEF Book!RescueAnswered, Book!venueVars, Book!bookVars, RecoveryTypes
<1>5. RisexInv' BY <1>c DEF RisexInv, Book!RescueAnswered
<1>6. LighterInv' BY <1>c DEF LighterInv, Book!RescueAnswered
<1>7. NadoInv' BY <1>0, <1>d, <1>e, <1>g DEF NadoInv, Book!Usable, Book!Open, Book!RescueAnswered, Book!venueVars
<1>. QED BY <1>1, <1>2, <1>3, <1>4, <1>5, <1>6, <1>7 DEF RecoveryInv

LEMMA BookRescueFailsStep ==
    ASSUME RecoveryInv, Book!RescueFails
    PROVE  RecoveryInv'
<1>0. /\ RecoveryTypes /\ RecoveryWire /\ EpisodeInv /\ Whole(copy, made)
      /\ RisexInv /\ LighterInv /\ NadoInv
  BY DEF RecoveryInv
<1>c. episode \in BookEpisodes /\ task \in Tasks BY <1>0 DEF RecoveryTypes
<1>d. /\ task' \in Tasks /\ task'.from \in {task.from, 0} /\ episode' \in BookEpisodes
      /\ episode'.buf = episode.buf /\ episode'.sess = episode.sess
      /\ \/ episode' = episode /\ task'.t = "sleep"
         \/ episode'.end = "FAILED" /\ task' = Book!NoTask
    <2>1. ASSUME task.n < BookAttempts
          PROVE  task' = [task EXCEPT !.t = "sleep"] /\ episode' = episode
      BY <2>1 DEF Book!RescueFails
    <2>2. ASSUME ~(task.n < BookAttempts)
          PROVE  task' = Book!NoTask /\ episode' = [episode EXCEPT !.end = "FAILED"]
      BY <2>2 DEF Book!RescueFails
    <2>3. Book!NoTask \in Tasks /\ Book!NoTask.from = 0 BY DEF Book!NoTask, Tasks
    <2>4. CASE task.n < BookAttempts BY <1>c, <2>1, <2>4 DEF Tasks
    <2>5. CASE ~(task.n < BookAttempts) BY <1>c, <2>2, <2>3, <2>5 DEF BookEpisodes, Endings
    <2>. QED BY <2>4, <2>5
<1>e. /\ UNCHANGED <<venue, made, on, asked, wire, turn, stage, copy, ready, keeper, flow, ref,
            seen>>
      /\ task.t = "asked" /\ Book!Owns
  BY DEF Book!RescueFails, Book!venueVars, Book!bookVars
<1>g. venue # "RISEX" BY <1>0, <1>e DEF RisexInv, Book!NoTask
<1>1. RecoveryTypes' BY <1>0, <1>d, <1>e DEF RecoveryTypes
<1>2. RecoveryWire' BY <1>0, <1>e DEF RecoveryWire
<1>3. EpisodeInv' BY <1>0, <1>d, <1>e DEF EpisodeInv, RecoveryTypes, Book!Open, Book!Owns
<1>4. Whole(copy, made)' BY <1>0, <1>e
<1>5. RisexInv' BY <1>e, <1>g DEF RisexInv
<1>6. LighterInv' BY <1>0, <1>d, <1>e DEF LighterInv, Book!Usable, Book!Open, Book!Owns
<1>7. NadoInv' BY <1>0, <1>d, <1>e DEF NadoInv, Book!Usable, Book!Open, Book!Owns, Book!NoTask
<1>. QED BY <1>1, <1>2, <1>3, <1>4, <1>5, <1>6, <1>7 DEF RecoveryInv

LEMMA RecoveryStarts == Book!Init => RecoveryInv
<1>. SUFFICES ASSUME Book!Init PROVE RecoveryInv OBVIOUS
<1>. DEFINE none == <<>>
<1>0. /\ venue \in AllKinds
      /\ made = 0 /\ on = FALSE /\ asked = 0 /\ wire = none
      /\ turn = 1 /\ stage = "down"
            /\ copy = [conn |-> FALSE, ok |-> FALSE, seq |-> Book!NoSeq, has |-> {}]
      /\ ready = FALSE /\ keeper = 0 /\ flow = FALSE
      /\ episode = [sess |-> 0, buf |-> none, end |-> "NONE", over |-> 0]
      /\ task = Book!NoTask /\ ref = Book!NoRefresh /\ seen = 0
  BY BooksAssumption DEF Book!Init, AllKinds, Book!NoEpisode
<1>1. /\ none \in Seq(BookFrames) /\ AllFit(none, 0) /\ Upto(none, 0) /\ InOrder(none)
      /\ ~SnapIn(none)
  BY NoneBuffered
<1>2. copy \in Copies /\ ~copy.ok BY <1>0 DEF Copies, Book!NoSeq
<1>3. task \in Tasks /\ ref \in Refreshes /\ task.t = "none" /\ task.from = 0 /\ ref.from = 0
  BY <1>0 DEF Book!NoTask, Book!NoRefresh, Tasks, Refreshes
<1>4. wire = <<>> BY <1>0
<1>. HIDE DEF none
<1>5. episode \in BookEpisodes /\ episode.end = "NONE" /\ episode.sess = 0 /\ episode.buf = none
  BY <1>0, <1>1 DEF BookEpisodes, Endings
<1>6. RecoveryTypes
    <2>1. made \in Nat /\ asked \in Nat /\ turn \in Nat /\ turn # 0 /\ seen \in Nat
             /\ keeper \in Nat
      BY <1>0
    <2>2. on \in BOOLEAN /\ ready \in BOOLEAN /\ flow \in BOOLEAN BY <1>0
    <2>3. wire \in Seq(BookFrames) /\ stage \in {"down", "fetch", "join", "read", "sleep"}
             /\ venue \in AllKinds
      BY <1>0, <1>1
    <2>. QED BY <1>2, <1>3, <1>5, <2>1, <2>2, <2>3 DEF RecoveryTypes
<1>7. RecoveryWire BY <1>0, <1>1, <1>4 DEF RecoveryWire
<1>8. EpisodeInv
    <2>1. AllFit(episode.buf, made) BY <1>0, <1>1, <1>5
    <2>2. ~Book!Owns /\ episode.sess <= turn /\ task.from <= made /\ ref.from <= made
      BY <1>5, <1>0, <1>3 DEF Book!Open, Book!Owns
    <2>. QED BY <2>1, <2>2 DEF EpisodeInv
<1>9. Whole(copy, made) BY <1>2 DEF Whole
<1>10. RisexInv /\ LighterInv BY <1>0, <1>2, <1>5 DEF RisexInv, LighterInv, Book!Usable
<1>11. NadoInv BY <1>0, <1>1, <1>2, <1>3, <1>5 DEF NadoInv
<1>. QED BY <1>6, <1>7, <1>8, <1>9, <1>10, <1>11 DEF RecoveryInv

LEMMA RecoveryStep == RecoveryInv /\ [Book!Next]_(Book!vars) => RecoveryInv'
<1>. SUFFICES ASSUME RecoveryInv, [Book!Next]_(Book!vars) PROVE RecoveryInv' OBVIOUS
<1>1. CASE UNCHANGED Book!vars
    <2>1. UNCHANGED <<venue, made, on, asked, wire, turn, stage, copy, ready, keeper, flow,
             episode, task, ref, seen>>
      BY <1>1 DEF Book!vars, Book!venueVars, Book!bookVars
    <2>2. /\ RecoveryTypes' /\ RecoveryWire' /\ EpisodeInv'
      BY <2>1 DEF RecoveryInv, RecoveryTypes, RecoveryWire, EpisodeInv, Book!Open, Book!Owns
    <2>3. Whole(copy, made)' /\ RisexInv' BY <2>1 DEF RecoveryInv, RisexInv, Book!Open
    <2>4. LighterInv' /\ NadoInv' BY <2>1 DEF RecoveryInv, LighterInv, NadoInv, Book!Open, Book!Owns, Book!Usable
    <2>. QED BY <2>2, <2>3, <2>4 DEF RecoveryInv
<1>2. CASE Book!Change \/ Book!Subscribed \/ Book!Connect \/ Book!Fetched \/ Book!Joined
         \/ Book!Drop \/ Book!Wake
  BY <1>2, BookChangeStep, BookSubscribedStep, BookConnectStep, BookFetchedStep, BookJoinedStep, BookDropStep,
    BookWakeStep
<1>3. CASE Book!Read
  BY <1>3, BookRefusedStep, BookFirstSnapshotStep, BookRecoverySnapshotStep, BookRecoverySnapshotFailsStep,
    BookBufferedStep, BookOverflowStep, BookDeltaAppliedStep, BookDeltaGapStep DEF Book!Read
<1>4. CASE Book!RescueAsks \/ Book!RescueAnswered \/ Book!RescueFails
         \/ Book!RescueDisplaced \/ Book!RescueWakes
  BY <1>4, BookRescueAsksStep, BookRescueAnsweredStep, BookRescueFailsStep, BookRescueDisplacedStep,
    BookRescueWakesStep
<1>5. CASE Book!TimerFires \/ Book!RefreshAsks \/ Book!RefreshAnswered
  BY <1>5, BookTimerFiresStep, BookRefreshAsksStep, BookRefreshAnsweredStep
<1>. QED BY <1>1, <1>2, <1>3, <1>4, <1>5 DEF Book!Next

LEMMA RecoveryBooks == RecoveryInv => Book!BookIsWhole /\ Book!StreamBookIsCurrent
   /\ Book!SomebodyMends
<1>. SUFFICES ASSUME RecoveryInv PROVE Book!BookIsWhole /\ Book!StreamBookIsCurrent
        /\ Book!SomebodyMends
    OBVIOUS
<1>0. /\ RecoveryTypes /\ Whole(copy, made) /\ RisexInv /\ LighterInv /\ NadoInv BY DEF RecoveryInv
<1>1. Book!BookIsWhole BY <1>0 DEF Book!BookIsWhole, Whole
<1>2. Book!StreamBookIsCurrent BY <1>0 DEF Book!StreamBookIsCurrent, RisexInv, LighterInv, Book!Open, Book!Usable
<1>3. Comes(asked, wire) => Book!SnapshotComes BY DEF Comes, SnapIn, Book!SnapshotComes, RecoveryTypes
<1>4. Book!SomebodyMends
    <2>1. SUFFICES ASSUME stage = "read"
                   PROVE  /\ venue = "RISEX" => keeper = turn \/ Book!SnapshotComes
                          /\ venue # "RISEX" /\ Book!Open => Book!Owns /\ task.t # "none"
                          /\ venue = "LIGHTER" /\ episode.end \in {"NONE", "COMPLETE"} =>
                                Book!Usable \/ Book!SnapshotComes
                          /\ venue = "NADO" /\ episode.end \in {"NONE", "COMPLETE"}
                                => Book!Usable
      BY DEF Book!SomebodyMends
    <2>2. venue = "RISEX" => keeper = turn \/ Book!SnapshotComes BY <1>0, <1>3, <2>1 DEF RisexInv
    <2>3. venue # "RISEX" /\ Book!Open => Book!Owns /\ task.t # "none"
      BY <1>0, <2>1 DEF LighterInv, NadoInv, RecoveryTypes, AllKinds
    <2>5. venue = "LIGHTER" /\ episode.end \in {"NONE", "COMPLETE"} => Book!Usable
             \/ Book!SnapshotComes
      BY <1>0, <1>3, <2>1 DEF LighterInv
    <2>6. venue = "NADO" /\ episode.end \in {"NONE", "COMPLETE"} => Book!Usable BY <1>0, <2>1 DEF NadoInv
    <2>. QED BY <2>2, <2>3, <2>5, <2>6
<1>. QED BY <1>1, <1>2, <1>4

-----------------------------------------------------------------------------
(* The socket of Extended.                                                 *)

SocketFrames == [m : Markets, t : {"delta", "snap"}, at : Nat, seq : Nat]
MarketBooks == [conn : BOOLEAN, ok : BOOLEAN, seq : Int, has : SUBSET Nat]
MarketEpisodes == [sess : Nat, buf : Seq(Nat), end : Endings, over : Nat]

\* The types of what the socket carries, and of what the runtime makes of it.
WireTypes ==
    /\ head \in [Markets -> Nat] /\ phys \in Nat /\ queue \in Seq(SocketFrames)
    /\ src \in {"open", "eof", "broken"}
    /\ cursor \in Nat \cup {Socket!NoSeq} /\ got \in [Markets -> Nat]
SocketTypes ==
    /\ symbols \in SUBSET Markets /\ routed \in SUBSET Markets
    /\ sess \in Nat /\ place \in {"none", "down", "read", "sleep"}
    /\ book \in [Markets -> MarketBooks] /\ live \in [Markets -> BOOLEAN]
    /\ ep \in [Markets -> MarketEpisodes]

\* The first j frames are the next ones by number; from i to j none is missing;
\* and none from i to j is of this market.
Reached(q, c, j) == \A k \in 1..j : q[k].seq = c + k
Following(q, i, j) == \A k \in i..(j - 1) : q[k + 1].seq = q[k].seq + 1
Alone(q, m, i, j) == \A k \in i..j : q[k].m # m

\* One queue is the other with a frame behind it, or without its first one.
Begins(r, q, L) == \A k \in 1..L : r[k] = q[k]
Longer(r, q, f) ==
    /\ Len(q) \in Nat /\ Len(r) = Len(q) + 1 /\ r[Len(q) + 1] = f
    /\ \A k \in 1..Len(q) : r[k] = q[k]
Shorter(r, q) ==
    /\ Len(r) \in Nat /\ Len(q) = Len(r) + 1
    /\ \A k \in 1..Len(r) : r[k] = q[k + 1]
\* A frame that moves the venue from n frames to n2 and from h to h2.
Carries(f, n, n2, h, h2) ==
    /\ f \in SocketFrames /\ n \in Nat /\ n2 = n + 1 /\ f.seq = n2
    /\ h \in [Markets -> Nat] /\ h2 = [h EXCEPT ![f.m] = f.at]
    /\ f.t = "delta" => f.at = h[f.m] + 1
Below(q, n) == \A k \in 1..Len(q) : q[k] \in SocketFrames /\ q[k].seq <= n

\* What continues a market whose last change that was read is g.
NextFits(q, c, m, g) ==
    \A k \in 1..Len(q) :
        /\ q[k].m = m /\ q[k].t = "delta"
        /\ Reached(q, c, k) /\ Alone(q, m, 1, k - 1)
        => q[k].at = g + 1
HeadFits(q, c, m, g, n, h) ==
    Reached(q, c, Len(q)) /\ n = c + Len(q) /\ Alone(q, m, 1, Len(q)) => h = g

\* Of two frames of a market one behind the other, and of the last of a market.
PairsFit(q) ==
    \A i, j \in 1..Len(q) :
        /\ i < j /\ q[j].t = "delta" /\ q[i].m = q[j].m
        /\ Following(q, i, j) /\ Alone(q, q[j].m, i + 1, j - 1)
        => q[j].at = q[i].at + 1
EndFits(q, n, h) ==
    \A i \in 1..Len(q) :
        Following(q, i, Len(q)) /\ q[Len(q)].seq = n /\ Alone(q, q[i].m, i + 1, Len(q))
        => h[q[i].m] = q[i].at

\* The frames of the socket are numbered as they were sent.
SocketWire ==
    /\ place # "read" => queue = <<>>
    /\ place = "down" => cursor = Socket!NoSeq /\ phys = 0
    /\ place = "read" => cursor = Socket!NoSeq \/ cursor <= phys
    /\ \A k \in 1..Len(queue) : queue[k].seq <= phys
    /\ PairsFit(queue) /\ EndFits(queue, phys, head)

\* The book of a routed market that is kept is the one of the frames read.
Kept(m) ==
    /\ place = "read" /\ cursor \in Nat
    /\ book[m].conn /\ book[m].has = 1..got[m] /\ book[m].seq <= cursor
    /\ live[m] /\ ep[m].end \in {"NONE", "COMPLETE"}
    /\ NextFits(queue, cursor, m, got[m])
    /\ HeadFits(queue, cursor, m, got[m], phys, head[m])
KeptInv == \A m \in symbols : book[m].ok => Kept(m)

\* The recovery of a market that was routed when the session connected.
OwnedInv == place = "read" => \A m \in routed : Socket!Open(m) => ep[m].sess = sess
NoneInv == place = "none" <=> symbols = {}

SocketInv == WireTypes /\ SocketTypes /\ SocketWire /\ KeptInv /\ OwnedInv /\ NoneInv

LEMMA EmptyFits ==
    ASSUME NEW n, NEW h
    PROVE  PairsFit(<<>>) /\ EndFits(<<>>, n, h)
BY DEF PairsFit, EndFits

\* A stretch of a queue and the same one further on.
LEMMA Shifted ==
    ASSUME NEW q, NEW r, NEW L \in Nat, NEW d \in Nat, \A k \in 1..L : r[k] = q[k + d]
    PROVE  \A i \in 1..(L + 1), j \in 0..L :
               /\ Following(r, i, j) <=> Following(q, i + d, j + d)
               /\ \A m : Alone(r, m, i, j) <=> Alone(q, m, i + d, j + d)
<1>. TAKE i \in 1..(L + 1), j \in 0..L
<1>1. ASSUME Following(r, i, j), NEW k \in (i + d)..(j + d - 1)
      PROVE  q[k + 1].seq = q[k].seq + 1
    <2>1. k - d \in i..(j - 1) /\ k - d \in 1..L /\ (k - d) + 1 \in 1..L OBVIOUS
    <2>2. r[(k - d) + 1].seq = r[k - d].seq + 1 BY <1>1, <2>1 DEF Following
    <2>3. (k - d) + d = k /\ ((k - d) + 1) + d = k + 1 OBVIOUS
    <2>. QED BY <2>1, <2>2, <2>3
<1>2. ASSUME Following(q, i + d, j + d), NEW k \in i..(j - 1)
      PROVE  r[k + 1].seq = r[k].seq + 1
  BY <1>2 DEF Following
<1>3. ASSUME NEW m, Alone(r, m, i, j), NEW k \in (i + d)..(j + d) PROVE q[k].m # m BY <1>3 DEF Alone
<1>4. ASSUME NEW m, Alone(q, m, i + d, j + d), NEW k \in i..j PROVE r[k].m # m BY <1>4 DEF Alone
<1>5. Following(r, i, j) <=> Following(q, i + d, j + d) BY <1>1, <1>2 DEF Following
<1>6. ASSUME NEW m PROVE Alone(r, m, i, j) <=> Alone(q, m, i + d, j + d) BY <1>3, <1>4 DEF Alone
<1>. QED BY <1>5, <1>6

\* A stretch without a hole ends with two numbers one after the other.
LEMMA LastStep ==
    ASSUME NEW q, NEW i \in Nat, NEW j \in Nat, i <= j, Following(q, i, j + 1)
    PROVE  Following(q, i, j) /\ q[j + 1].seq = q[j].seq + 1
BY DEF Following

\* A frame behind the others.
LEMMA OneMore ==
    ASSUME NEW q, NEW r, NEW f, Longer(r, q, f),
           NEW n, NEW n2, NEW h, NEW h2, Carries(f, n, n2, h, h2),
           Below(q, n), PairsFit(q), EndFits(q, n, h)
    PROVE  PairsFit(r) /\ EndFits(r, n2, h2)
<1>. DEFINE L == Len(q)
<1>0. /\ L \in Nat /\ L = Len(q) /\ Len(r) = L + 1 /\ r[L + 1] = f
      /\ \A k \in 1..L : r[k] = q[k]
      /\ \A k \in 1..L : q[k] \in SocketFrames /\ q[k].seq <= n
      /\ f \in SocketFrames /\ n \in Nat /\ n2 = n + 1 /\ f.seq = n2
      /\ h \in [Markets -> Nat] /\ h2 = [h EXCEPT ![f.m] = f.at]
      /\ f.t = "delta" => f.at = h[f.m] + 1
  BY DEF Longer, Below, Carries
<1>. HIDE DEF L
<1>. USE <1>0
<1>1. \A i \in 1..(L + 1), j \in 0..L :
          /\ Following(r, i, j) <=> Following(q, i, j)
          /\ \A m : Alone(r, m, i, j) <=> Alone(q, m, i, j)
    <2>1. \A k \in 1..L : r[k] = q[k + 0] OBVIOUS
    <2>2. \A i \in 1..(L + 1), j \in 0..L :
              /\ Following(r, i, j) <=> Following(q, i + 0, j + 0)
              /\ \A m : Alone(r, m, i, j) <=> Alone(q, m, i + 0, j + 0)
      BY <2>1, Shifted
    <2>3. \A i \in 1..(L + 1), j \in 0..L : i + 0 = i /\ j + 0 = j OBVIOUS
    <2>. QED BY <2>2, <2>3
<1>2. ASSUME NEW i \in 1..(L + 1), NEW j \in 1..(L + 1),
             i < j, r[j].t = "delta", r[i].m = r[j].m,
             Following(r, i, j), Alone(r, r[j].m, i + 1, j - 1)
      PROVE  r[j].at = r[i].at + 1
    <2>1. CASE j <= L BY <1>1, <1>2, <2>1 DEF PairsFit
    <2>2. CASE j = L + 1
        <3>1. i \in 1..L /\ L \in 1..L /\ r[i] = q[i] /\ r[L] = q[L] /\ q[L].seq \in Nat
          BY <1>2, <2>2 DEF SocketFrames
        <3>2. Following(r, i, L) /\ r[L + 1].seq = r[L].seq + 1
            <4>1. i \in Nat /\ i <= L /\ Following(r, i, L + 1) BY <1>2, <2>2, <3>1
            <4>. QED BY <4>1, LastStep
        <3>7. q[L].seq = n BY <3>1, <3>2
        <3>3. Following(q, i, L) BY <1>1, <3>1, <3>2
        <3>4. Alone(r, q[i].m, i + 1, L) BY <1>2, <2>2, <3>1
        <3>5. Alone(q, q[i].m, i + 1, L) BY <1>1, <3>1, <3>4
        <3>6. h[q[i].m] = q[i].at BY <3>1, <3>2, <3>3, <3>5, <3>7 DEF EndFits
        <3>. QED BY <1>2, <2>2, <3>1, <3>6
    <2>. QED BY <2>1, <2>2
<1>3. ASSUME NEW i \in 1..(L + 1), Alone(r, r[i].m, i + 1, L + 1),
             Following(r, i, L + 1)
      PROVE  h2[r[i].m] = r[i].at
    <2>1. CASE i = L + 1 BY <2>1 DEF SocketFrames
    <2>2. CASE i <= L
        <3>1. i \in 1..L /\ L \in 1..L /\ r[i] = q[i] /\ r[L] = q[L] /\ q[L].seq \in Nat
              /\ q[i].m \in Markets
          BY <2>2 DEF SocketFrames
        <3>2. Following(r, i, L) /\ r[L + 1].seq = r[L].seq + 1
            <4>1. i \in Nat /\ i <= L /\ Following(r, i, L + 1) BY <1>3, <3>1
            <4>. QED BY <4>1, LastStep
        <3>7. q[L].seq = n BY <3>1, <3>2
        <3>3. Following(q, i, L) BY <1>1, <3>1, <3>2
        <3>4. Alone(r, q[i].m, i + 1, L) /\ r[L + 1].m # q[i].m BY <1>3, <3>1 DEF Alone
        <3>5. Alone(q, q[i].m, i + 1, L) BY <1>1, <3>1, <3>4
        <3>6. h[q[i].m] = q[i].at BY <3>1, <3>2, <3>3, <3>5, <3>7 DEF EndFits
        <3>. QED BY <3>1, <3>4, <3>6
    <2>. QED BY <2>1, <2>2
<1>4. PairsFit(r) BY <1>2 DEF PairsFit
<1>5. EndFits(r, n2, h2) BY <1>3 DEF EndFits
<1>. QED BY <1>4, <1>5

\* A frame that comes twice: nothing leads over the first of the two.
LEMMA OneAgain ==
    ASSUME NEW q, NEW r, NEW f, Longer(r, q, f), Len(q) # 0, f = q[Len(q)],
           NEW n \in Nat, f.seq = n, NEW h, h[f.m] = f.at,
           PairsFit(q)
    PROVE  PairsFit(r) /\ EndFits(r, n, h)
<1>. DEFINE L == Len(q)
<1>0. /\ L \in Nat /\ L = Len(q) /\ Len(r) = L + 1 /\ r[L + 1] = f
      /\ \A k \in 1..L : r[k] = q[k]
      /\ L # 0 /\ f = q[L]
  BY DEF Longer
<1>. HIDE DEF L
<1>. USE <1>0
<1>1. \A i \in 1..(L + 1), j \in 0..L :
          /\ Following(r, i, j) <=> Following(q, i, j)
          /\ \A m : Alone(r, m, i, j) <=> Alone(q, m, i, j)
    <2>1. \A k \in 1..L : r[k] = q[k + 0] OBVIOUS
    <2>2. \A i \in 1..(L + 1), j \in 0..L :
              /\ Following(r, i, j) <=> Following(q, i + 0, j + 0)
              /\ \A m : Alone(r, m, i, j) <=> Alone(q, m, i + 0, j + 0)
      BY <2>1, Shifted
    <2>3. \A i \in 1..(L + 1), j \in 0..L : i + 0 = i /\ j + 0 = j OBVIOUS
    <2>. QED BY <2>2, <2>3
<1>2. ASSUME NEW i \in 1..L PROVE ~Following(r, i, L + 1)
    <2>1. L \in 1..L /\ r[L] = q[L] OBVIOUS
    <2>2. r[L].seq = n /\ r[L + 1].seq = n BY <2>1
    <2>3. n # n + 1 OBVIOUS
    <2>. QED BY <2>2, <2>3, LastStep
<1>3. ASSUME NEW i \in 1..(L + 1), NEW j \in 1..(L + 1),
             i < j, r[j].t = "delta", r[i].m = r[j].m,
             Following(r, i, j), Alone(r, r[j].m, i + 1, j - 1)
      PROVE  r[j].at = r[i].at + 1
    <2>1. i \in 1..L /\ j \in 1..L BY <1>2, <1>3
    <2>2. Following(q, i, j) BY <1>1, <1>3, <2>1
    <2>3. Alone(q, r[j].m, i + 1, j - 1) BY <1>1, <1>3, <2>1
    <2>4. r[i] = q[i] /\ r[j] = q[j] BY <2>1
    <2>. QED BY <1>3, <2>1, <2>2, <2>3, <2>4 DEF PairsFit
<1>4. ASSUME NEW i \in 1..(L + 1), Following(r, i, L + 1) PROVE h[r[i].m] = r[i].at BY <1>2, <1>4
<1>5. PairsFit(r) BY <1>3 DEF PairsFit
<1>6. EndFits(r, n, h) BY <1>4 DEF EndFits
<1>. QED BY <1>5, <1>6

\* The first frame is read.
LEMMA FirstRead ==
    ASSUME NEW q, NEW r, Shorter(r, q), NEW n, NEW h, PairsFit(q), EndFits(q, n, h)
    PROVE  PairsFit(r) /\ EndFits(r, n, h)
<1>. DEFINE L == Len(r)
<1>9. /\ L \in Nat /\ L = Len(r) /\ Len(q) = L + 1
      /\ \A k \in 1..L : r[k] = q[k + 1]
  BY DEF Shorter
<1>. HIDE DEF L
<1>. USE <1>9
<1>0. \A i \in 1..(L + 1), j \in 0..L :
          /\ Following(r, i, j) <=> Following(q, i + 1, j + 1)
          /\ \A m : Alone(r, m, i, j) <=> Alone(q, m, i + 1, j + 1)
  BY Shifted
<1>1. ASSUME NEW i \in 1..L, NEW j \in 1..L,
             i < j, r[j].t = "delta", r[i].m = r[j].m,
             Following(r, i, j), Alone(r, r[j].m, i + 1, j - 1)
      PROVE  r[j].at = r[i].at + 1
    <2>1. Following(q, i + 1, j + 1) BY <1>0, <1>1
    <2>2. Alone(q, r[j].m, (i + 1) + 1, (j - 1) + 1) BY <1>0, <1>1
    <2>3. /\ r[i] = q[i + 1] /\ r[j] = q[j + 1] /\ (j - 1) + 1 = (j + 1) - 1
          /\ i + 1 \in 1..Len(q) /\ j + 1 \in 1..Len(q) /\ i + 1 < j + 1
      BY <1>1
    <2>4. Alone(q, q[j + 1].m, (i + 1) + 1, (j + 1) - 1) /\ q[j + 1].t = "delta"
          /\ q[i + 1].m = q[j + 1].m
      BY <1>1, <2>2, <2>3
    <2>5. q[j + 1].at = q[i + 1].at + 1 BY <2>1, <2>3, <2>4 DEF PairsFit
    <2>. QED BY <2>3, <2>5
<1>2. ASSUME NEW i \in 1..L, Alone(r, r[i].m, i + 1, L), Following(r, i, L), r[L].seq = n
      PROVE  h[r[i].m] = r[i].at
    <2>1. Following(q, i + 1, L + 1) BY <1>0, <1>2
    <2>2. Alone(q, r[i].m, (i + 1) + 1, L + 1)
        <3>1. i + 1 \in 1..(L + 1) /\ L \in 0..L OBVIOUS
        <3>. QED BY <1>0, <1>2, <3>1
    <2>3. r[i] = q[i + 1] /\ r[L] = q[L + 1] /\ i + 1 \in 1..(L + 1) OBVIOUS
    <2>. QED BY <1>2, <2>1, <2>2, <2>3 DEF EndFits
<1>3. PairsFit(r) BY <1>1 DEF PairsFit
<1>4. EndFits(r, n, h) BY <1>2 DEF EndFits
<1>. QED BY <1>3, <1>4

\* The frames by their number, in a queue with one more.
LEMMA ReachedSame ==
    ASSUME NEW q, NEW r, NEW L \in Nat, Begins(r, q, L), NEW c, NEW j \in 0..L
    PROVE  Reached(r, c, j) <=> Reached(q, c, j)
BY DEF Begins, Reached

LEMMA AloneSame ==
    ASSUME NEW q, NEW r, NEW L \in Nat, Begins(r, q, L), NEW m, NEW j \in 0..L
    PROVE  Alone(r, m, 1, j) <=> Alone(q, m, 1, j)
BY DEF Begins, Alone

\* A kept book, and a frame behind the others.
LEMMA KeptOneMore ==
    ASSUME NEW q, NEW r, NEW f, Longer(r, q, f),
           NEW c \in Nat, NEW n \in Nat, NEW n2, n2 = n + 1, f.seq = n2,
           NEW m, NEW g, NEW h, f.m = m /\ f.t = "delta" => f.at = h + 1,
           NEW h2, f.m # m => h2 = h,
           NextFits(q, c, m, g), HeadFits(q, c, m, g, n, h)
    PROVE  NextFits(r, c, m, g) /\ HeadFits(r, c, m, g, n2, h2)
<1>. DEFINE L == Len(q)
<1>0. /\ L \in Nat /\ L = Len(q) /\ Len(r) = L + 1 /\ r[L + 1] = f
      /\ \A k \in 1..L : r[k] = q[k]
  BY DEF Longer
<1>. HIDE DEF L
<1>. USE <1>0
<1>1. /\ \A j \in 0..L : Reached(r, c, j) <=> Reached(q, c, j)
      /\ \A j \in 0..L : Alone(r, m, 1, j) <=> Alone(q, m, 1, j)
      /\ Reached(r, c, L + 1) => Reached(r, c, L) /\ r[L + 1].seq = c + (L + 1)
    <2>0. Begins(r, q, L) BY DEF Begins
    <2>1. ASSUME NEW j \in 0..L PROVE Reached(r, c, j) <=> Reached(q, c, j) BY <2>0, ReachedSame
    <2>2. ASSUME NEW j \in 0..L PROVE Alone(r, m, 1, j) <=> Alone(q, m, 1, j) BY <2>0, AloneSame
    <2>3. ASSUME Reached(r, c, L + 1)
          PROVE  Reached(r, c, L) /\ r[L + 1].seq = c + (L + 1)
      BY <2>3 DEF Reached
    <2>. QED BY <2>1, <2>2, <2>3
<1>2. ASSUME Reached(r, c, L + 1), Alone(r, m, 1, L) PROVE h = g BY <1>1, <1>2 DEF HeadFits
<1>3. ASSUME NEW k \in 1..(L + 1), r[k].m = m, r[k].t = "delta",
             Reached(r, c, k), Alone(r, m, 1, k - 1)
      PROVE  r[k].at = g + 1
    <2>1. CASE k = L + 1 BY <1>3, <2>1, <1>2
    <2>2. CASE k # L + 1 BY <2>2, <1>1, <1>3 DEF NextFits
    <2>. QED BY <2>1, <2>2
<1>4. ASSUME Reached(r, c, L + 1), Alone(r, m, 1, L + 1) PROVE h2 = g BY <1>4, <1>2 DEF Alone
<1>5. NextFits(r, c, m, g) BY <1>3 DEF NextFits
<1>6. HeadFits(r, c, m, g, n2, h2) BY <1>4 DEF HeadFits
<1>. QED BY <1>5, <1>6

\* A kept book, and a frame that comes twice.
LEMMA KeptOneAgain ==
    ASSUME NEW q, NEW r, NEW f, Longer(r, q, f), Len(q) # 0, f = q[Len(q)],
           NEW c \in Nat, NEW n \in Nat, f.seq = n,
           NEW m, NEW g, NEW h, NextFits(q, c, m, g)
    PROVE  NextFits(r, c, m, g) /\ HeadFits(r, c, m, g, n, h)
<1>. DEFINE L == Len(q)
<1>0. /\ L \in Nat /\ L = Len(q) /\ Len(r) = L + 1 /\ r[L + 1] = f
      /\ \A k \in 1..L : r[k] = q[k]
      /\ L # 0 /\ f = q[L]
  BY DEF Longer
<1>. HIDE DEF L
<1>. USE <1>0
<1>1. /\ \A j \in 0..L : Reached(r, c, j) <=> Reached(q, c, j)
      /\ \A j \in 0..L : Alone(r, m, 1, j) <=> Alone(q, m, 1, j)
      /\ Reached(r, c, L + 1) => Reached(r, c, L) /\ r[L + 1].seq = c + (L + 1)
    <2>0. Begins(r, q, L) BY DEF Begins
    <2>1. ASSUME NEW j \in 0..L PROVE Reached(r, c, j) <=> Reached(q, c, j) BY <2>0, ReachedSame
    <2>2. ASSUME NEW j \in 0..L PROVE Alone(r, m, 1, j) <=> Alone(q, m, 1, j) BY <2>0, AloneSame
    <2>3. ASSUME Reached(r, c, L + 1)
          PROVE  Reached(r, c, L) /\ r[L + 1].seq = c + (L + 1)
      BY <2>3 DEF Reached
    <2>. QED BY <2>1, <2>2, <2>3
<1>2. ~Reached(r, c, L + 1)
    <2>1. SUFFICES ASSUME Reached(r, c, L + 1) PROVE FALSE OBVIOUS
    <2>2. L \in 1..L OBVIOUS
    <2>3. r[L].seq = c + L /\ r[L] = q[L] BY <1>1, <2>1, <2>2 DEF Reached
    <2>4. n = c + L /\ n = c + (L + 1) BY <1>1, <2>1, <2>3
    <2>. QED BY <2>4
<1>3. ASSUME NEW k \in 1..(L + 1), r[k].m = m, r[k].t = "delta",
             Reached(r, c, k), Alone(r, m, 1, k - 1)
      PROVE  r[k].at = g + 1
  BY <1>2, <1>3, <1>1 DEF NextFits
<1>4. NextFits(r, c, m, g) BY <1>3 DEF NextFits
<1>5. HeadFits(r, c, m, g, n, h) BY <1>2 DEF HeadFits
<1>. QED BY <1>4, <1>5

\* A kept book, and a frame that is lost: no frame in the queue is the last.
LEMMA KeptNoneMore ==
    ASSUME NEW q, Len(q) \in Nat, NEW c \in Nat, NEW n \in Nat, NEW n2, n2 = n + 1, c <= n,
           Below(q, n), NEW m, NEW g, NEW h
    PROVE  HeadFits(q, c, m, g, n2, h)
<1>. DEFINE L == Len(q)
<1>0. L \in Nat /\ L = Len(q) /\ \A k \in 1..L : q[k] \in SocketFrames /\ q[k].seq <= n BY DEF Below
<1>. HIDE DEF L
<1>. USE <1>0
<1>1. SUFFICES ASSUME Reached(q, c, L), n + 1 = c + L PROVE FALSE BY DEF HeadFits
<1>2. L \in 1..L BY <1>1
<1>3. q[L].seq = c + L /\ q[L].seq <= n BY <1>1, <1>2 DEF Reached
<1>. QED BY <1>1, <1>3

\* A kept book, and the first frame, of another market, that is read.
LEMMA KeptRead ==
    ASSUME NEW q, NEW r, Shorter(r, q), NEW c \in Nat, NEW n \in Nat, NEW c2, c2 = c + 1,
           NEW m, q[1].m # m, q[1].seq = c2, NEW g, NEW h,
           NextFits(q, c, m, g), HeadFits(q, c, m, g, n, h)
    PROVE  NextFits(r, c2, m, g) /\ HeadFits(r, c2, m, g, n, h)
<1>. DEFINE L == Len(r)
<1>9. /\ L \in Nat /\ L = Len(r) /\ Len(q) = L + 1
      /\ \A k \in 1..L : r[k] = q[k + 1]
  BY DEF Shorter
<1>. HIDE DEF L
<1>. USE <1>9
<1>1. ASSUME NEW j \in 0..L, Reached(r, c + 1, j) PROVE Reached(q, c, j + 1)
    <2>1. SUFFICES ASSUME NEW k \in 1..(j + 1) PROVE q[k].seq = c + k BY DEF Reached
    <2>2. CASE k = 1 BY <2>2
    <2>3. CASE k # 1
        <3>1. k - 1 \in 1..j /\ k - 1 \in 1..L /\ (k - 1) + 1 = k BY <2>3
        <3>2. r[k - 1].seq = (c + 1) + (k - 1) /\ r[k - 1] = q[k] BY <1>1, <3>1 DEF Reached
        <3>. QED BY <3>2
    <2>. QED BY <2>2, <2>3
<1>2. ASSUME NEW j \in 0..L, Alone(r, m, 1, j) PROVE Alone(q, m, 1, j + 1)
    <2>1. SUFFICES ASSUME NEW k \in 1..(j + 1) PROVE q[k].m # m BY DEF Alone
    <2>2. CASE k = 1 BY <2>2
    <2>3. CASE k # 1
        <3>1. k - 1 \in 1..j /\ k - 1 \in 1..L /\ (k - 1) + 1 = k BY <2>3
        <3>. QED BY <1>2, <3>1 DEF Alone
    <2>. QED BY <2>2, <2>3
<1>3. ASSUME NEW k \in 1..L, r[k].m = m, r[k].t = "delta",
             Reached(r, c + 1, k), Alone(r, m, 1, k - 1)
      PROVE  r[k].at = g + 1
  BY <1>1, <1>2, <1>3 DEF NextFits
<1>4. ASSUME Reached(r, c + 1, L), n = (c + 1) + L, Alone(r, m, 1, L) PROVE h = g
    <2>1. L \in 0..L /\ n = c + (L + 1) BY <1>4
    <2>2. Reached(q, c, L + 1) /\ Alone(q, m, 1, L + 1) BY <1>1, <1>2, <1>4, <2>1
    <2>. QED BY <2>1, <2>2 DEF HeadFits
<1>5. NextFits(r, c2, m, g) BY <1>3 DEF NextFits
<1>6. HeadFits(r, c2, m, g, n, h) BY <1>4 DEF HeadFits
<1>. QED BY <1>5, <1>6

\* The book of the market whose first frame is read.
LEMMA ShownRead ==
    ASSUME NEW q, NEW r, Shorter(r, q), NEW n \in Nat, NEW h,
           NEW f, f = q[1], f.seq \in Nat,
           PairsFit(q), EndFits(q, n, h)
    PROVE  /\ NextFits(r, f.seq, f.m, f.at)
           /\ HeadFits(r, f.seq, f.m, f.at, n, h[f.m])
<1>. DEFINE L == Len(r)
<1>9. /\ L \in Nat /\ L = Len(r) /\ Len(q) = L + 1
      /\ \A k \in 1..L : r[k] = q[k + 1]
  BY DEF Shorter
<1>. HIDE DEF L
<1>. USE <1>9
<1>. DEFINE c == f.seq
            m == f.m
            g == f.at
<1>0. c \in Nat /\ f.seq = c /\ f.m = m /\ f.at = g /\ q[1].seq = c /\ q[1].m = m /\ q[1].at = g OBVIOUS
<1>. HIDE DEF c, m, g
<1>1. ASSUME NEW j \in 0..L, Reached(r, c, j) PROVE Following(q, 1, j + 1)
    <2>1. SUFFICES ASSUME NEW k \in 1..((j + 1) - 1) PROVE q[k + 1].seq = q[k].seq + 1 BY DEF Following
    <2>0. k \in 1..j OBVIOUS
    <2>2. k \in 1..L /\ r[k] = q[k + 1] /\ r[k].seq = c + k BY <1>1, <2>0 DEF Reached
    <2>3. CASE k = 1 BY <1>0, <2>2, <2>3
    <2>4. CASE k # 1
        <3>1. k - 1 \in 1..j /\ k - 1 \in 1..L /\ (k - 1) + 1 = k BY <2>0, <2>4
        <3>2. r[k - 1] = q[k] /\ r[k - 1].seq = c + (k - 1) BY <1>1, <3>1 DEF Reached
        <3>. QED BY <1>0, <2>2, <3>2
    <2>. QED BY <2>3, <2>4
<1>2. ASSUME NEW j \in 0..L, Alone(r, m, 1, j) PROVE Alone(q, m, 2, j + 1)
    <2>1. SUFFICES ASSUME NEW k \in 2..(j + 1) PROVE q[k].m # m BY DEF Alone
    <2>2. k - 1 \in 1..j /\ k - 1 \in 1..L /\ (k - 1) + 1 = k OBVIOUS
    <2>. QED BY <1>2, <2>2 DEF Alone
<1>3. ASSUME NEW k \in 1..L, r[k].m = m, r[k].t = "delta",
             Reached(r, c, k), Alone(r, m, 1, k - 1)
      PROVE  r[k].at = g + 1
    <2>1. /\ k \in 0..L /\ k - 1 \in 0..L /\ k + 1 \in 1..(L + 1) /\ (k + 1) - 1 = (k - 1) + 1
          /\ 1 \in 1..(L + 1) /\ 1 + 1 = 2
        OBVIOUS
    <2>2. Following(q, 1, k + 1) /\ Alone(q, m, 2, (k + 1) - 1) /\ r[k] = q[k + 1] BY <1>1, <1>2, <1>3, <2>1
    <2>. QED BY <1>0, <1>3, <2>1, <2>2 DEF PairsFit
<1>4. ASSUME Reached(r, c, L), n = c + L, Alone(r, m, 1, L) PROVE h[m] = g
    <2>1. L \in 0..L /\ 1 \in 1..(L + 1) /\ 1 + 1 = 2 OBVIOUS
    <2>2. Following(q, 1, L + 1) /\ Alone(q, m, 2, L + 1) BY <1>1, <1>2, <1>4, <2>1
    <2>3. q[L + 1].seq = n
        <3>1. CASE L = 0 BY <1>0, <1>4, <3>1
        <3>2. CASE L # 0 BY <3>2, <1>4 DEF Reached
        <3>. QED BY <3>1, <3>2
    <2>. QED BY <1>0, <2>1, <2>2, <2>3 DEF EndFits
<1>5. NextFits(r, c, m, g) BY <1>3 DEF NextFits
<1>6. HeadFits(r, c, m, g, n, h[m]) BY <1>4 DEF HeadFits
<1>. QED BY <1>0, <1>5, <1>6

\* The socket starts closed.
LEMMA SocketStarts == Socket!Init => SocketInv
<1>. SUFFICES ASSUME Socket!Init PROVE SocketInv OBVIOUS
<1>1. WireTypes BY DEF Socket!Init, Socket!Nothing, Socket!NoSeq, WireTypes
<1>2. SocketTypes
  BY DEF Socket!Init, Socket!NoBook, Socket!NoEpisode, Socket!NoSeq, SocketTypes, MarketBooks, MarketEpisodes,
    Endings
<1>3. SocketWire BY EmptyFits DEF Socket!Init, Socket!NoSeq, SocketWire
<1>4. KeptInv BY DEF Socket!Init, Socket!NoBook, KeptInv
<1>5. OwnedInv BY DEF Socket!Init, OwnedInv
<1>6. NoneInv BY DEF Socket!Init, NoneInv
<1>. QED BY <1>1, <1>2, <1>3, <1>4, <1>5, <1>6 DEF SocketInv

\* Nothing happens.
LEMMA SocketStutters == SocketInv /\ UNCHANGED Socket!vars => SocketInv'
<1>. SUFFICES ASSUME SocketInv, UNCHANGED Socket!vars PROVE SocketInv' OBVIOUS
<1>. USE DEF Socket!vars, Socket!venueVars
<1>1. WireTypes' /\ SocketTypes' BY DEF SocketInv, WireTypes, SocketTypes
<1>2. SocketWire' BY DEF SocketInv, SocketWire
<1>3. KeptInv'
    <2>1. ASSUME NEW m \in symbols, book[m].ok PROVE Kept(m)' BY <2>1 DEF SocketInv, KeptInv, Kept
    <2>. QED BY <2>1 DEF KeptInv
<1>4. OwnedInv' /\ NoneInv' BY DEF SocketInv, OwnedInv, NoneInv, Socket!Open
<1>. QED BY <1>1, <1>2, <1>3, <1>4 DEF SocketInv

\* An episode with one of its parts replaced.
LEMMA EpisodeWith ==
    ASSUME NEW e \in MarketEpisodes
    PROVE  /\ \A x \in Seq(Nat) : [e EXCEPT !.buf = x] \in MarketEpisodes
           /\ \A x \in Nat : [e EXCEPT !.over = x] \in MarketEpisodes
           /\ \A x \in Nat : [e EXCEPT !.sess = x] \in MarketEpisodes
           /\ \A x \in Endings : [e EXCEPT !.end = x] \in MarketEpisodes
BY DEF MarketEpisodes

\* What it leaves.
LEMMA EpisodeStill ==
    ASSUME NEW e \in MarketEpisodes
    PROVE  /\ \A x : [e EXCEPT !.buf = x].sess = e.sess /\ [e EXCEPT !.buf = x].end = e.end
           /\ \A x : [e EXCEPT !.over = x].sess = e.sess /\ [e EXCEPT !.over = x].end = e.end
           /\ \A x : [e EXCEPT !.sess = x].sess = x /\ [e EXCEPT !.sess = x].end = e.end
           /\ \A x : [e EXCEPT !.end = x].sess = e.sess /\ [e EXCEPT !.end = x].end = x
BY DEF MarketEpisodes

LEMMA EmptyBuffer == <<>> \in Seq(Nat)
OBVIOUS

LEMMA EpisodeTypes ==
    /\ Socket!NoEpisode \in MarketEpisodes /\ Socket!NoEpisode.end = "NONE"
    /\ sess \in Nat => Socket!NewEpisode \in MarketEpisodes /\ Socket!NewEpisode.sess = sess
<1>1. Socket!NoEpisode \in MarketEpisodes /\ Socket!NoEpisode.end = "NONE"
  BY EmptyBuffer DEF Socket!NoEpisode, MarketEpisodes, Endings
<1>2. ASSUME sess \in Nat PROVE Socket!NewEpisode \in MarketEpisodes
         /\ Socket!NewEpisode.sess = sess
    <2>. DEFINE e1 == [Socket!NoEpisode EXCEPT !.sess = sess]
    <2>1. e1 \in MarketEpisodes /\ e1.sess = sess BY <1>1, <1>2, EpisodeWith, EpisodeStill
    <2>. HIDE DEF e1
    <2>2. [e1 EXCEPT !.end = "OPEN"] \in MarketEpisodes
             /\ [e1 EXCEPT !.end = "OPEN"].sess = sess
      BY <2>1, EpisodeWith, EpisodeStill DEF Endings
    <2>. QED BY <2>2 DEF Socket!NewEpisode, e1
<1>. QED BY <1>1, <1>2

\* Without a book that is kept there is nothing to keep.
LEMMA NothingKept ==
    (\A m \in symbols' : ~book'[m].ok) => KeptInv'
BY DEF KeptInv

\* A socket that is closed carries nothing.
LEMMA ClosedWire ==
    queue' = <<>> /\ place' # "read" /\ (place' = "down" => cursor' = Socket!NoSeq
       /\ phys' = 0) => SocketWire'
<1>. SUFFICES ASSUME queue' = <<>>, place' # "read", place' = "down"
        => cursor' = Socket!NoSeq /\ phys' = 0
              PROVE SocketWire'
    OBVIOUS
<1>1. Len(queue') = 0 OBVIOUS
<1>2. PairsFit(queue') /\ EndFits(queue', phys', head') BY EmptyFits
<1>. QED BY <1>1, <1>2 DEF SocketWire

\* What is lost has the type of a book.
LEMMA LostBook ==
    ASSUME NEW b \in MarketBooks
    PROVE  Socket!Lost(b) \in MarketBooks /\ ~Socket!Lost(b).ok
<1>. DEFINE b1 == [b EXCEPT !.ok = FALSE]
            b2 == [b1 EXCEPT !.seq = Socket!NoSeq]
            b3 == [b2 EXCEPT !.has = {}]
<1>1. b1 \in MarketBooks /\ ~b1.ok BY DEF MarketBooks
<1>. HIDE DEF b1
<1>2. b2 \in MarketBooks /\ ~b2.ok BY <1>1 DEF MarketBooks, Socket!NoSeq
<1>. HIDE DEF b2
<1>3. b3 \in MarketBooks /\ ~b3.ok BY <1>2 DEF MarketBooks
<1>4. Socket!Lost(b) = b3 BY DEF Socket!Lost, b1, b2
<1>. QED BY <1>3, <1>4

\* Every routed market loses its book.
LEMMA AllLost ==
    SocketTypes /\ Socket!MarkDisconnected
    => /\ book' \in [Markets -> MarketBooks] /\ live' \in [Markets -> BOOLEAN]
       /\ \A m \in symbols : ~book'[m].ok
<1>. SUFFICES ASSUME SocketTypes, Socket!MarkDisconnected
              PROVE  /\ book' \in [Markets -> MarketBooks] /\ live' \in [Markets -> BOOLEAN]
                     /\ \A m \in symbols : ~book'[m].ok
    OBVIOUS
<1>1. ASSUME NEW m \in Markets
      PROVE  /\ [Socket!Lost(book[m]) EXCEPT !.conn = FALSE] \in MarketBooks
             /\ ~[Socket!Lost(book[m]) EXCEPT !.conn = FALSE].ok
    <2>1. Socket!Lost(book[m]) \in MarketBooks /\ ~Socket!Lost(book[m]).ok BY LostBook DEF SocketTypes
    <2>. QED BY <2>1 DEF MarketBooks
<1>2. book' \in [Markets -> MarketBooks] BY <1>1 DEF SocketTypes, Socket!MarkDisconnected
<1>3. live' \in [Markets -> BOOLEAN] BY DEF SocketTypes, Socket!MarkDisconnected
<1>4. ASSUME NEW m \in symbols PROVE ~book'[m].ok BY <1>1, <1>4 DEF SocketTypes, Socket!MarkDisconnected
<1>. QED BY <1>2, <1>3, <1>4

\* A new session: the socket is closed, and nothing is known of it.
LEMMA SessionStarts ==
    SocketInv /\ Socket!NewSession
    => /\ sess' \in Nat /\ place' = "down" /\ cursor' = Socket!NoSeq /\ phys' = 0 /\ queue' = <<>>
       /\ src' = "eof" /\ got' \in [Markets -> Nat]
       /\ SocketWire' /\ OwnedInv'
<1>. SUFFICES ASSUME SocketInv, Socket!NewSession
              PROVE  /\ sess' \in Nat /\ place' = "down" /\ cursor' = Socket!NoSeq /\ phys' = 0
                     /\ queue' = <<>> /\ src' = "eof" /\ got' \in [Markets -> Nat]
                     /\ SocketWire' /\ OwnedInv'
    OBVIOUS
<1>1. /\ sess' \in Nat /\ place' = "down" /\ cursor' = Socket!NoSeq /\ phys' = 0 /\ queue' = <<>>
      /\ src' = "eof" /\ got' \in [Markets -> Nat]
  BY DEF Socket!NewSession, SocketInv, SocketTypes, Socket!Nothing
<1>2. SocketWire' BY <1>1, ClosedWire
<1>3. OwnedInv' BY <1>1 DEF OwnedInv
<1>. QED BY <1>1, <1>2, <1>3

\* What a frame sent once leaves, in terms of the queue before and after.
Sent(f) ==
    /\ place = "read" /\ f \in SocketFrames /\ f.seq = phys + 1
    /\ f.at >= head[f.m] /\ (f.t = "delta" => f.at = head[f.m] + 1)
    /\ head' = [head EXCEPT ![f.m] = f.at]
    /\ phys' = phys + 1
    /\ UNCHANGED <<symbols, sess, place, cursor, book, live, ep, got, routed>>

\* What it leaves alone.
LEMMA SentLeaves ==
    ASSUME SocketInv, NEW f, Sent(f), src' \in {"open", "eof", "broken"},
       queue' \in Seq(SocketFrames)
    PROVE  WireTypes' /\ SocketTypes' /\ OwnedInv' /\ NoneInv'
BY DEF SocketInv, WireTypes, Sent, SocketFrames, SocketTypes, OwnedInv, NoneInv, Socket!Open

\* The parts of a kept book that a frame sent does not reach.
LEMMA SentKeeps ==
    ASSUME SocketInv, NEW f, Sent(f), NEW m \in symbols, book'[m].ok
    PROVE  /\ Kept(m) /\ book' = book /\ got' = got
           /\ NextFits(queue', cursor, m, got[m])
              /\ HeadFits(queue', cursor, m, got[m], phys', head'[m]) => Kept(m)'
<1>1. book' = book /\ place' = place /\ cursor' = cursor /\ live' = live /\ ep' = ep
         /\ got' = got
  BY DEF Sent
<1>2. Kept(m) BY <1>1 DEF SocketInv, KeptInv
<1>3. ASSUME NextFits(queue', cursor, m, got[m]),
             HeadFits(queue', cursor, m, got[m], phys', head'[m])
      PROVE  Kept(m)'
  BY <1>1, <1>2, <1>3 DEF Kept
<1>. QED BY <1>1, <1>2, <1>3

\* A frame put behind the queue.
LEMMA Appended ==
    ASSUME NEW q \in Seq(SocketFrames), NEW f \in SocketFrames
    PROVE  Longer(Append(q, f), q, f) /\ Append(q, f) \in Seq(SocketFrames)
BY DEF Longer

\* A frame that joins the queue once.
LEMMA SentOnce ==
    ASSUME SocketInv, NEW f, Sent(f), NEW r, Longer(r, queue, f)
    PROVE  /\ PairsFit(r) /\ EndFits(r, phys', head')
           /\ \A m \in symbols : book[m].ok =>
                 /\ NextFits(r, cursor, m, got[m])
                 /\ HeadFits(r, cursor, m, got[m], phys', head'[m])
<1>1. /\ phys \in Nat /\ head \in [Markets -> Nat] /\ Below(queue, phys)
      /\ PairsFit(queue) /\ EndFits(queue, phys, head)
  BY DEF SocketInv, WireTypes, SocketWire, Below
<1>2. /\ f \in SocketFrames /\ f.seq = phys' /\ (f.t = "delta" => f.at = head[f.m] + 1)
      /\ f.m \in Markets /\ f.at \in Nat /\ phys' = phys + 1
      /\ head' = [head EXCEPT ![f.m] = f.at]
  BY DEF Sent, SocketFrames
<1>3. PairsFit(r) /\ EndFits(r, phys', head')
    <2>1. Carries(f, phys, phys', head, head') BY <1>1, <1>2 DEF Carries
    <2>. QED BY <1>1, <2>1, OneMore
<1>4. ASSUME NEW m \in symbols, book[m].ok
      PROVE  /\ NextFits(r, cursor, m, got[m])
             /\ HeadFits(r, cursor, m, got[m], phys', head'[m])
    <2>1. /\ cursor \in Nat /\ NextFits(queue, cursor, m, got[m])
          /\ HeadFits(queue, cursor, m, got[m], phys, head[m])
      BY <1>4 DEF SocketInv, KeptInv, Kept
    <2>2. m \in Markets BY <1>4 DEF SocketInv, SocketTypes
    <2>3. /\ f.m # m => head'[m] = head[m]
          /\ f.m = m /\ f.t = "delta" => f.at = head[m] + 1
      BY <1>1, <1>2, <2>2
    <2>. QED BY <1>1, <1>2, <2>1, <2>3, KeptOneMore
<1>. QED BY <1>3, <1>4

\* Or twice.
LEMMA SentTwice ==
    ASSUME SocketInv, NEW f, Sent(f), NEW q, Longer(q, queue, f), NEW r, Longer(r, q, f)
    PROVE  /\ PairsFit(r) /\ EndFits(r, phys', head')
           /\ \A m \in symbols : book[m].ok =>
                 /\ NextFits(r, cursor, m, got[m])
                 /\ HeadFits(r, cursor, m, got[m], phys', head'[m])
<1>1. /\ PairsFit(q)
      /\ \A m \in symbols : book[m].ok => NextFits(q, cursor, m, got[m])
  BY SentOnce
<1>2. f.seq = phys' /\ phys' \in Nat /\ head'[f.m] = f.at BY DEF Sent, SocketFrames, SocketInv, WireTypes
<1>3. q[Len(q)] = f /\ Len(q) # 0 BY DEF Longer
<1>4. PairsFit(r) /\ EndFits(r, phys', head') BY <1>1, <1>2, <1>3, OneAgain
<1>5. ASSUME NEW m \in symbols, book[m].ok
      PROVE  /\ NextFits(r, cursor, m, got[m])
             /\ HeadFits(r, cursor, m, got[m], phys', head'[m])
  BY <1>1, <1>5, <1>2, <1>3, KeptOneAgain DEF SocketInv, KeptInv, Kept
<1>. QED BY <1>4, <1>5

\* Or is lost, at the venue or before a full queue.
LEMMA SentLost ==
    ASSUME SocketInv, NEW f, Sent(f)
    PROVE  /\ EndFits(queue, phys', head')
           /\ \A m \in symbols : book[m].ok
                 => HeadFits(queue, cursor, m, got[m], phys', head'[m])
<1>1. /\ phys \in Nat /\ phys' = phys + 1 /\ Len(queue) \in Nat /\ Below(queue, phys)
  BY DEF SocketInv, WireTypes, SocketWire, Sent, Below
<1>2. ASSUME NEW k \in 1..Len(queue) PROVE queue[k].seq # phys' BY <1>1 DEF Below, SocketFrames
<1>3. EndFits(queue, phys', head') BY <1>1, <1>2 DEF EndFits
<1>4. ASSUME NEW m \in symbols, book[m].ok
      PROVE  HeadFits(queue, cursor, m, got[m], phys', head'[m])
  BY <1>4, <1>1, KeptNoneMore DEF SocketInv, KeptInv, Kept, SocketWire, Socket!NoSeq
<1>. QED BY <1>3, <1>4

\* Send: a change of the venue, on the socket as it may come.
LEMMA SocketSendStep == SocketInv /\ Socket!Send => SocketInv'
<1>. SUFFICES ASSUME SocketInv, Socket!Send PROVE SocketInv' OBVIOUS
<1>1. PICK m \in Markets, t \in {"delta", "snap"}, went \in {"once", "twice", "lost"},
           at \in 0..MaxSocketChanges :
        LET f == [m |-> m, t |-> t, at |-> at, seq |-> phys + 1]
        IN  /\ place = "read" /\ src = "open" /\ phys < MaxSocketFrames
            /\ at >= head[m] /\ (t = "delta" => at = head[m] + 1)
            /\ head' = [head EXCEPT ![m] = at]
            /\ phys' = phys + 1
            /\ CASE went = "once" -> Socket!Ingress(<<f>>) /\ UNCHANGED troubles
                 [] went = "twice" -> Socket!Ingress(<<f, f>>) /\ Socket!Fault
                 [] OTHER -> UNCHANGED <<queue, src>> /\ Socket!Fault
            /\ UNCHANGED <<symbols, sess, place, cursor, book, live, ep, conf, req, got,
                  routed>>
  BY Zenon DEF Socket!Send
<1>. DEFINE f == [m |-> m, t |-> t, at |-> at, seq |-> phys + 1]
<1>2. phys \in Nat /\ queue \in Seq(SocketFrames) /\ src \in {"open", "eof", "broken"} BY DEF SocketInv, WireTypes
<1>3. at \in Nat BY BooksAssumption
<1>4. f \in SocketFrames BY <1>2, <1>3 DEF SocketFrames
<1>5. Sent(f) BY <1>1, <1>4 DEF Sent
<1>6. \/ queue' = Append(queue, f) /\ src' = src
      \/ queue' = Append(Append(queue, f), f) /\ src' = src
      \/ queue' = queue /\ src' \in {src, "broken"}
    <2>1. CASE went = "once" BY <1>1, <2>1, <1>2, <1>4 DEF Socket!Ingress
    <2>2. CASE went = "twice" BY <1>1, <2>2, <1>2, <1>4 DEF Socket!Ingress
    <2>3. CASE went = "lost" BY <1>1, <2>3
    <2>. QED BY <2>1, <2>2, <2>3
<1>. HIDE DEF f
<1>7. ASSUME NEW r, r = queue', r \in Seq(SocketFrames),
             PairsFit(r), EndFits(r, phys', head'), Below(r, phys'),
             \A x \in symbols : book[x].ok =>
                 /\ NextFits(r, cursor, x, got[x])
                 /\ HeadFits(r, cursor, x, got[x], phys', head'[x])
      PROVE  SocketInv'
    <2>1. WireTypes' /\ SocketTypes' /\ OwnedInv' /\ NoneInv' BY <1>2, <1>6, <1>5, <1>7, SentLeaves
    <2>2. SocketWire' BY <1>5, <1>2, <1>7 DEF Sent, SocketInv, SocketWire, WireTypes, Socket!NoSeq, Below
    <2>3. KeptInv'
        <3>1. symbols' = symbols BY <1>5 DEF Sent
        <3>2. ASSUME NEW x \in symbols, book'[x].ok PROVE Kept(x)' BY <1>5, <1>7, <3>2, SentKeeps DEF Sent
        <3>. QED BY <3>1, <3>2 DEF KeptInv
    <2>. QED BY <2>1, <2>2, <2>3 DEF SocketInv
<1>8. /\ Below(queue, phys')
      /\ Append(queue, f) \in Seq(SocketFrames) /\ Longer(Append(queue, f), queue, f)
      /\ \A r : r \in Seq(SocketFrames) /\ Below(r, phys') => /\ Append(r, f) \in Seq(SocketFrames)
                                                       /\ Longer(Append(r, f), r, f)
                                                       /\ Below(Append(r, f), phys')
    <2>1. Below(queue, phys')
        <3>1. phys' = phys + 1 /\ \A k \in 1..Len(queue) : queue[k].seq <= phys
          BY <1>5 DEF SocketInv, SocketWire, Sent
        <3>2. \A k \in 1..Len(queue) : queue[k] \in SocketFrames BY <1>2
        <3>. QED BY <1>2, <3>1, <3>2 DEF Below, SocketFrames
    <2>2. ASSUME NEW r \in Seq(SocketFrames), Below(r, phys') PROVE Below(Append(r, f), phys')
      BY <1>4, <2>2, Appended, <1>2, <1>5 DEF Sent, Below, Longer
    <2>. QED BY <1>2, <1>4, <2>1, <2>2, Appended
<1>9. CASE queue' = Append(queue, f)
    <2>. DEFINE q == Append(queue, f)
    <2>1. q \in Seq(SocketFrames) /\ Longer(q, queue, f) /\ Below(q, phys') /\ q = queue' BY <1>2, <1>8, <1>9
    <2>. HIDE DEF q
    <2>2. /\ PairsFit(q) /\ EndFits(q, phys', head')
          /\ \A x \in symbols : book[x].ok =>
                 /\ NextFits(q, cursor, x, got[x])
                 /\ HeadFits(q, cursor, x, got[x], phys', head'[x])
      BY <1>5, <2>1, SentOnce
    <2>. QED BY <1>7, <2>1, <2>2
<1>10. CASE queue' = Append(Append(queue, f), f)
    <2>. DEFINE q == Append(queue, f)
                r == Append(q, f)
    <2>1. q \in Seq(SocketFrames) /\ Longer(q, queue, f) /\ Below(q, phys') BY <1>2, <1>8
    <2>2. r \in Seq(SocketFrames) /\ Longer(r, q, f) /\ Below(r, phys') /\ r = queue' BY <1>8, <1>10, <2>1
    <2>. HIDE DEF q, r
    <2>3. /\ PairsFit(r) /\ EndFits(r, phys', head')
          /\ \A x \in symbols : book[x].ok =>
                 /\ NextFits(r, cursor, x, got[x])
                 /\ HeadFits(r, cursor, x, got[x], phys', head'[x])
      BY <1>5, <2>1, <2>2, SentTwice
    <2>. QED BY <1>7, <2>2, <2>3
<1>11. CASE queue' = queue BY <1>5, SentLost, <1>2, <1>7, <1>8, <1>11 DEF SocketInv, SocketWire, KeptInv, Kept
<1>. QED BY <1>6, <1>9, <1>10, <1>11

\* The end of the socket and the health check touch no book.
LEMMA SocketQuietStep ==
    ASSUME SocketInv, src' \in {"open", "eof", "broken"},
           UNCHANGED <<symbols, head, phys, queue, sess, place, cursor, book, live, ep, got,
              routed>>
    PROVE  SocketInv'
<1>1. WireTypes' /\ SocketTypes' BY DEF SocketInv, WireTypes, SocketTypes
<1>2. SocketWire' BY DEF SocketInv, SocketWire
<1>3. KeptInv'
    <2>1. ASSUME NEW m \in symbols, book[m].ok PROVE Kept(m)' BY <2>1 DEF SocketInv, KeptInv, Kept
    <2>. QED BY <2>1 DEF KeptInv
<1>4. OwnedInv' /\ NoneInv' BY DEF SocketInv, OwnedInv, NoneInv, Socket!Open
<1>. QED BY <1>1, <1>2, <1>3, <1>4 DEF SocketInv

LEMMA SocketSourceEndsStep == SocketInv /\ Socket!SourceEnds => SocketInv'
<1>. SUFFICES ASSUME SocketInv, Socket!SourceEnds PROVE SocketInv' OBVIOUS
<1>1. src' \in {"open", "eof", "broken"} BY DEF Socket!SourceEnds
<1>2. UNCHANGED <<symbols, head, phys, queue, sess, place, cursor, book, live, ep, got, routed>>
  BY DEF Socket!SourceEnds
<1>. QED BY <1>1, <1>2, SocketQuietStep

LEMMA SocketCheckHealthStep == SocketInv /\ Socket!CheckHealth => SocketInv'
<1>. SUFFICES ASSUME SocketInv, Socket!CheckHealth PROVE SocketInv' OBVIOUS
<1>1. src' \in {"open", "eof", "broken"} BY DEF Socket!CheckHealth, Socket!venueVars, SocketInv, WireTypes
<1>2. UNCHANGED <<symbols, head, phys, queue, sess, place, cursor, book, live, ep, got, routed>>
  BY DEF Socket!CheckHealth, Socket!venueVars
<1>. QED BY <1>1, <1>2, SocketQuietStep

\* A connection: all markets wait, for recoveries of this session.
LEMMA SocketConnectStep == SocketInv /\ Socket!Connect => SocketInv'
<1>. SUFFICES ASSUME SocketInv, Socket!Connect PROVE SocketInv' OBVIOUS
<1>1. /\ place' = "read" /\ src' = "open" /\ routed' = symbols /\ place = "down"
      /\ UNCHANGED <<symbols, head, phys, queue, sess, cursor, got>>
  BY DEF Socket!Connect
<1>2. queue = <<>> /\ cursor = Socket!NoSeq BY <1>1 DEF SocketInv, SocketWire
<1>3. ASSUME NEW m \in Markets
      PROVE  /\ [Socket!Lost(book[m]) EXCEPT !.conn = TRUE] \in MarketBooks
             /\ ~[Socket!Lost(book[m]) EXCEPT !.conn = TRUE].ok
    <2>1. Socket!Lost(book[m]) \in MarketBooks /\ ~Socket!Lost(book[m]).ok BY LostBook DEF SocketInv, SocketTypes
    <2>. QED BY <2>1 DEF MarketBooks
<1>4. /\ book' \in [Markets -> MarketBooks]
      /\ \A m \in symbols : ~book'[m].ok
  BY <1>3 DEF Socket!Connect, SocketInv, SocketTypes
<1>5. Socket!NewEpisode \in MarketEpisodes /\ Socket!NewEpisode.sess = sess
  BY EpisodeTypes DEF SocketInv, SocketTypes
<1>6. ep' \in [Markets -> MarketEpisodes] /\ live' \in [Markets -> BOOLEAN]
  BY <1>5 DEF Socket!Connect, SocketInv, SocketTypes
<1>7. WireTypes' /\ SocketTypes' BY <1>1, <1>4, <1>6 DEF SocketInv, WireTypes, SocketTypes
<1>8. SocketWire' BY <1>1, <1>2, EmptyFits DEF SocketWire
<1>9. KeptInv' BY <1>1, <1>4, NothingKept
<1>10. ASSUME NEW m \in symbols, ep'[m].end = "OPEN" PROVE ep'[m].sess = sess
    <2>1. m \in Markets BY DEF SocketInv, SocketTypes
    <2>2. CASE Socket!Displaced(m) BY <1>5, <2>1, <2>2 DEF Socket!Connect
    <2>3. CASE ~Socket!Displaced(m) BY <2>1, <2>3, <1>10 DEF Socket!Connect, Socket!Displaced
    <2>. QED BY <2>2, <2>3
<1>11. OwnedInv' BY <1>1, <1>10 DEF OwnedInv, Socket!Open
<1>12. NoneInv' BY <1>1 DEF NoneInv, SocketInv
<1>. QED BY <1>7, <1>8, <1>9, <1>11, <1>12 DEF SocketInv

\* The connection is lost, and with it every routed book.
LEMMA SocketDropStep == SocketInv /\ Socket!Drop => SocketInv'
<1>. SUFFICES ASSUME SocketInv, Socket!Drop PROVE SocketInv' OBVIOUS
<1>1. /\ place' = "sleep" /\ queue' = <<>> /\ src' = "eof" /\ phys' = 0 /\ got' = Socket!Nothing
      /\ place \in {"down", "read"} /\ Socket!MarkDisconnected
      /\ UNCHANGED <<symbols, head, sess, cursor, ep, routed>>
  BY DEF Socket!Drop
<1>2. /\ book' \in [Markets -> MarketBooks] /\ live' \in [Markets -> BOOLEAN]
      /\ \A m \in symbols : ~book'[m].ok
  BY <1>1, AllLost DEF SocketInv
<1>3. WireTypes' /\ SocketTypes' BY <1>1, <1>2 DEF SocketInv, WireTypes, SocketTypes, Socket!Nothing
<1>4. SocketWire' BY <1>1, ClosedWire
<1>5. KeptInv' BY <1>1, <1>2, NothingKept
<1>6. OwnedInv' /\ NoneInv' BY <1>1 DEF OwnedInv, NoneInv, SocketInv
<1>. QED BY <1>3, <1>4, <1>5, <1>6 DEF SocketInv

\* A session begins with the books that were lost.
LEMMA SocketWakeStep == SocketInv /\ Socket!Wake => SocketInv'
<1>. SUFFICES ASSUME SocketInv, Socket!Wake PROVE SocketInv' OBVIOUS
<1>1. /\ place = "sleep" /\ Socket!NewSession
      /\ UNCHANGED <<symbols, head, book, live, ep, routed>>
  BY DEF Socket!Wake
<1>2. /\ sess' \in Nat /\ place' = "down" /\ cursor' = Socket!NoSeq /\ phys' = 0 /\ queue' = <<>>
      /\ src' = "eof" /\ got' \in [Markets -> Nat]
      /\ SocketWire' /\ OwnedInv'
  BY <1>1, SessionStarts
<1>3. WireTypes' /\ SocketTypes' BY <1>1, <1>2 DEF SocketInv, WireTypes, SocketTypes, Socket!NoSeq
<1>4. KeptInv' BY <1>1, NothingKept DEF SocketInv, KeptInv, Kept
<1>5. NoneInv' BY <1>1, <1>2 DEF NoneInv, SocketInv
<1>. QED BY <1>2, <1>3, <1>4, <1>5 DEF SocketInv

\* A ping says nothing of a book.
LEMMA SocketPingStep == SocketInv /\ Socket!Ping => SocketInv'
<1>. SUFFICES ASSUME SocketInv, Socket!Ping PROVE SocketInv' OBVIOUS
<1>1. UNCHANGED <<symbols, head, phys, queue, src, sess, place, cursor, live, ep, got, routed>>
  BY DEF Socket!Ping, Socket!venueVars
<1>2. ASSUME NEW m \in Markets
      PROVE  /\ [book[m] EXCEPT !.conn = @ \/ m \in symbols] \in MarketBooks
             /\ [book[m] EXCEPT !.conn = @ \/ m \in symbols].ok = book[m].ok
             /\ [book[m] EXCEPT !.conn = @ \/ m \in symbols].has = book[m].has
             /\ [book[m] EXCEPT !.conn = @ \/ m \in symbols].seq = book[m].seq
             /\ m \in symbols => [book[m] EXCEPT !.conn = @ \/ m \in symbols].conn
  BY DEF SocketInv, SocketTypes, MarketBooks
<1>3. book' = [m \in Markets |-> [book[m] EXCEPT !.conn = @ \/ m \in symbols]] BY DEF Socket!Ping
<1>4. WireTypes' /\ SocketTypes' BY <1>1, <1>2, <1>3 DEF SocketInv, WireTypes, SocketTypes
<1>5. SocketWire' BY <1>1 DEF SocketInv, SocketWire
<1>6. ASSUME NEW m \in symbols, book'[m].ok PROVE Kept(m)'
  BY <1>2, <1>3, <1>6, <1>1 DEF SocketInv, SocketTypes, KeptInv, Kept
<1>7. KeptInv' BY <1>1, <1>6 DEF KeptInv
<1>8. OwnedInv' /\ NoneInv' BY <1>1 DEF OwnedInv, NoneInv, Socket!Open, SocketInv
<1>. QED BY <1>4, <1>5, <1>7, <1>8 DEF SocketInv

\* A missing number fails the socket for all of them.
LEMMA SocketFailSequenceStep == SocketInv /\ Socket!FailSequence => SocketInv'
<1>. SUFFICES ASSUME SocketInv, Socket!FailSequence PROVE SocketInv' OBVIOUS
<1>1. /\ Socket!MarkDisconnected /\ Socket!NewSession /\ place = "read"
      /\ ep' = [m \in Markets |-> IF m \in symbols
            /\ Socket!Open(m) THEN Socket!NoEpisode ELSE ep[m]]
      /\ UNCHANGED <<symbols, head, routed>>
  BY DEF Socket!FailSequence, Socket!Readable
<1>2. /\ sess' \in Nat /\ place' = "down" /\ cursor' = Socket!NoSeq /\ phys' = 0 /\ queue' = <<>>
      /\ src' = "eof" /\ got' \in [Markets -> Nat]
      /\ SocketWire' /\ OwnedInv'
  BY <1>1, SessionStarts
<1>3. /\ book' \in [Markets -> MarketBooks] /\ live' \in [Markets -> BOOLEAN]
      /\ \A m \in symbols : ~book'[m].ok
  BY <1>1, AllLost DEF SocketInv
<1>4. Socket!NoEpisode \in MarketEpisodes BY DEF Socket!NoEpisode, MarketEpisodes, Endings
<1>5. WireTypes' /\ SocketTypes' BY <1>1, <1>2, <1>3, <1>4 DEF SocketInv, WireTypes, SocketTypes, Socket!NoSeq
<1>6. KeptInv' BY <1>1, <1>3, NothingKept
<1>7. NoneInv' BY <1>1, <1>2 DEF NoneInv, SocketInv
<1>. QED BY <1>2, <1>5, <1>6, <1>7 DEF SocketInv

\* A silent socket is replaced, or what was queued is dropped.
LEMMA SocketRecoverHealthStep == SocketInv /\ Socket!RecoverHealth => SocketInv'
<1>. SUFFICES ASSUME SocketInv, Socket!RecoverHealth PROVE SocketInv' OBVIOUS
<1>1. CASE Socket!RequestIsCurrent
    <2>1. /\ Socket!MarkDisconnected /\ Socket!NewSession /\ place # "none"
          /\ UNCHANGED <<symbols, head, ep, routed>>
      BY <1>1 DEF Socket!RecoverHealth, Socket!RequestIsCurrent
    <2>2. /\ sess' \in Nat /\ place' = "down" /\ cursor' = Socket!NoSeq /\ phys' = 0
                /\ queue' = <<>>
          /\ src' = "eof" /\ got' \in [Markets -> Nat]
          /\ SocketWire' /\ OwnedInv'
      BY <2>1, SessionStarts
    <2>3. /\ book' \in [Markets -> MarketBooks] /\ live' \in [Markets -> BOOLEAN]
          /\ \A m \in symbols : ~book'[m].ok
      BY <2>1, AllLost DEF SocketInv
    <2>4. WireTypes' /\ SocketTypes' BY <2>1, <2>2, <2>3 DEF SocketInv, WireTypes, SocketTypes, Socket!NoSeq
    <2>5. KeptInv' BY <2>1, <2>3, NothingKept
    <2>6. NoneInv' BY <2>1, <2>2 DEF NoneInv, SocketInv
    <2>. QED BY <2>2, <2>4, <2>5, <2>6 DEF SocketInv
<1>2. CASE ~Socket!RequestIsCurrent
  BY <1>2, SocketQuietStep DEF Socket!RecoverHealth, Socket!venueVars, SocketInv, WireTypes
<1>. QED BY <1>1, <1>2

\* The frame that is read: what it is, and what is left behind it.
LEMMA TakenFrame ==
    ASSUME SocketInv, Socket!Taken
    PROVE  /\ Socket!Frame \in SocketFrames /\ Socket!Frame = queue[1] /\ place = "read"
                /\ Shorter(queue', queue)
           /\ queue' \in Seq(SocketFrames) /\ cursor' = Socket!Frame.seq /\ cursor' \in Nat
           /\ got' = [got EXCEPT ![Socket!Frame.m] = Socket!Frame.at]
           /\ UNCHANGED <<symbols, head, phys, src, sess, place, routed>>
<1>1. queue \in Seq(SocketFrames) /\ queue # <<>> /\ queue' = Tail(queue) /\ place = "read"
      /\ cursor' = Socket!Frame.seq /\ got' = [got EXCEPT ![Socket!Frame.m] = Socket!Frame.at]
      /\ UNCHANGED <<symbols, head, phys, src, sess, place, routed>>
  BY DEF Socket!Taken, Socket!Readable, SocketInv, WireTypes
<1>2. Socket!Frame \in SocketFrames /\ Socket!Frame = queue[1]
         /\ queue' \in Seq(SocketFrames) /\ Shorter(queue', queue)
  BY <1>1 DEF Socket!Frame, Shorter
<1>3. Socket!Frame.seq \in Nat BY <1>2 DEF SocketFrames
<1>. QED BY <1>1, <1>2, <1>3

\* The socket after it.
LEMMA TakenWire ==
    ASSUME SocketInv, Socket!Taken
    PROVE  WireTypes' /\ SocketWire' /\ NoneInv'
<1>1. /\ Socket!Frame \in SocketFrames /\ Socket!Frame = queue[1] /\ place = "read"
            /\ Shorter(queue', queue)
      /\ queue' \in Seq(SocketFrames) /\ cursor' = Socket!Frame.seq /\ cursor' \in Nat
      /\ got' = [got EXCEPT ![Socket!Frame.m] = Socket!Frame.at]
      /\ UNCHANGED <<symbols, head, phys, src, sess, place, routed>>
  BY TakenFrame
<1>2. Socket!Frame.m \in Markets /\ Socket!Frame.at \in Nat BY <1>1 DEF SocketFrames
<1>3. WireTypes' BY <1>1, <1>2 DEF SocketInv, WireTypes
<1>4. /\ PairsFit(queue) /\ EndFits(queue, phys, head)
      /\ \A k \in 1..Len(queue) : queue[k].seq <= phys
  BY DEF SocketInv, SocketWire
<1>5. PairsFit(queue') /\ EndFits(queue', phys', head') BY <1>1, <1>4, FirstRead
<1>6. cursor' <= phys' BY <1>1, <1>4 DEF Shorter
<1>7. ASSUME NEW k \in 1..Len(queue') PROVE queue'[k].seq <= phys' BY <1>1, <1>4 DEF Shorter
<1>8. SocketWire' BY <1>1, <1>5, <1>6, <1>7 DEF SocketWire
<1>9. NoneInv' BY <1>1 DEF SocketInv, NoneInv
<1>. QED BY <1>3, <1>8, <1>9

\* A book of another market is kept as before.
LEMMA TakenKeeps ==
    ASSUME SocketInv, Socket!Taken, NEW m \in symbols, m # Socket!Frame.m, book[m].ok,
           book'[m] = book[m], live'[m] = live[m], ep'[m] = ep[m]
    PROVE  Kept(m)'
<1>1. /\ Socket!Frame \in SocketFrames /\ Socket!Frame = queue[1] /\ place = "read"
            /\ Shorter(queue', queue)
      /\ cursor' = Socket!Frame.seq /\ cursor' \in Nat
      /\ got' = [got EXCEPT ![Socket!Frame.m] = Socket!Frame.at]
      /\ UNCHANGED <<symbols, head, phys, src, sess, place, routed>>
  BY TakenFrame
<1>2. Kept(m) BY DEF SocketInv, KeptInv
<1>3. /\ cursor \in Nat /\ NextFits(queue, cursor, m, got[m])
      /\ HeadFits(queue, cursor, m, got[m], phys, head[m])
      /\ book[m].seq <= cursor /\ book[m].seq \in Int
  BY <1>2 DEF SocketInv, SocketTypes, Kept, MarketBooks
<1>4. cursor' = cursor + 1 BY <1>3, <1>1 DEF Socket!Taken, Socket!Continues, Socket!NoSeq
<1>5. phys \in Nat /\ queue[1].m # m /\ queue[1].seq = cursor' BY <1>1 DEF SocketInv, WireTypes
<1>6. /\ NextFits(queue', cursor', m, got[m])
      /\ HeadFits(queue', cursor', m, got[m], phys, head[m])
  BY <1>1, <1>3, <1>4, <1>5, KeptRead
<1>7. got'[m] = got[m] /\ head'[m] = head[m] /\ phys' = phys /\ place' = "read"
  BY <1>1 DEF SocketInv, SocketTypes, WireTypes
<1>8. book[m].seq <= cursor' BY <1>3, <1>4
<1>. QED BY <1>1, <1>2, <1>6, <1>7, <1>8 DEF Kept

\* The book of its own market is kept when it shows just what the frame says.
LEMMA TakenShows ==
    ASSUME SocketInv, Socket!Taken, NEW m, m = Socket!Frame.m,
           book'[m].conn, book'[m].seq = Socket!Frame.seq, book'[m].has = 1..Socket!Frame.at,
              live'[m],
           ep'[m].end \in {"NONE", "COMPLETE"}
    PROVE  Kept(m)'
<1>1. /\ Socket!Frame \in SocketFrames /\ Socket!Frame = queue[1] /\ place = "read"
            /\ Shorter(queue', queue)
      /\ cursor' = Socket!Frame.seq /\ cursor' \in Nat
      /\ got' = [got EXCEPT ![Socket!Frame.m] = Socket!Frame.at]
      /\ UNCHANGED <<symbols, head, phys, src, sess, place, routed>>
  BY TakenFrame
<1>2. phys \in Nat /\ PairsFit(queue) /\ EndFits(queue, phys, head) /\ got \in [Markets -> Nat]
  BY DEF SocketInv, WireTypes, SocketWire
<1>3. Socket!Frame.m \in Markets /\ Socket!Frame.seq \in Nat BY <1>1 DEF SocketFrames
<1>4. /\ NextFits(queue', Socket!Frame.seq, Socket!Frame.m, Socket!Frame.at)
      /\ HeadFits(queue', Socket!Frame.seq, Socket!Frame.m, Socket!Frame.at, phys,
            head[Socket!Frame.m])
  BY <1>1, <1>2, <1>3, ShownRead
<1>5. got'[m] = Socket!Frame.at /\ phys' = phys /\ head' = head /\ place' = "read" BY <1>1, <1>2, <1>3
<1>6. book'[m].seq <= cursor' BY <1>1, <1>3
<1>. QED BY <1>1, <1>4, <1>5, <1>6 DEF Kept

\* A frame that reaches no book.
LEMMA SocketIgnoredStep == SocketInv /\ Socket!Ignored => SocketInv'
<1>. SUFFICES ASSUME SocketInv, Socket!Ignored PROVE SocketInv' OBVIOUS
<1>1. Socket!Taken /\ UNCHANGED <<book, live, ep>> BY DEF Socket!Ignored
<1>2. /\ place = "read" /\ UNCHANGED <<symbols, sess, place, routed>> BY <1>1, TakenFrame
<1>3. WireTypes' /\ SocketWire' /\ NoneInv' BY <1>1, TakenWire
<1>4. SocketTypes' BY <1>1, <1>2 DEF SocketInv, SocketTypes
<1>5. ASSUME NEW m \in symbols, book[m].ok PROVE Kept(m)'
  BY <1>5, <1>1, TakenKeeps DEF SocketInv, KeptInv, Kept, Socket!Ignored, Socket!Open
<1>6. KeptInv' BY <1>1, <1>2, <1>5 DEF KeptInv
<1>7. OwnedInv' BY <1>1, <1>2 DEF OwnedInv, Socket!Open, SocketInv
<1>. QED BY <1>3, <1>4, <1>6, <1>7 DEF SocketInv

\* A market's whole book.
LEMMA SocketSnapshotStep == SocketInv /\ Socket!Snapshot => SocketInv'
<1>. SUFFICES ASSUME SocketInv, Socket!Snapshot PROVE SocketInv' OBVIOUS
<1>. DEFINE f == Socket!Frame
<1>1. /\ Socket!Taken /\ f.m \in symbols
      /\ ep[f.m].end \in {"NONE", "COMPLETE"} \/ (Socket!Open(f.m) /\ ep[f.m].sess = sess)
      /\ book' = [book EXCEPT ![f.m] = Socket!Shows(f)]
      /\ live' = [live EXCEPT ![f.m] = TRUE]
      /\ ep' = IF Socket!Open(f.m)
               THEN [ep EXCEPT ![f.m] = [@ EXCEPT !.end = "COMPLETE", !.buf = <<>>]] ELSE ep
  BY DEF Socket!Snapshot, Socket!Routed
<1>2. /\ f \in SocketFrames /\ place = "read" /\ UNCHANGED <<symbols, sess, place, routed>> BY <1>1, TakenFrame
<1>3. WireTypes' /\ SocketWire' /\ NoneInv' BY <1>1, TakenWire
<1>. HIDE DEF f
<1>4. /\ f.m \in Markets /\ symbols \in SUBSET Markets /\ sess \in Nat
      /\ book \in [Markets -> MarketBooks] /\ live \in [Markets -> BOOLEAN]
      /\ ep \in [Markets -> MarketEpisodes] /\ routed \in SUBSET Markets
  BY <1>2 DEF SocketFrames, SocketInv, SocketTypes
<1>5. /\ Socket!Shows(f) \in MarketBooks /\ Socket!Shows(f).ok /\ Socket!Shows(f).conn
      /\ Socket!Shows(f).seq = f.seq /\ Socket!Shows(f).has = 1..f.at
  BY <1>2 DEF Socket!Shows, SocketFrames, MarketBooks
<1>6. ASSUME Socket!Open(f.m)
      PROVE  /\ [ep[f.m] EXCEPT !.end = "COMPLETE", !.buf = <<>>] \in MarketEpisodes
             /\ [ep[f.m] EXCEPT !.end = "COMPLETE", !.buf = <<>>].end = "COMPLETE"
    <2>. DEFINE e1 == [ep[f.m] EXCEPT !.end = "COMPLETE"]
                none == <<>>
    <2>1. e1 \in MarketEpisodes /\ e1.end = "COMPLETE"
        <3>1. ep[f.m] \in MarketEpisodes /\ "COMPLETE" \in Endings BY <1>4 DEF Endings
        <3>. QED BY <3>1, EpisodeWith, EpisodeStill
    <2>2. none \in Seq(Nat) BY EmptyBuffer
    <2>. HIDE DEF e1, none
    <2>3. [e1 EXCEPT !.buf = none] \in MarketEpisodes
             /\ [e1 EXCEPT !.buf = none].end = "COMPLETE"
      BY <2>1, <2>2, EpisodeWith, EpisodeStill
    <2>. QED BY <2>3 DEF e1, none
<1>7. /\ ep' \in [Markets -> MarketEpisodes] /\ ep'[f.m].end \in {"NONE", "COMPLETE"}
      /\ \A m \in Markets : m # f.m => ep'[m] = ep[m]
  BY <1>1, <1>4, <1>6 DEF Socket!Open
<1>8. SocketTypes' BY <1>1, <1>2, <1>4, <1>5, <1>7 DEF SocketInv, SocketTypes
<1>9. ASSUME NEW m \in symbols, book'[m].ok PROVE Kept(m)'
    <2>1. m \in Markets BY <1>4
    <2>2. CASE m = f.m BY <1>1, <1>4, <1>5, <1>7, <2>2, TakenShows DEF f
    <2>3. CASE m # f.m BY <1>1, <1>4, <1>7, <2>1, <2>3, <1>9, TakenKeeps DEF f
    <2>. QED BY <2>2, <2>3
<1>10. KeptInv' BY <1>2, <1>9 DEF KeptInv
<1>11. OwnedInv'
    <2>1. ASSUME NEW m \in routed, ep'[m].end = "OPEN" PROVE ep'[m].sess = sess
      BY <1>4, <1>7, <2>1, <1>2 DEF SocketInv, OwnedInv, Socket!Open
    <2>. QED BY <1>2, <2>1 DEF OwnedInv, Socket!Open
<1>. QED BY <1>3, <1>8, <1>10, <1>11 DEF SocketInv

\* A change of a book that is kept: it is the next one.
LEMMA SocketDeltaAppliedStep == SocketInv /\ Socket!DeltaApplied => SocketInv'
<1>. SUFFICES ASSUME SocketInv, Socket!DeltaApplied PROVE SocketInv' OBVIOUS
<1>. DEFINE f == Socket!Frame
            b == Socket!Grown(book[f.m], f)
<1>1. /\ Socket!Taken /\ f.m \in symbols /\ f.t = "delta"
      /\ ep[f.m].end \in {"NONE", "COMPLETE"} /\ book[f.m].ok
      /\ book' = [book EXCEPT ![f.m] = b]
      /\ live' = [live EXCEPT ![f.m] = TRUE] /\ ep' = ep
  BY DEF Socket!DeltaApplied, Socket!Routed
<1>2. /\ f \in SocketFrames /\ f = queue[1] /\ place = "read" /\ Shorter(queue', queue)
      /\ UNCHANGED <<symbols, sess, place, routed>>
  BY <1>1, TakenFrame
<1>3. WireTypes' /\ SocketWire' /\ NoneInv' BY <1>1, TakenWire
<1>4. /\ f.m \in Markets /\ symbols \in SUBSET Markets /\ f.seq \in Nat /\ f.at \in Nat
      /\ book \in [Markets -> MarketBooks] /\ live \in [Markets -> BOOLEAN]
      /\ got \in [Markets -> Nat]
  BY <1>2 DEF SocketFrames, SocketInv, SocketTypes, WireTypes
<1>5. f.at = got[f.m] + 1 /\ book[f.m].has = 1..got[f.m]
  BY <1>1, <1>2 DEF SocketInv, KeptInv, Kept, Socket!Taken, Socket!Continues, Socket!NoSeq, Reached, Alone,
    Shorter, NextFits
<1>6. /\ b \in MarketBooks /\ b.ok /\ b.conn /\ b.seq = f.seq /\ b.has = 1..f.at
    <2>. DEFINE b1 == [book[f.m] EXCEPT !.conn = TRUE]
                b2 == [b1 EXCEPT !.seq = f.seq]
                b3 == [b2 EXCEPT !.has = @ \cup {f.at}]
    <2>0. book[f.m] \in MarketBooks /\ book[f.m].ok BY <1>1, <1>4
    <2>1. b1 \in MarketBooks /\ b1.ok /\ b1.conn /\ b1.has = book[f.m].has BY <2>0 DEF MarketBooks
    <2>. HIDE DEF b1, f
    <2>2. b2 \in MarketBooks /\ b2.ok /\ b2.conn /\ b2.seq = f.seq /\ b2.has = book[f.m].has
      BY <1>4, <2>1 DEF MarketBooks
    <2>. HIDE DEF b2
    <2>3. b3 \in MarketBooks /\ b3.ok /\ b3.conn /\ b3.seq = f.seq
          /\ b3.has = book[f.m].has \cup {f.at}
      BY <1>4, <2>2 DEF MarketBooks
    <2>. HIDE DEF b3
    <2>4. 1..got[f.m] \cup {f.at} = 1..f.at BY <1>4, <1>5
    <2>5. b = b3 BY DEF b1, b2, b3, Socket!Grown
    <2>. QED BY <1>5, <2>3, <2>4, <2>5
<1>. HIDE DEF f, b
<1>7. SocketTypes' BY <1>1, <1>2, <1>4, <1>6 DEF SocketInv, SocketTypes
<1>8. ASSUME NEW m \in symbols, book'[m].ok PROVE Kept(m)'
    <2>1. m \in Markets BY <1>4
    <2>2. CASE m = f.m BY <1>1, <1>4, <1>6, <2>2, TakenShows DEF f
    <2>3. CASE m # f.m BY <1>1, <1>4, <2>1, <2>3, <1>8, TakenKeeps DEF f
    <2>. QED BY <2>2, <2>3
<1>9. KeptInv' BY <1>2, <1>8 DEF KeptInv
<1>10. OwnedInv' BY <1>1, <1>2 DEF OwnedInv, Socket!Open, SocketInv
<1>. QED BY <1>3, <1>7, <1>9, <1>10 DEF SocketInv

\* A frame that leaves its market without a book.
LEMMA TakenWithout ==
    ASSUME SocketInv, Socket!Taken, NEW b \in MarketBooks, ~b.ok, NEW l \in BOOLEAN,
       NEW e \in MarketEpisodes,
           e.end = "OPEN" => e.sess = sess \/ (ep[Socket!Frame.m].end = "OPEN"
              /\ e.sess = ep[Socket!Frame.m].sess),
           book' = [book EXCEPT ![Socket!Frame.m] = b],
              live' = [live EXCEPT ![Socket!Frame.m] = l],
           ep' = [ep EXCEPT ![Socket!Frame.m] = e]
    PROVE  SocketInv'
<1>. DEFINE f == Socket!Frame
<1>1. /\ f \in SocketFrames /\ place = "read" /\ UNCHANGED <<symbols, sess, place, routed>> BY TakenFrame
<1>2. WireTypes' /\ SocketWire' /\ NoneInv' BY TakenWire
<1>3. /\ f.m \in Markets /\ symbols \in SUBSET Markets /\ routed \in SUBSET Markets
      /\ book \in [Markets -> MarketBooks] /\ live \in [Markets -> BOOLEAN]
      /\ ep \in [Markets -> MarketEpisodes]
  BY <1>1 DEF SocketFrames, SocketInv, SocketTypes
<1>4. SocketTypes' BY <1>1, <1>3 DEF SocketInv, SocketTypes
<1>5. ASSUME NEW m \in symbols, book'[m].ok PROVE Kept(m)' BY <1>3, <1>5, TakenKeeps
<1>6. KeptInv' BY <1>1, <1>5 DEF KeptInv
<1>7. ASSUME NEW m \in routed, ep'[m].end = "OPEN" PROVE ep'[m].sess = sess
  BY <1>1, <1>3, <1>7 DEF SocketInv, OwnedInv, Socket!Open
<1>8. OwnedInv' BY <1>1, <1>7 DEF OwnedInv, Socket!Open
<1>. QED BY <1>2, <1>4, <1>6, <1>8 DEF SocketInv

LEMMA SocketDeltaGapStep == SocketInv /\ Socket!DeltaGap => SocketInv'
<1>. SUFFICES ASSUME SocketInv, Socket!DeltaGap PROVE SocketInv' OBVIOUS
<1>1. /\ Socket!Taken
      /\ book' = [book EXCEPT ![Socket!Frame.m] = Socket!NoBook]
      /\ live' = [live EXCEPT ![Socket!Frame.m] = FALSE]
      /\ ep' = [ep EXCEPT ![Socket!Frame.m] = Socket!NewEpisode]
  BY DEF Socket!DeltaGap, Socket!Routed
<1>2. Socket!NoBook \in MarketBooks /\ ~Socket!NoBook.ok BY DEF Socket!NoBook, MarketBooks, Socket!NoSeq
<1>3. Socket!NewEpisode \in MarketEpisodes /\ Socket!NewEpisode.sess = sess
  BY EpisodeTypes DEF SocketInv, SocketTypes
<1>. QED BY <1>1, <1>2, <1>3, TakenWithout

LEMMA SocketBufferedStep == SocketInv /\ Socket!Buffered => SocketInv'
<1>. SUFFICES ASSUME SocketInv, Socket!Buffered PROVE SocketInv' OBVIOUS
<1>. DEFINE f == Socket!Frame
            e == ep[f.m]
            full == Len(e.buf) >= SocketCapacity
            over == [e EXCEPT !.buf = <<>>, !.over = @ + 1,
                              !.end = IF e.over + 1 >= SocketOverflows THEN "FAILED" ELSE "OPEN"]
            more == [e EXCEPT !.buf = Append(@, f.seq)]
            after == IF ~full THEN more ELSE over
<1>1. /\ Socket!Taken /\ f.m \in symbols /\ e.end = "OPEN" /\ live' = live
      /\ ep' = [ep EXCEPT ![f.m] = after]
      /\ book' = IF full THEN [book EXCEPT ![f.m] = Socket!Lost(@)] ELSE book
  BY DEF Socket!Buffered, Socket!Routed, Socket!Open
<1>2. /\ f.m \in Markets /\ f.seq \in Nat
      /\ book \in [Markets -> MarketBooks] /\ live \in [Markets -> BOOLEAN]
      /\ ep \in [Markets -> MarketEpisodes]
  BY <1>1, TakenFrame DEF SocketFrames, SocketInv, SocketTypes
<1>3. book[f.m] \in MarketBooks /\ ~book[f.m].ok BY <1>1, <1>2 DEF SocketInv, KeptInv, Kept
<1>4. e \in MarketEpisodes /\ e.buf \in Seq(Nat) /\ e.over \in Nat BY <1>2 DEF MarketEpisodes
<1>. HIDE DEF f, e
<1>5. more \in MarketEpisodes /\ more.sess = e.sess
    <2>1. Append(e.buf, f.seq) \in Seq(Nat) BY <1>2, <1>4
    <2>. QED BY <1>4, <2>1 DEF MarketEpisodes
<1>6. over \in MarketEpisodes /\ over.sess = e.sess
    <2>. DEFINE e1 == [e EXCEPT !.buf = <<>>]
                e2 == [e1 EXCEPT !.over = e.over + 1]
                e3 == [e2 EXCEPT !.end = IF e.over + 1 >= SocketOverflows THEN "FAILED" ELSE "OPEN"]
    <2>1. e1 \in MarketEpisodes /\ e1.sess = e.sess BY <1>4, EmptyBuffer, EpisodeWith, EpisodeStill
    <2>. HIDE DEF e1
    <2>2. e2 \in MarketEpisodes /\ e2.sess = e.sess
        <3>1. e.over + 1 \in Nat BY <1>4
        <3>. QED BY <2>1, <3>1, EpisodeWith, EpisodeStill
    <2>. HIDE DEF e2
    <2>3. e3 \in MarketEpisodes /\ e3.sess = e.sess
        <3>1. (IF e.over + 1 >= SocketOverflows THEN "FAILED" ELSE "OPEN") \in Endings BY DEF Endings
        <3>. QED BY <2>2, <3>1, EpisodeWith, EpisodeStill
    <2>. HIDE DEF e3
    <2>4. over = e3 BY <1>4 DEF e1, e2, e3, MarketEpisodes
    <2>. QED BY <2>3, <2>4
<1>7. after \in MarketEpisodes /\ after.sess = e.sess BY <1>5, <1>6
<1>. HIDE DEF full, over, more, after
<1>. DEFINE b == IF full THEN Socket!Lost(book[f.m]) ELSE book[f.m]
<1>8. b \in MarketBooks /\ ~b.ok BY <1>3, LostBook
<1>9. book' = [book EXCEPT ![f.m] = b]
    <2>1. CASE full BY <1>1, <2>1
    <2>2. CASE ~full BY <1>1, <2>2, <1>2
    <2>. QED BY <2>1, <2>2
<1>. HIDE DEF b
<1>10. live' = [live EXCEPT ![f.m] = live[f.m]] /\ live[f.m] \in BOOLEAN BY <1>1, <1>2
<1>11. after.end = "OPEN" => after.sess = sess \/ (ep[f.m].end = "OPEN"
          /\ after.sess = ep[f.m].sess)
  BY <1>1, <1>7 DEF e
<1>. QED BY <1>1, <1>7, <1>8, <1>9, <1>10, <1>11, TakenWithout DEF f

\* Markets come and go; who comes has no book yet.
LEMMA SocketReconcileStep == SocketInv /\ Socket!Reconcile => SocketInv'
<1>. SUFFICES ASSUME SocketInv, Socket!Reconcile PROVE SocketInv' OBVIOUS
<1>1. PICK wanted \in SUBSET Markets :
        /\ symbols' = wanted
        /\ book' = [m \in Markets |-> IF m \in wanted \ symbols THEN Socket!Lost(book[m]) ELSE book[m]]
        /\ live' = [m \in Markets |-> live[m] /\ m \in wanted \cap symbols]
        /\ CASE wanted = {} ->
                   /\ place' = "none" /\ queue' = <<>> /\ src' = "eof" /\ cursor' = Socket!NoSeq
                   /\ Socket!Unconfirmed
                   /\ UNCHANGED <<phys, sess, got>>
             [] wanted # {} /\ place = "none" -> Socket!NewSession /\ Socket!Unconfirmed
             [] OTHER -> UNCHANGED <<phys, queue, src, sess, place, cursor, conf, req, got>>
        /\ UNCHANGED <<head, ep, routed>>
  BY DEF Socket!Reconcile
<1>2. /\ symbols \in SUBSET Markets /\ book \in [Markets -> MarketBooks]
      /\ live \in [Markets -> BOOLEAN] /\ ep \in [Markets -> MarketEpisodes]
      /\ routed \in SUBSET Markets
  BY DEF SocketInv, SocketTypes
<1>3. /\ book' \in [Markets -> MarketBooks] /\ live' \in [Markets -> BOOLEAN]
      /\ ep' \in [Markets -> MarketEpisodes] /\ symbols' \in SUBSET Markets
            /\ routed' \in SUBSET Markets
  BY <1>1, <1>2, LostBook
<1>4. ASSUME NEW m \in symbols', book'[m].ok
      PROVE  m \in symbols /\ book'[m] = book[m] /\ live'[m] = live[m]
  BY <1>1, <1>2, <1>4, LostBook
<1>5. CASE wanted = {}
  BY <1>1, <1>5, <1>3, ClosedWire DEF SocketInv, WireTypes, SocketTypes, Socket!NoSeq, KeptInv, OwnedInv,
    NoneInv
<1>6. CASE wanted # {} /\ place = "none"
    <2>0. Socket!NewSession BY <1>1, <1>6
    <2>1. /\ sess' \in Nat /\ place' = "down" /\ cursor' = Socket!NoSeq /\ phys' = 0
                /\ queue' = <<>>
          /\ src' = "eof" /\ got' \in [Markets -> Nat]
          /\ SocketWire' /\ OwnedInv'
      BY <2>0, SessionStarts
    <2>6. UNCHANGED <<head, ep, routed>> BY <1>1
    <2>7. WireTypes' BY <2>1, <2>6 DEF SocketInv, WireTypes, Socket!NoSeq
    <2>2. WireTypes' /\ SocketTypes' BY <1>3, <2>1, <2>7 DEF SocketTypes
    <2>3. symbols = {} BY <1>6 DEF SocketInv, NoneInv
    <2>4. KeptInv' BY <1>4, <2>3 DEF KeptInv
    <2>5. NoneInv' BY <1>1, <1>6, <2>1 DEF NoneInv
    <2>. QED BY <2>1, <2>2, <2>4, <2>5 DEF SocketInv
<1>7. CASE wanted # {} /\ place # "none"
    <2>1. UNCHANGED <<phys, queue, src, sess, place, cursor, got, head, ep, routed>> BY <1>1, <1>7
    <2>2. WireTypes' /\ SocketTypes' BY <1>3, <2>1 DEF SocketInv, WireTypes, SocketTypes
    <2>3. SocketWire' BY <2>1 DEF SocketInv, SocketWire
    <2>4. ASSUME NEW m \in symbols', book'[m].ok PROVE Kept(m)' BY <1>4, <2>4, <2>1 DEF SocketInv, KeptInv, Kept
    <2>5. KeptInv' BY <2>4 DEF KeptInv
    <2>6. OwnedInv' BY <2>1 DEF SocketInv, OwnedInv, Socket!Open
    <2>7. NoneInv' BY <1>1, <1>7, <2>1 DEF NoneInv
    <2>. QED BY <2>2, <2>3, <2>5, <2>6, <2>7 DEF SocketInv
<1>. QED BY <1>5, <1>6, <1>7

\* The whole step, and what the invariant says of the books.
LEMMA SocketStep == SocketInv /\ [Socket!Next]_(Socket!vars) => SocketInv'
BY SocketStutters, SocketSendStep, SocketSourceEndsStep, SocketConnectStep, SocketDropStep, SocketWakeStep,
  SocketPingStep, SocketFailSequenceStep, SocketIgnoredStep, SocketSnapshotStep, SocketDeltaAppliedStep,
  SocketDeltaGapStep, SocketBufferedStep, SocketCheckHealthStep, SocketRecoverHealthStep, SocketReconcileStep
  DEF Socket!Next

LEMMA SocketBooksHold == SocketInv => Socket!BooksAreCurrent /\ Socket!RecoveryIsOwned
<1>. SUFFICES ASSUME SocketInv PROVE Socket!BooksAreCurrent /\ Socket!RecoveryIsOwned OBVIOUS
<1>1. Socket!BooksAreCurrent BY DEF SocketInv, KeptInv, Kept, Socket!BooksAreCurrent, Socket!Usable
<1>2. Socket!RecoveryIsOwned BY DEF SocketInv, OwnedInv, Socket!RecoveryIsOwned
<1>. QED BY <1>1, <1>2

-----------------------------------------------------------------------------
(* The two books, beside the journal and the stream.                       *)

LEMMA BookMoves ==
    [RecordsNext]_<<vars, which, streamVars, bookVars, socketVars>> => [Book!Next]_(Book!vars)
BY DEF bookVars, Book!vars, Book!venueVars, Book!bookVars, RecordsNext, SocketOnly, Book!Next, Book!Read

LEMMA SocketMoves ==
    [RecordsNext]_<<vars, which, streamVars, bookVars, socketVars>>
       => [Socket!Next]_(Socket!vars)
BY DEF socketVars, Socket!vars, Socket!venueVars, RecordsNext, BookOnly, Socket!Next

\* A book the paper runtime trades on is the venue's, without a hole, and the
\* running socket's where it says so; and a book that was lost has somebody at
\* work on it (apply_book_event, _extended_aggregate_stream).
THEOREM BooksSayTheTruth == RecordsSpec => []BooksAreTrue
<1>1. RecordsInit => RecoveryInv /\ SocketInv BY RecoveryStarts, SocketStarts DEF RecordsInit
<1>2. /\ RecoveryInv /\ SocketInv
      /\ [RecordsNext]_<<vars, which, streamVars, bookVars, socketVars>>
      => RecoveryInv' /\ SocketInv'
  BY BookMoves, SocketMoves, RecoveryStep, SocketStep
<1>3. RecoveryInv /\ SocketInv => BooksAreTrue BY RecoveryBooks, SocketBooksHold DEF BooksAreTrue
<1>. QED BY <1>1, <1>2, <1>3, PTL DEF RecordsSpec
=============================================================================
