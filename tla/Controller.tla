----------------------------- MODULE Controller -----------------------------
(***************************************************************************)
(* The Telegram controller (hood_handoff/telegram_control.py): one task    *)
(* runs an owner command - admission, a series of cycles, a closure, the   *)
(* stop procedure - while further updates are handled.  Cycles and         *)
(* closures run in detached children (hood_handoff/cli.py) that outlive a  *)
(* crash of the controller; another operator may start one at a terminal.  *)
(* Kept: the durable state and every place a save of it can fail, the      *)
(* stop marker, the launch lock, the slots.  Every value of pc is an await *)
(* of the task: what runs between two awaits is one action.  Left out: the *)
(* chat, its questions and reports, series membership and the stop record. *)
(***************************************************************************)
EXTENDS Naturals, Sequences, FiniteSets

CONSTANTS
    MaxCommands,  \* bound on the owner's commands
    MaxSeries,    \* bound on the cycles of one /run
    MaxTerminal,  \* bound on the operations started at a terminal
    MaxCrashes,   \* bound on crashes of the controller
    MaxFailures   \* bound on failed writes of the state or the marker

ASSUME BoundsAssumption ==
    /\ MaxCommands \in Nat /\ MaxSeries \in Nat \ {0}
    /\ MaxTerminal \in Nat /\ MaxCrashes \in Nat /\ MaxFailures \in Nat

Commands == [action : {"run"}, total : 1..MaxSeries]
                \union [action : {"close", "stop"}, total : {1}]

Uids == 1..MaxCommands
NoUid == 0            \* no command; also the uid of a terminal operation
Procs == {"bot", "term"}

\* store.data['active']: the command a restart must judge.  phase and
\* closeBefore are those of the closure before a cycle; auto_close_slot is
\* the one slot added since closeBefore.
Actives == [action : {"none", "run", "close"}, uid : Uids \union {NoUid},
            before : Nat, total : Nat, index : Nat,
            phase : {"none", "AUTO_CLOSE", "RUN"}, closeBefore : Nat]
NoActive == [action |-> "none", uid |-> NoUid, before |-> 0, total |-> 1,
             index |-> 1, phase |-> "none", closeBefore |-> 0]

Stores == [offset : Nat, active : Actives,
           last : {"none", "NOT_LAUNCHED", "FINISHED", "BLOCKED"},
           lastStop : {"none", "FLAT", "NOT_PROVED"}]

Gone == [at |-> "none", kind |-> "cycle", uid |-> NoUid, told |-> "none"]

VARIABLES
    log,       \* the commands the owner has sent
    disk,      \* state.json
    mem,       \* store.data
    up,        \* is the controller running?
    pc,        \* where its task waits; "idle": no task
    op,        \* the task's command: action, uid, total, step, safe (ghost: base)
    stop,      \* _stop: the /stop in progress
    marker,    \* does stop-request.json exist?
    cycles,    \* the cycle slots, each with its command and how it ended
    closes,    \* the close slots
    proc,      \* the child of the controller and the terminal operation
               \* (ghost told: where a written stop marker found it)
    lock,      \* the holder of .operator-launch.lock
    pos,       \* the true positions of all accounts
    terminals, crashes, failures

vars == <<log, disk, mem, up, pc, op, stop, marker, cycles, closes, proc,
          lock, pos, terminals, crashes, failures>>
world == <<cycles, closes, proc, lock, pos, terminals>>
others == <<log, up, crashes>>

NoOp == [action |-> "close", uid |-> NoUid, total |-> 1, step |-> 1,
         safe |-> FALSE, base |-> 0]

NewStore == [offset |-> 1, active |-> NoActive, last |-> "none", lastStop |-> "none"]

Init ==
    /\ log = <<>>
    /\ disk = NewStore /\ mem = NewStore
    /\ up = TRUE /\ pc = "idle" /\ op = NoOp /\ stop = NoUid /\ marker = FALSE
    /\ cycles = <<>> /\ closes = <<>>
    /\ proc = [p \in Procs |-> Gone] /\ lock = "free" /\ pos = "flat"
    /\ terminals = 0 /\ crashes = 0 /\ failures = 0

-----------------------------------------------------------------------------
(* The durable state. *)

\* Store.save, and the directory synchronisation that raises after the
\* replacement: a failed save may or may not have reached the disk.
Save(m) == mem' = m /\ disk' = m /\ UNCHANGED failures

Fails(n) == failures + n <= MaxFailures /\ failures' = failures + n

\* Exactly one slot was added and it ended flat.
AddedFlat(slots, before) ==
    Len(slots) = before + 1 /\ slots[Len(slots)].end = "flat"

\* A command whose cycle never claimed a slot is settled only by its own
\* closure, if it had one.
NothingLeft(a) == a.phase # "none" => AddedFlat(closes, a.closeBefore)

\* Mutant of Finish: a result is final whatever it is.
FinishForgets(m, retain) ==
    LET a == m.active
        slots == IF a.action = "close" THEN closes ELSE cycles
        none == Len(slots) = a.before
        safe == IF none THEN NothingLeft(a) ELSE AddedFlat(slots, a.before)
        keep == retain /\ ~none /\ a.action = "run"
        status == CASE ~safe -> "BLOCKED" [] none -> "NOT_LAUNCHED" [] OTHER -> "FINISHED"
    IN  IF a.action = "none" THEN m
        ELSE [m EXCEPT !.last = status, !.active = IF keep THEN a ELSE NoActive]

\* finish: the slots added since the command was claimed decide its result;
\* the record stays unless the result is safe and final.
Finish(m, retain) ==
    LET a == m.active
        slots == IF a.action = "close" THEN closes ELSE cycles
        none == Len(slots) = a.before
        safe == IF none THEN NothingLeft(a) ELSE AddedFlat(slots, a.before)
        keep == ~safe \/ (retain /\ ~none /\ a.action = "run")
        status == CASE ~safe -> "BLOCKED" [] none -> "NOT_LAUNCHED" [] OTHER -> "FINISHED"
    IN  IF a.action = "none" THEN m
        ELSE [m EXCEPT !.last = status, !.active = IF keep THEN a ELSE NoActive]

-----------------------------------------------------------------------------
(* The ends of a task's parts. *)

\* Mutant of Ends: a /stop that came during the operation is forgotten.
EndsAtOnce == pc' = "idle"

\* _with_stop: a /stop observed meanwhile completes after the operation.
Ends == pc' = IF stop = NoUid THEN "idle" ELSE "stopping"

\* The refusal of an admission, saved if it can be; n saves failed before,
\* one of ds is on the disk.
Refuse(m, n, ds) ==
    /\ mem' = m
    /\ \/ disk' = m /\ Fails(n)
       \/ disk' \in ds \union {m} /\ Fails(n + 1)
    /\ Ends

\* run_one's handler: the record stays as a barrier.  When the save of the
\* handler fails too, the exception ends the task - and _with_stop.
Raise(m, n, ds) ==
    LET blocked == [m EXCEPT !.last = "BLOCKED"] IN
    /\ mem' = blocked
    /\ \/ disk' = blocked /\ Fails(n) /\ Ends
       \/ disk' \in ds \union {blocked} /\ Fails(n + 1) /\ pc' = "idle"

Spawn(kind, uid) ==
    proc' = [proc EXCEPT !["bot"] = [Gone EXCEPT !.at = "spawned", !.kind = kind, !.uid = uid]]

\* A claimed or admitted cycle is never launched once a /stop is pending.
LaunchUnlessStopped ==
    IF stop = NoUid
    THEN Spawn("cycle", op.uid) /\ pc' = "launch"
    ELSE pc' = "leaving" /\ UNCHANGED proc

\* The record of a history whose orders are proved terminal
\* (recovery-intents.jsonl): a slot that ended badly is settled.
Settled(slots) ==
    [i \in DOMAIN slots |->
        IF slots[i].end = "flat" THEN slots[i] ELSE [slots[i] EXCEPT !.end = "settled"]]

\* check_recovery holds the launch lock and reads every account last.
Proved ==
    /\ lock = "free"
    /\ cycles' = Settled(cycles) /\ closes' = Settled(closes)
    /\ UNCHANGED <<lock, pos, terminals>>

\* Mutant of ProvedFlat: the positions of the proof are not looked at.
ProvedOnly == Proved

ProvedFlat == Proved /\ pos = "flat"

ProvedHeld == Proved /\ pos = "held"

-----------------------------------------------------------------------------
(* Updates. *)

\* Where the written marker finds each process that has yet to look at it.
Told == [p \in Procs |->
            IF proc[p].told = "none" /\ proc[p].at \notin {"checked", "trading"}
            THEN [proc[p] EXCEPT !.told = proc[p].at] ELSE proc[p]]

\* Mutant of RequestStop: the procedure starts while the task is alive.
RequestStopAtOnce(uid) ==
    IF stop # NoUid THEN UNCHANGED <<stop, marker, pc, op, proc, failures>>
    ELSE /\ stop' = uid /\ marker' = TRUE /\ proc' = Told /\ pc' = "stopping"
         /\ UNCHANGED <<op, failures>>

\* request_stop: in memory and as the marker; without a task the procedure
\* starts at once.
RequestStop(uid) ==
    IF stop # NoUid THEN UNCHANGED <<stop, marker, pc, op, proc, failures>>
    ELSE /\ stop' = uid
         /\ \/ /\ marker' = TRUE
               /\ proc' = Told
               /\ UNCHANGED failures
            \/ Fails(1) /\ UNCHANGED <<marker, proc>>
         /\ pc' = IF pc = "idle" THEN "stopping" ELSE pc
         /\ UNCHANGED op

\* _start: nothing while a task is alive; a /run first removes the marker.
Start(uid, c) ==
    /\ UNCHANGED <<stop, proc>>
    /\ IF pc # "idle" THEN UNCHANGED <<marker, pc, op, failures>>
       ELSE \/ /\ marker' = (marker /\ c.action = "close")
               /\ pc' = "admit"
               /\ op' = [action |-> c.action, uid |-> uid, total |-> c.total,
                         step |-> 1, safe |-> FALSE, base |-> Len(cycles)]
               /\ UNCHANGED failures
            \/ /\ marker /\ c.action = "run" /\ Fails(1)
               /\ UNCHANGED <<marker, pc, op>>

\* Mutant of Consumed: an update is delivered again.
NotConsumed(m, uid) == [m EXCEPT !.offset = uid]

\* The offset behind an update.
Consumed(m, uid) == [m EXCEPT !.offset = uid + 1]

\* handle: the update is consumed on disk before anything else; a failure
\* to do so ends the controller.
Handle ==
    /\ up /\ mem.offset <= MaxCommands
    /\ LET uid == mem.offset
           m == Consumed(mem, uid)
       IN  \E c \in IF uid <= Len(log) THEN {log[uid]} ELSE Commands :
            /\ log' = IF uid <= Len(log) THEN log ELSE Append(log, c)
            /\ \/ /\ mem' = m /\ disk' = m
                  /\ IF c.action = "stop" THEN RequestStop(uid) ELSE Start(uid, c)
                  /\ UNCHANGED up
               \/ /\ Fails(1)
                  /\ disk' \in {disk, m} /\ mem' = disk'
                  /\ up' = FALSE /\ pc' = "idle" /\ op' = NoOp /\ stop' = NoUid
                  /\ UNCHANGED <<marker, proc>>
            /\ UNCHANGED <<cycles, closes, lock, pos, terminals, crashes>>

-----------------------------------------------------------------------------
(* admit *)

Record == [NoActive EXCEPT !.action = op.action, !.uid = op.uid, !.total = op.total,
                           !.before = Len(IF op.action = "run" THEN cycles ELSE closes)]

\* Mutant of Admit: the result of the last /stop is kept.
AdmitKeepsStop ==
    /\ pc = "admit"
    /\ \/ Save(mem) /\ pc' = "closeReady"
       \/ Refuse(mem, 1, {disk, mem})
    /\ UNCHANGED <<op, stop, marker, world, others>>

Admit ==
    /\ pc = "admit"
    /\ LET m == IF op.action = "run" THEN [mem EXCEPT !.lastStop = "none"] ELSE mem IN
         \/ Save(m) /\ pc' = "closeReady"
         \/ Refuse(m, 1, {disk, m})
    /\ UNCHANGED <<op, stop, marker, world, others>>

\* reconcile_idle clears the record, then the new one is saved.
Recorded(m1, m2, launch) ==
    \/ Save(m2) /\ launch
    \/ Refuse(m1, 1, {disk, m1}) /\ UNCHANGED proc
    \/ Refuse(m2, 1, {m1, m2}) /\ UNCHANGED proc

AdmitClose ==
    /\ pc = "closeReady" /\ op.action = "close"
    /\ Proved
    /\ Recorded([mem EXCEPT !.active = NoActive], [mem EXCEPT !.active = Record],
                Spawn("close", op.uid) /\ pc' = "launch")
    /\ UNCHANGED <<op, stop, marker, others>>

AdmitFlat ==
    /\ pc = "closeReady" /\ op.action = "run"
    /\ ProvedFlat
    /\ pc' = "ready"
    /\ UNCHANGED <<mem, disk, op, stop, marker, proc, failures, others>>

\* Positions are left: they are closed before the first cycle.
AdmitHeld ==
    /\ pc = "closeReady" /\ op.action = "run"
    /\ ProvedHeld
    /\ LET m == [mem EXCEPT !.active = [Record EXCEPT !.phase = "AUTO_CLOSE",
                                                      !.closeBefore = Len(closes)]] IN
         \/ Save(m) /\ Spawn("close", op.uid) /\ pc' = "preClose"
         \/ Refuse(m, 1, {disk, m}) /\ UNCHANGED proc
    /\ UNCHANGED <<op, stop, marker, others>>

AdmitReady ==
    /\ pc = "ready"
    /\ ProvedFlat
    /\ Recorded([mem EXCEPT !.active = NoActive], [mem EXCEPT !.active = Record],
                LaunchUnlessStopped)
    /\ UNCHANGED <<op, stop, marker, others>>

AdmissionRefused ==
    /\ pc \in {"closeReady", "ready"}
    /\ Refuse(mem, 0, {disk})
    /\ UNCHANGED <<op, stop, marker, world, others>>

-----------------------------------------------------------------------------
(* run_one *)

\* _close_before_run
PreClosed ==
    /\ pc = "preClose" /\ proc["bot"].at = "none"
    /\ IF AddedFlat(closes, mem.active.closeBefore)
       THEN pc' = "postClose" /\ UNCHANGED <<mem, disk, failures>>
       ELSE Raise(mem, 0, {disk})
    /\ UNCHANGED <<op, stop, marker, world, others>>

ReadyAfterClose ==
    /\ pc = "postClose"
    /\ ProvedFlat
    /\ LET m == [mem EXCEPT !.active.phase = "RUN"] IN
         \/ Save(m) /\ LaunchUnlessStopped
         \/ Raise(m, 1, {disk, m}) /\ UNCHANGED proc
    /\ UNCHANGED <<op, stop, marker, others>>

\* The child cannot be created, or the configuration has changed.
LaunchFails ==
    /\ pc \in {"launch", "preClose"} /\ proc["bot"].at = "spawned"
    /\ proc' = [proc EXCEPT !["bot"] = Gone]
    /\ Raise(mem, 0, {disk})
    /\ UNCHANGED <<op, stop, marker, cycles, closes, lock, pos, terminals, others>>

\* The child has ended: its slots are judged.
Judge ==
    /\ pc = "launch" /\ proc["bot"].at = "none"
    /\ LET m == Finish(mem, op.step < op.total) IN
         \/ /\ Save(m)
            /\ pc' = "finished"
            /\ op' = [op EXCEPT !.safe = (op.action = "run" /\ m.last = "FINISHED")]
         \/ Raise([m EXCEPT !.active = mem.active], 1, {disk, m}) /\ UNCHANGED op
    /\ UNCHANGED <<stop, marker, world, others>>

\* Mutant of NextStep: the result of the last cycle is not asked for.
NextStepBlindly ==
    /\ pc = "finished" /\ mem.active.action = "run" /\ op.step < op.total /\ stop = NoUid
    /\ op' = [op EXCEPT !.step = @ + 1]
    /\ LET m == [mem EXCEPT !.active.index = @ + 1, !.active.before = Len(cycles),
                            !.active.phase = "none", !.active.closeBefore = 0] IN
         \/ Save(m) /\ pc' = "pause"
         \/ Raise(m, 1, {disk, m})
    /\ UNCHANGED <<stop, marker, world, others>>

\* _prepare_next_series_step claims the next step, then waits.
NextStep ==
    /\ pc = "finished" /\ op.safe /\ op.step < op.total /\ stop = NoUid
    /\ op' = [op EXCEPT !.step = @ + 1]
    /\ LET m == [mem EXCEPT !.active.index = @ + 1, !.active.before = Len(cycles),
                            !.active.phase = "none", !.active.closeBefore = 0] IN
         \/ Save(m) /\ pc' = "pause"
         \/ Raise(m, 1, {disk, m})
    /\ UNCHANGED <<stop, marker, world, others>>

\* Mutant of PauseEnds: a /stop cancels the timer and wakes nobody.
PauseSleeps ==
    /\ pc = "pause" /\ stop = NoUid
    /\ pc' = "nextCloseReady"
    /\ UNCHANGED <<mem, disk, op, stop, marker, failures, world, others>>

\* The pause ends by itself or on a /stop.
PauseEnds ==
    /\ pc = "pause"
    /\ pc' = IF stop = NoUid THEN "nextCloseReady" ELSE "leaving"
    /\ UNCHANGED <<mem, disk, op, stop, marker, failures, world, others>>

NextHeld ==
    /\ pc = "nextCloseReady"
    /\ ProvedHeld
    /\ LET m == [mem EXCEPT !.active.phase = "AUTO_CLOSE",
                            !.active.closeBefore = Len(closes)] IN
         \/ Save(m) /\ Spawn("close", op.uid) /\ pc' = "preClose"
         \/ Raise(m, 1, {disk, m}) /\ UNCHANGED proc
    /\ UNCHANGED <<op, stop, marker, others>>

NextFlat ==
    /\ pc = "nextCloseReady"
    /\ ProvedFlat
    /\ pc' = IF stop = NoUid THEN "nextReady" ELSE "leaving"
    /\ UNCHANGED <<mem, disk, op, stop, marker, proc, failures, others>>

NextReady ==
    /\ pc = "nextReady"
    /\ ProvedFlat
    /\ \/ Save(mem) /\ LaunchUnlessStopped
       \/ Raise(mem, 1, {disk, mem}) /\ UNCHANGED proc
    /\ UNCHANGED <<op, stop, marker, others>>

\* _checked_recovery has used its attempts, or a check was refused.
CheckRaises ==
    /\ pc \in {"postClose", "nextCloseReady", "nextReady"}
    /\ Raise(mem, 0, {disk})
    /\ UNCHANGED <<op, stop, marker, world, others>>

\* The loop is left; a stopped series is judged once more.
Leave ==
    /\ \/ pc = "leaving"
       \/ pc = "finished" /\ ~(op.safe /\ op.step < op.total /\ stop = NoUid)
    /\ LET m == Finish(mem, FALSE) IN
         IF op.action = "run" /\ stop # NoUid /\ mem.active.action = "run"
         THEN \/ Save(m) /\ Ends
              \/ Raise([m EXCEPT !.active = mem.active], 1, {disk, m})
         ELSE Ends /\ UNCHANGED <<mem, disk, failures>>
    /\ UNCHANGED <<op, stop, marker, world, others>>

-----------------------------------------------------------------------------
(* _complete_stop *)

\* The result is saved if it can be; the marker is removed if it can be.
StopDone(m, result) ==
    /\ mem' = [m EXCEPT !.lastStop = result]
    /\ \E saved, removed \in BOOLEAN :
         /\ disk' \in IF saved THEN {mem'} ELSE {disk, mem'}
         /\ marker' = (marker /\ ~removed)
         /\ Fails((IF saved THEN 0 ELSE 1) + (IF removed THEN 0 ELSE 1))
    /\ stop' = NoUid
    /\ pc' = "idle"

StopHeld ==
    /\ pc = "stopping"
    /\ ProvedHeld
    /\ LET m == [mem EXCEPT !.active = [NoActive EXCEPT !.action = "close", !.uid = stop,
                                                        !.before = Len(closes)]] IN
         \/ Save(m) /\ Spawn("close", stop) /\ pc' = "stopClose" /\ UNCHANGED <<stop, marker>>
         \/ StopDone(m, "NOT_PROVED") /\ UNCHANGED proc
    /\ UNCHANGED <<op, others>>

StopFlat ==
    /\ pc = "stopping"
    /\ ProvedFlat
    /\ pc' = "stopReady"
    /\ UNCHANGED <<mem, disk, op, stop, marker, proc, failures, others>>

StopClosed ==
    /\ pc = "stopClose" /\ proc["bot"].at = "none"
    /\ IF AddedFlat(closes, mem.active.before)
       THEN pc' = "stopReady" /\ UNCHANGED <<mem, disk, stop, marker, failures>>
       ELSE StopDone(mem, "NOT_PROVED")
    /\ UNCHANGED <<op, world, others>>

StopProved ==
    /\ pc = "stopReady"
    /\ ProvedFlat
    /\ StopDone([mem EXCEPT !.active = NoActive], "FLAT")
    /\ UNCHANGED <<op, proc, others>>

StopUnproved ==
    /\ pc \in {"stopping", "stopReady"}
    /\ StopDone(mem, "NOT_PROVED")
    /\ UNCHANGED <<op, world, others>>

StopLaunchFails ==
    /\ pc = "stopClose" /\ proc["bot"].at = "spawned"
    /\ proc' = [proc EXCEPT !["bot"] = Gone]
    /\ StopDone(mem, "NOT_PROVED")
    /\ UNCHANGED <<op, cycles, closes, lock, pos, terminals, others>>

-----------------------------------------------------------------------------
(* Crash and restart.  The detached child keeps the instance lock. *)

Crash ==
    /\ up /\ crashes < MaxCrashes
    /\ crashes' = crashes + 1
    /\ up' = FALSE /\ mem' = disk /\ pc' = "idle" /\ op' = NoOp /\ stop' = NoUid
    /\ UNCHANGED <<log, disk, marker, failures, world>>

\* serve: finish, then one check of an unsettled command; the updates that
\* came meanwhile are skipped.
Restart ==
    /\ ~up /\ proc["bot"].at = "none"
    /\ LET m == Finish(disk, FALSE) IN
         \E cleared \in BOOLEAN :
            /\ IF cleared
               THEN /\ m.active.action # "none" /\ Proved
                    /\ m.active.action = "run" => pos = "flat"
               ELSE UNCHANGED <<cycles, closes, lock, pos, terminals>>
            /\ Save([m EXCEPT !.active = IF cleared THEN NoActive ELSE @,
                              !.offset = IF Len(log) >= @ THEN Len(log) + 1 ELSE @])
    /\ up' = TRUE
    /\ UNCHANGED <<log, pc, op, stop, marker, proc, crashes>>

-----------------------------------------------------------------------------
(* The launcher and its children (cli.py), in either process. *)

controller == <<disk, mem, pc, op, stop, marker, failures, others>>

At(p, at) == proc' = [proc EXCEPT ![p].at = at]
Exits(p) == proc' = [proc EXCEPT ![p] = Gone] /\ lock' = "free"

TerminalStarts(kind) ==
    /\ proc["term"].at = "none" /\ terminals < MaxTerminal
    /\ terminals' = terminals + 1
    /\ proc' = [proc EXCEPT !["term"] = [Gone EXCEPT !.at = "spawned", !.kind = kind]]
    /\ UNCHANGED <<controller, cycles, closes, lock, pos>>

\* The launch lock is taken, or the launcher gives up; a cycle is not
\* started while the marker exists.
Locks(p) ==
    /\ proc[p].at = "spawned"
    /\ IF lock # "free" \/ (proc[p].kind = "cycle" /\ marker)
       THEN proc' = [proc EXCEPT ![p] = Gone] /\ UNCHANGED lock
       ELSE At(p, "cleared") /\ lock' = p
    /\ UNCHANGED <<controller, cycles, closes, pos, terminals>>

\* A local input is invalid: no slot is claimed.
LauncherRefuses(p) ==
    /\ proc[p].at = "cleared"
    /\ Exits(p)
    /\ UNCHANGED <<controller, cycles, closes, pos, terminals>>

\* allocate_cycle_slot, allocate_close_slot
Claims(p) ==
    /\ proc[p].at = "cleared"
    /\ At(p, "claimed")
    /\ LET slot == [uid |-> proc[p].uid, end |-> "open"] IN
         IF proc[p].kind = "cycle"
         THEN cycles' = Append(cycles, slot) /\ UNCHANGED closes
         ELSE closes' = Append(closes, slot) /\ UNCHANGED cycles
    /\ UNCHANGED <<controller, lock, pos, terminals>>

EndsSlot(slots, end) == [slots EXCEPT ![Len(slots)].end = end]

\* A refusal before the first order, an owner's stop among them.
CycleRefused(p) ==
    /\ proc[p].at \in {"claimed", "checked"} /\ proc[p].kind = "cycle"
    /\ Exits(p)
    /\ cycles' = EndsSlot(cycles, "bad")
    /\ UNCHANGED <<controller, closes, pos, terminals>>

\* Everything that must hold before the first order: history proved
\* terminal, both positions flat and, last, the marker not observed.
Checks(p) ==
    /\ proc[p].at = "claimed" /\ proc[p].kind = "cycle"
    /\ pos = "flat" /\ ~marker
    /\ At(p, "checked")
    /\ cycles' = EndsSlot(Settled(cycles), "open") /\ closes' = Settled(closes)
    /\ UNCHANGED <<controller, lock, pos, terminals>>

\* The first order.  The plan, the journal, the reads and the preparation of
\* both orders lie between: the marker is not looked at again.
Opens(p) ==
    /\ proc[p].at = "checked"
    /\ At(p, "trading")
    /\ UNCHANGED <<controller, cycles, closes, lock, pos, terminals>>

CycleEnds(p) ==
    /\ proc[p].at = "trading"
    /\ Exits(p)
    /\ \E end \in {"flat", "bad"} :
         /\ cycles' = EndsSlot(cycles, end)
         /\ pos' \in IF end = "flat" THEN {"flat"} ELSE {"flat", "held"}
    /\ UNCHANGED <<controller, closes, terminals>>

\* close_positions: reduce-only orders never open a position.
CloseEnds(p) ==
    /\ proc[p].at = "claimed" /\ proc[p].kind = "close"
    /\ Exits(p)
    /\ \E end \in {"flat", "bad"} :
         /\ closes' = EndsSlot(closes, end)
         /\ pos' \in IF end = "flat" THEN {"flat"} ELSE {"flat", pos}
    /\ UNCHANGED <<controller, cycles, terminals>>

\* The process is killed: its slot is left as it is.
Dies(p) ==
    /\ proc[p].at # "none"
    /\ proc' = [proc EXCEPT ![p] = Gone]
    /\ lock' = IF lock = p THEN "free" ELSE lock
    /\ pos' \in CASE proc[p].at = "trading" -> {"flat", "held"}
                  [] proc[p].at = "claimed" /\ proc[p].kind = "close" -> {"flat", pos}
                  [] OTHER -> {pos}
    /\ UNCHANGED <<controller, cycles, closes, terminals>>

-----------------------------------------------------------------------------

Task ==
    \/ Admit \/ AdmitClose \/ AdmitFlat \/ AdmitHeld \/ AdmitReady \/ AdmissionRefused
    \/ PreClosed \/ ReadyAfterClose \/ LaunchFails \/ Judge \/ NextStep \/ PauseEnds
    \/ NextHeld \/ NextFlat \/ NextReady \/ CheckRaises \/ Leave
    \/ StopHeld \/ StopFlat \/ StopClosed \/ StopProved \/ StopUnproved \/ StopLaunchFails

Prepares(p) ==
    Locks(p) \/ LauncherRefuses(p) \/ Claims(p) \/ CycleRefused(p) \/ Checks(p) \/ Opens(p)

Works(p) == Prepares(p) \/ CycleEnds(p) \/ CloseEnds(p)

Next ==
    \/ Handle \/ Task \/ Crash \/ Restart
    \/ \E kind \in {"cycle", "close"} : TerminalStarts(kind)
    \/ \E p \in Procs : Works(p) \/ Dies(p)

Spec == Init /\ [][Next]_vars

\* The event loop runs a task that can run and every wait of it is bounded,
\* but for the one for its child, which has no timeout.  A child's way to its
\* first order counts its attempts; its way back to zero does not (it places
\* residual orders until one fills and looks at no marker), so nothing is
\* assumed of CycleEnds and CloseEnds.
Fairness == WF_vars(Task) /\ \A p \in Procs : WF_vars(Prepares(p))
FairSpec == Spec /\ Fairness

-----------------------------------------------------------------------------
(* Properties. *)

Waits == {"idle", "admit", "closeReady", "ready", "preClose", "postClose", "launch",
          "finished", "pause", "nextCloseReady", "nextReady", "leaving",
          "stopping", "stopClose", "stopReady"}

Slots == [uid : Uids \union {NoUid}, end : {"open", "flat", "bad", "settled"}]

TypeOK ==
    /\ log \in Seq(Commands)
    /\ disk \in Stores /\ mem \in Stores
    /\ up \in BOOLEAN /\ pc \in Waits
    /\ op \in [action : {"run", "close"}, uid : Uids \union {NoUid}, total : 1..MaxSeries,
               step : 1..MaxSeries, safe : BOOLEAN, base : Nat]
    /\ stop \in Uids \union {NoUid} /\ marker \in BOOLEAN
    /\ cycles \in Seq(Slots) /\ closes \in Seq(Slots)
    /\ proc \in [Procs -> [at : {"none", "spawned", "cleared", "claimed", "checked", "trading"},
                           kind : {"cycle", "close"}, uid : Uids \union {NoUid},
                           told : {"none", "spawned", "cleared", "claimed"}]]
    /\ lock \in Procs \union {"free"} /\ pos \in {"flat", "held"}
    /\ terminals \in Nat /\ crashes \in Nat /\ failures \in Nat

Claimed(slots, uid) == Cardinality({i \in DOMAIN slots : slots[i].uid = uid})

\* A command is executed at most once, whatever crashes, restarts and failed
\* saves come between: the slots its children claim never exceed what the
\* owner asked for (handle consumes the update before anything is launched).
CommandOnce ==
    \A uid \in DOMAIN log :
        /\ Claimed(cycles, uid) <= IF log[uid].action = "run" THEN log[uid].total ELSE 0
        /\ Claimed(closes, uid) <= log[uid].total

\* A restart can always tell what a command left: while a child of the
\* controller runs, or a slot of one ended without proof, the record of the
\* command is on the disk (finish, reconcile_idle, _complete_stop).
BarrierHolds ==
    disk.active.action = "none" =>
        /\ proc["bot"].at = "none"
        /\ \A slots \in {cycles, closes} : \A i \in DOMAIN slots :
              slots[i].uid # NoUid => slots[i].end \in {"flat", "settled"}

\* The next cycle of a series is only launched when every cycle before it
\* has ended flat.
SeriesStopsAtDoubt ==
    pc = "launch" /\ op.action = "run" =>
        Cardinality({i \in DOMAIN cycles : i > op.base /\ cycles[i].end = "flat"}) >= op.step - 1

\* A cycle is launched only from flat positions, with no other operation
\* under way (each launch follows a READY proof without an await between).
LaunchedFlat ==
    [][/\ proc["bot"].at # "spawned" /\ proc'["bot"].at = "spawned"
       /\ proc'["bot"].kind = "cycle"
       => pos = "flat" /\ lock = "free"]_vars

\* A /stop whose marker is written reaches the cycle the controller has
\* launched: if that cycle has not made its last check before the first
\* order, it never passes it and sends none.  (A marker written between the
\* check and the order is not seen before the order.)
StopReachesChild ==
    proc["bot"].told # "none" => proc["bot"].at \notin {"checked", "trading"}

\* The same of every cycle under way, one started at a terminal included
\* ("Send /stop in Telegram at any time. ... A cycle that is running sends
\* no new orders: before its first order it simply ends").
StopReachesEveryCycle ==
    \A p \in Procs : proc[p].told = "claimed" => proc[p].at # "trading"

\* What /stop has reported as flat stays flat until the owner starts a
\* cycle: no cycle of an earlier command survives the stop.
StoppedStaysFlat ==
    disk.lastStop = "FLAT" =>
        pos = "flat" \/ \E i \in DOMAIN cycles : cycles[i].uid = NoUid

\* A stopped or doubtful position is nobody's to build on: the two above.
DoubtAndStopHold == SeriesStopsAtDoubt /\ StoppedStaysFlat

\* A question is answered: every /stop ends in a result, FLAT or
\* NOT_PROVED (or with the controller), unless a write of the state or the
\* marker failed.
StopEnds == stop # NoUid ~> (stop = NoUid \/ failures > 0)

\* The task of a command ends, so the next command is not refused for ever.
CommandEnds == pc # "idle" ~> pc = "idle"

\* A child of the controller that places orders until its positions are zero.
ChildCloses ==
    \/ proc["bot"].at = "trading"
    \/ proc["bot"].at = "claimed" /\ proc["bot"].kind = "close"

\* What the owner asks for ends, every /stop and every command, provided
\* that each child that has begun to trade comes to its end (RandomCycle
\* says when one does: unless the venue never fills).  A cycle or closure
\* started at a terminal may go on for ever: its lock makes the checks fail.
OwnerIsAnswered == []<>~ChildCloses => StopEnds /\ CommandEnds

=============================================================================
