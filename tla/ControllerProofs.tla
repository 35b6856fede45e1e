-------------------------- MODULE ControllerProofs --------------------------
(***************************************************************************)
(* Theorems about Controller, for every number of commands, cycles,        *)
(* terminal operations, crashes and failed writes.                         *)
(***************************************************************************)
EXTENDS Controller, TLAPS, FiniteSetTheorems

\* The places where the task waits for its child.
ChildWaits == {"launch", "preClose", "stopClose"}

\* proc maps the two processes to records of one shape.
ProcShape ==
    /\ DOMAIN proc = Procs
    /\ proc = [p \in Procs |-> proc[p]]
    /\ \A p \in Procs : DOMAIN proc[p] = {"at", "kind", "uid", "told"}

\* Whoever removes the marker, or replaces the child, does so when no child
\* of the controller is left.
ChildInv ==
    /\ ProcShape
    /\ up \in BOOLEAN
    /\ ~up => pc = "idle"
    /\ up /\ proc["bot"].at # "none" => pc \in ChildWaits
    /\ proc["bot"].at = "none" => proc["bot"].told = "none"
    /\ proc["bot"].told # "none" => marker /\ proc["bot"].at \notin {"checked", "trading"}

\* The child and the places hold at the start.
LEMMA ChildInit == Init => ChildInv
BY DEF Init, ChildInv, ProcShape, Gone, Procs, NewStore

\* Handling an update leaves the child where it is.
LEMMA ChildHandle == ASSUME ChildInv, Handle PROVE ChildInv'
<1>. USE DEF ChildInv, ProcShape, Procs, ChildWaits, Gone
<1>1. PICK uid, c, m :
        \/ /\ RequestStop(uid) /\ UNCHANGED up
        \/ /\ Start(uid, c) /\ UNCHANGED up
        \/ up' = FALSE /\ pc' = "idle" /\ UNCHANGED <<marker, proc>>
  BY DEF Handle
<1>2. up BY DEF Handle
<1>3. CASE RequestStop(uid) /\ UNCHANGED up
  <2>1. CASE stop # NoUid BY <1>2, <1>3, <2>1 DEF RequestStop
  <2>2. CASE stop = NoUid /\ UNCHANGED <<marker, proc>> BY <1>2, <1>3, <2>2 DEF RequestStop
  <2>3. CASE stop = NoUid /\ marker' = TRUE /\ proc' = Told BY <2>3, <1>3, <1>2 DEF Told, RequestStop
  <2>. QED BY <1>3, <2>1, <2>2, <2>3 DEF RequestStop
<1>4. CASE Start(uid, c) /\ UNCHANGED up BY <1>2, <1>4 DEF Start
<1>5. CASE up' = FALSE /\ pc' = "idle" /\ UNCHANGED <<marker, proc>> BY <1>5
<1>. QED BY <1>1, <1>3, <1>4, <1>5

\* What one step of the task does to the child: none is left and nothing
\* happens, one is created, or a created one is given up.
Idles == proc["bot"].at = "none" /\ UNCHANGED proc
Spawns == (\E kind, uid : Spawn(kind, uid)) /\ pc' \in ChildWaits
GivesUp == proc' = [proc EXCEPT !["bot"] = Gone]

\* A step of the task launches its child, gives it up or leaves it alone.
LEMMA TaskCases ==
    ASSUME ChildInv, Task
    PROVE  /\ up /\ UNCHANGED up
           /\ Idles \/ Spawns \/ GivesUp
<1>. USE DEF ChildInv, ChildWaits, Idles, Spawns, GivesUp, world, others
<1>0. up
  BY DEF Task, Admit, AdmitClose, AdmitFlat, AdmitHeld, AdmitReady, AdmissionRefused, PreClosed,
    ReadyAfterClose, LaunchFails, Judge, NextStep, PauseEnds, NextHeld, NextFlat, NextReady, CheckRaises,
    Leave, StopHeld, StopFlat, StopClosed, StopProved, StopUnproved, StopLaunchFails
<1>1. CASE Admit \/ AdmitFlat \/ AdmissionRefused \/ PreClosed \/ Judge \/ NextStep
              \/ PauseEnds \/ NextFlat \/ CheckRaises \/ Leave
  BY <1>0, <1>1 DEF Admit, AdmitFlat, AdmissionRefused, PreClosed, Judge, NextStep, PauseEnds, NextFlat,
    CheckRaises, Leave
<1>2. CASE StopFlat \/ StopClosed \/ StopProved \/ StopUnproved
  BY <1>0, <1>2 DEF StopFlat, StopClosed, StopProved, StopUnproved
<1>3. CASE LaunchFails \/ StopLaunchFails BY <1>0, <1>3 DEF LaunchFails, StopLaunchFails
<1>4. CASE AdmitClose BY <1>0, <1>4 DEF AdmitClose, Recorded
<1>5. CASE AdmitReady BY <1>0, <1>5 DEF AdmitReady, Recorded, LaunchUnlessStopped
<1>6. CASE AdmitHeld BY <1>0, <1>6 DEF AdmitHeld
<1>7. CASE ReadyAfterClose BY <1>0, <1>7 DEF ReadyAfterClose, LaunchUnlessStopped
<1>8. CASE NextHeld BY <1>0, <1>8 DEF NextHeld
<1>9. CASE NextReady BY <1>0, <1>9 DEF NextReady, LaunchUnlessStopped
<1>10. CASE StopHeld BY <1>0, <1>10 DEF StopHeld
<1>. QED BY <1>1, <1>2, <1>3, <1>4, <1>5, <1>6, <1>7, <1>8, <1>9, <1>10 DEF Task

\* The task removes the marker and replaces the child at its own places.
LEMMA ChildTask == ASSUME ChildInv, Task PROVE ChildInv'
<1>. USE DEF ChildInv, ProcShape, Procs, ChildWaits, Gone
<1>1. up /\ up' = up /\ (Idles \/ Spawns \/ GivesUp) BY TaskCases
<1>2. CASE Idles BY <1>1, <1>2 DEF Idles
<1>3. CASE Spawns
  <2>1. PICK kind, uid : Spawn(kind, uid) BY <1>3 DEF Spawns
  <2>2. /\ proc'["bot"].at = "spawned" /\ proc'["bot"].told = "none"
        /\ ProcShape'
    BY <2>1 DEF Spawn
  <2>. QED BY <1>1, <1>3, <2>2 DEF Spawns
<1>4. CASE GivesUp BY <1>4, <1>1 DEF GivesUp
<1>. QED BY <1>1, <1>2, <1>3, <1>4

\* The child moves through its places by itself.
LEMMA ChildWorld ==
    ASSUME ChildInv, NEW p \in Procs, Works(p) \/ Dies(p)
    PROVE  ChildInv'
<1>. USE DEF ChildInv, ProcShape, Procs, ChildWaits, Gone
<1>1. UNCHANGED <<up, pc, marker>>
  BY DEF Works, Prepares, Dies, Locks, LauncherRefuses, Claims, CycleRefused, Checks, Opens, CycleEnds,
    CloseEnds, controller,
    others
<1>2. CASE proc' = [proc EXCEPT ![p] = Gone] BY <1>1, <1>2
<1>3. CASE Checks(p) \/ Opens(p) BY <1>3, <1>1 DEF Checks, Opens, At
<1>4. CASE (Locks(p) /\ At(p, "cleared")) \/ Claims(p)
  <2>1. PICK at \in {"cleared", "claimed"} :
            proc' = [proc EXCEPT ![p].at = at] /\ proc[p].at # "none"
    BY <1>4 DEF Locks, Claims, At
  <2>2. /\ ProcShape'
        /\ proc'["bot"].told = proc["bot"].told
        /\ proc'["bot"].at \in {proc["bot"].at, at}
        /\ proc'["bot"].at # "none" <=> proc["bot"].at # "none"
    BY <2>1
  <2>. QED BY <1>1, <2>1, <2>2
<1>. QED BY <1>2, <1>3, <1>4 DEF Works, Prepares, Dies, Locks, LauncherRefuses, CycleRefused, CycleEnds,
  CloseEnds, Exits

\* An operation at a terminal touches no child of the controller.
LEMMA ChildTerminal ==
    ASSUME ChildInv, NEW kind \in {"cycle", "close"}, TerminalStarts(kind)
    PROVE  ChildInv'
<1>. USE DEF ChildInv, ProcShape, Procs, ChildWaits, Gone
<1>1. /\ UNCHANGED <<up, pc, marker>>
      /\ proc' = [proc EXCEPT !["term"] = [Gone EXCEPT !.at = "spawned", !.kind = kind]]
  BY DEF TerminalStarts, controller, others
<1>2. ProcShape' /\ proc'["bot"] = proc["bot"] BY <1>1
<1>. QED BY <1>1, <1>2

\* No step breaks the link between the task and its child.
LEMMA ChildStep == ASSUME ChildInv, [Next]_vars PROVE ChildInv'
<1>1. CASE Handle BY <1>1, ChildHandle
<1>2. CASE Task BY <1>2, ChildTask
<1>3. CASE Crash \/ Restart BY <1>3 DEF Crash, Restart, world, ChildInv, ProcShape
<1>4. CASE \E kind \in {"cycle", "close"} : TerminalStarts(kind) BY <1>4, ChildTerminal
<1>5. CASE \E p \in Procs : Works(p) \/ Dies(p) BY <1>5, ChildWorld
<1>6. CASE UNCHANGED vars BY <1>6 DEF vars, ChildInv, ProcShape
<1>. QED BY <1>1, <1>2, <1>3, <1>4, <1>5, <1>6 DEF Next

\* A /stop whose marker is written reaches the cycle the controller has
\* launched, whatever crashes, dies or fails to be written (request_stop,
\* _start, _complete_stop, exclusive_lock).
THEOREM StopReachesTheChild == Spec => []StopReachesChild
<1>1. Init => ChildInv BY ChildInit
<1>2. ChildInv /\ [Next]_vars => ChildInv' BY ChildStep
<1>3. ChildInv => StopReachesChild BY DEF ChildInv, StopReachesChild
<1>. QED BY <1>1, <1>2, <1>3, PTL DEF Spec

-----------------------------------------------------------------------------
(* Every launch of a cycle follows a READY proof without an await between. *)

FlatLaunch ==
    proc["bot"].at # "spawned" /\ proc'["bot"].at = "spawned" /\ proc'["bot"].kind = "cycle"
        => pos = "flat" /\ lock = "free"

\* A launch says what kind of child it is.
LEMMA SpawnedKind ==
    ASSUME ChildInv, NEW kind, NEW uid, Spawn(kind, uid)
    PROVE  proc'["bot"].kind = kind
BY DEF ChildInv, ProcShape, Procs, Spawn, Gone

\* A cycle is launched from flat positions, with the lock free.
LEMMA LaunchStep == ASSUME ChildInv, [Next]_vars PROVE FlatLaunch
<1>. USE DEF FlatLaunch
<1>1. CASE Task
  <2>1. CASE ProvedFlat BY <2>1 DEF ProvedFlat, Proved
  <2>2. CASE AdmitClose \/ AdmitHeld \/ NextHeld \/ StopHeld
    BY <2>2, SpawnedKind DEF AdmitClose, AdmitHeld, NextHeld, StopHeld, Recorded
  <2>3. CASE LaunchFails \/ StopLaunchFails
    BY <2>3 DEF LaunchFails, StopLaunchFails, ChildInv, ProcShape, Procs, Gone
  <2>. QED
    BY <1>1, <2>1, <2>2, <2>3 DEF Task, Admit, AdmitFlat, AdmitReady, AdmissionRefused, PreClosed,
      ReadyAfterClose, Judge, NextStep, PauseEnds, NextFlat, NextReady, CheckRaises, Leave, StopFlat,
      StopClosed, StopProved, StopUnproved, world
<1>2. CASE Handle
  <2>1. UNCHANGED proc \/ proc' = Told BY <1>2 DEF Handle, RequestStop, Start
  <2>2. proc' = Told => proc'["bot"].at = proc["bot"].at BY DEF Told, ChildInv, ProcShape, Procs
  <2>. QED BY <2>1, <2>2
<1>3. CASE \E p \in Procs : Works(p) \/ Dies(p)
  <2>1. PICK p \in Procs : Works(p) \/ Dies(p) BY <1>3
  <2>2. \/ UNCHANGED proc
        \/ proc' = [proc EXCEPT ![p] = Gone]
        \/ \E at \in {"cleared", "claimed", "checked", "trading"} : proc' = [proc EXCEPT ![p].at = at]
    BY <2>1 DEF Works, Prepares, Dies, Locks, LauncherRefuses, Claims, CycleRefused, Checks, Opens, CycleEnds,
      CloseEnds, Exits,
      At
  <2>. QED BY <2>2 DEF ChildInv, ProcShape, Procs, Gone
<1>4. CASE \E kind \in {"cycle", "close"} : TerminalStarts(kind)
  BY <1>4 DEF TerminalStarts, ChildInv, ProcShape, Procs, Gone
<1>5. CASE Crash \/ Restart \/ UNCHANGED vars BY <1>5 DEF Crash, Restart, world, vars
<1>. QED BY <1>1, <1>2, <1>3, <1>4, <1>5 DEF Next

\* A cycle is launched only from flat positions and with no other operation
\* under way (admit, _close_before_run and _prepare_next_series_step call
\* launch without an await after their READY proof).
THEOREM LaunchesAreFlat == Spec => LaunchedFlat
<1>1. Init => ChildInv BY ChildInit
<1>2. ChildInv /\ [Next]_vars => ChildInv' BY ChildStep
<1>3. ChildInv /\ [Next]_vars =>
        [/\ proc["bot"].at # "spawned" /\ proc'["bot"].at = "spawned"
         /\ proc'["bot"].kind = "cycle"
         => pos = "flat" /\ lock = "free"]_vars
  BY LaunchStep DEF FlatLaunch
<1>. QED BY <1>1, <1>2, <1>3, PTL DEF Spec, LaunchedFlat

-----------------------------------------------------------------------------
(* Types. *)

\* The types, and that an offset is the number of an update to come.
TypeInv ==
    /\ TypeOK
    /\ mem.offset \in Nat \ {0} /\ disk.offset \in Nat \ {0}
    /\ pc = "stopping" => stop # NoUid

Ways == [at : {"none", "spawned", "cleared", "claimed", "checked", "trading"},
         kind : {"cycle", "close"}, uid : Uids \union {NoUid},
         told : {"none", "spawned", "cleared", "claimed"}]

\* The types at the start.
LEMMA TypeInit == Init => TypeInv
<1>. SUFFICES ASSUME Init PROVE TypeInv OBVIOUS
<1>. USE DEF Init
<1>1. NoActive \in Actives BY DEF NoActive, Actives, NoUid
<1>2. NewStore \in Stores /\ NewStore.offset = 1 BY <1>1 DEF NewStore, Stores
<1>3. Gone \in Ways BY DEF Gone, Ways
<1>4. op \in [action : {"run", "close"}, uid : Uids \union {NoUid}, total : 1..MaxSeries,
              step : 1..MaxSeries, safe : BOOLEAN, base : Nat]
  BY BoundsAssumption DEF NoOp
<1>5. log \in Seq(Commands) /\ cycles \in Seq(Slots) /\ closes \in Seq(Slots) OBVIOUS
<1>. QED
  <2>1. proc \in [Procs -> Ways] BY <1>3
  <2>2. TypeOK BY <1>2, <1>4, <1>5, <2>1 DEF TypeOK, Ways, Waits, NoUid
  <2>. QED BY <1>2, <2>2 DEF TypeInv

\* What a task may write into the state.
LEMMA StoreWith ==
    ASSUME NEW m \in Stores, NEW a \in Actives
    PROVE  [m EXCEPT !.active = a] \in Stores /\ [m EXCEPT !.active = a].active = a
BY DEF Stores

LEMMA ActiveBefore == \A a \in Actives : a.before \in Nat
BY DEF Actives

LEMMA StoreTypes ==
    ASSUME TypeInv, NEW m \in Stores
    PROVE  /\ \A a \in Actives : [m EXCEPT !.active = a] \in Stores
           /\ \A l \in {"none", "NOT_LAUNCHED", "FINISHED", "BLOCKED"} : [m EXCEPT !.last = l] \in Stores
           /\ \A r \in {"none", "FLAT", "NOT_PROVED"} : [m EXCEPT !.lastStop = r] \in Stores
           /\ \A n \in Nat : [m EXCEPT !.offset = n] \in Stores
BY DEF Stores

\* A judgement of a command changes its record and its result only.
LEMMA FinishType ==
    ASSUME TypeInv, NEW m \in Stores, NEW retain \in BOOLEAN
    PROVE  /\ Finish(m, retain) \in Stores
           /\ Finish(m, retain).offset = m.offset
           /\ Finish(m, retain).lastStop = m.lastStop
           /\ Finish(m, retain).active \in {m.active, NoActive}
<1>1. NoActive \in Actives BY DEF NoActive, Actives, NoUid
<1>. DEFINE a == m.active
            slots == IF a.action = "close" THEN closes ELSE cycles
            none == Len(slots) = a.before
            safe == IF none THEN NothingLeft(a) ELSE AddedFlat(slots, a.before)
            keep == ~safe \/ (retain /\ ~none /\ a.action = "run")
            status == CASE ~safe -> "BLOCKED" [] none -> "NOT_LAUNCHED" [] OTHER -> "FINISHED"
<1>2. Finish(m, retain) = IF a.action = "none" THEN m
                          ELSE [m EXCEPT !.last = status, !.active = IF keep THEN a ELSE NoActive]
  BY DEF Finish
<1>3. status \in {"NOT_LAUNCHED", "FINISHED", "BLOCKED"} BY Zenon
<1>. HIDE DEF status, keep
<1>. QED BY <1>1, <1>2, <1>3 DEF Stores

\* A store that may be saved.
Sound(m) == m \in Stores /\ m.offset \in Nat \ {0}

\* What the saves of a task leave in mem, disk and failures.
Kept == Sound(mem') /\ Sound(disk') /\ failures' \in Nat

\* The count of failed writes stays a number.
LEMMA FailsType == ASSUME TypeInv, NEW n \in Nat, Fails(n) PROVE failures' \in Nat
BY DEF Fails, TypeInv, TypeOK

\* A save, a refusal, an exception and a finished stop keep the types.
LEMMA SaveTypes ==
    ASSUME TypeInv, NEW m, Sound(m)
    PROVE  /\ Save(m) => Kept
           /\ \A n \in Nat : \A ds : Refuse(m, n, ds) /\ (\A d \in ds : Sound(d)) =>
                 /\ Kept /\ pc' \in {"idle", "stopping"}
                 /\ pc' = "stopping" => stop # NoUid
           /\ \A n \in Nat : \A ds : Raise(m, n, ds) /\ (\A d \in ds : Sound(d)) =>
                 /\ Kept /\ pc' \in {"idle", "stopping"}
                 /\ pc' = "stopping" => stop # NoUid
           /\ \A r \in {"FLAT", "NOT_PROVED"} : StopDone(m, r) =>
                 Kept /\ pc' = "idle" /\ stop' = NoUid /\ marker' \in BOOLEAN
<1>1. Sound(disk) /\ Sound(mem) /\ failures \in Nat BY DEF Sound, TypeInv, TypeOK
<1>2. Save(m) => Kept BY <1>1 DEF Save, Kept
<1>3. ASSUME NEW n \in Nat, NEW ds, Refuse(m, n, ds), \A d \in ds : Sound(d)
      PROVE  Kept /\ pc' \in {"idle", "stopping"} /\ (pc' = "stopping" => stop # NoUid)
  BY <1>3, FailsType, <1>1 DEF Refuse, Kept, Ends
<1>4. ASSUME NEW n \in Nat, NEW ds, Raise(m, n, ds), \A d \in ds : Sound(d)
      PROVE  Kept /\ pc' \in {"idle", "stopping"} /\ (pc' = "stopping" => stop # NoUid)
  <2>1. failures' \in Nat BY <1>4, FailsType DEF Raise
  <2>2. Sound([m EXCEPT !.last = "BLOCKED"]) BY DEF Sound, Stores
  <2>. QED BY <1>1, <1>4, <2>1, <2>2 DEF Raise, Kept, Ends
<1>5. ASSUME NEW r \in {"FLAT", "NOT_PROVED"}, StopDone(m, r)
      PROVE  Kept /\ pc' = "idle" /\ stop' = NoUid /\ marker' \in BOOLEAN
  <2>1. failures' \in Nat BY <1>5, FailsType DEF StopDone
  <2>2. Sound([m EXCEPT !.lastStop = r]) BY DEF Sound, Stores
  <2>3. marker \in BOOLEAN BY DEF TypeInv, TypeOK
  <2>. QED BY <1>1, <1>5, <2>1, <2>2, <2>3 DEF StopDone, Kept
<1>. QED BY <1>2, <1>3, <1>4, <1>5

\* What a store may become.
LEMMA SoundStores ==
    ASSUME NEW m, Sound(m)
    PROVE  /\ \A a \in Actives : Sound([m EXCEPT !.active = a])
           /\ \A r \in {"none", "FLAT", "NOT_PROVED"} : Sound([m EXCEPT !.lastStop = r])
           /\ \A ph \in {"none", "AUTO_CLOSE", "RUN"} : Sound([m EXCEPT !.active.phase = ph])
           /\ \A n \in Nat : Sound([m EXCEPT !.active.phase = "AUTO_CLOSE", !.active.closeBefore = n])
           /\ \A n \in Nat : Sound([m EXCEPT !.active.index = @ + 1, !.active.before = n,
                                             !.active.phase = "none", !.active.closeBefore = 0])
<1>. DEFINE a == m.active
<1>1. m \in Stores /\ a \in Actives /\ m.offset \in Nat \ {0} BY DEF Sound, Stores
<1>2. ASSUME NEW b \in Actives PROVE Sound([m EXCEPT !.active = b]) BY <1>1 DEF Sound, Stores
<1>3. \A r \in {"none", "FLAT", "NOT_PROVED"} : Sound([m EXCEPT !.lastStop = r]) BY <1>1 DEF Sound, Stores
<1>4. ASSUME NEW ph \in {"none", "AUTO_CLOSE", "RUN"} PROVE Sound([m EXCEPT !.active.phase = ph])
  BY <1>1, <1>2 DEF Actives, Stores
<1>5. ASSUME NEW n \in Nat
      PROVE  Sound([m EXCEPT !.active.phase = "AUTO_CLOSE", !.active.closeBefore = n])
  BY <1>1, <1>2 DEF Actives, Stores
<1>6. ASSUME NEW n \in Nat
      PROVE  Sound([m EXCEPT !.active.index = @ + 1, !.active.before = n,
                             !.active.phase = "none", !.active.closeBefore = 0])
  <2>1. [a EXCEPT !.index = @ + 1, !.before = n, !.phase = "none", !.closeBefore = 0] \in Actives
    <3>1. a.index + 1 \in Nat BY <1>1 DEF Actives
    <3>2. \A k \in Nat : [a EXCEPT !.index = k, !.before = n, !.phase = "none", !.closeBefore = 0] \in Actives
      BY <1>1 DEF Actives
    <3>. QED BY <3>1, <3>2
  <2>2. [m EXCEPT !.active.index = @ + 1, !.active.before = n,
                  !.active.phase = "none", !.active.closeBefore = 0]
           = [m EXCEPT !.active = [a EXCEPT !.index = @ + 1, !.before = n,
                                            !.phase = "none", !.closeBefore = 0]]
    BY <1>1 DEF Stores
  <2>. QED BY <1>2, <2>1, <2>2
<1>. QED BY <1>2, <1>3, <1>4, <1>5, <1>6

\* The world keeps its types under a proof, a launch and a child given up.
WorldTypes ==
    /\ cycles' \in Seq(Slots) /\ closes' \in Seq(Slots)
    /\ proc' \in [Procs -> Ways]
    /\ lock' \in Procs \union {"free"} /\ pos' \in {"flat", "held"} /\ terminals' \in Nat

\* A history that is settled keeps its length.
LEMMA SettledType ==
    ASSUME NEW slots \in Seq(Slots)
    PROVE  Settled(slots) \in Seq(Slots) /\ Len(Settled(slots)) = Len(slots)
<1>1. ASSUME NEW i \in DOMAIN slots PROVE [slots[i] EXCEPT !.end = "settled"] \in Slots
  <2>1. slots[i] \in Slots OBVIOUS
  <2>. QED BY <2>1 DEF Slots
<1>. QED BY <1>1 DEF Settled

\* The world keeps its types under what a task may do to it.
LEMMA TypesOfWorld ==
    ASSUME TypeInv
    PROVE  /\ UNCHANGED world => WorldTypes
           /\ Proved => cycles' \in Seq(Slots) /\ closes' \in Seq(Slots) /\ UNCHANGED <<lock, pos, terminals>>
           /\ \A kind \in {"cycle", "close"}, uid \in Uids \union {NoUid} :
                 Spawn(kind, uid) => proc' \in [Procs -> Ways]
           /\ GivesUp => proc' \in [Procs -> Ways]
<1>1. /\ cycles \in Seq(Slots) /\ closes \in Seq(Slots) /\ proc \in [Procs -> Ways]
      /\ lock \in Procs \union {"free"} /\ pos \in {"flat", "held"} /\ terminals \in Nat
  BY DEF TypeInv, TypeOK, Ways
<1>2. Proved => cycles' \in Seq(Slots) /\ closes' \in Seq(Slots) /\ UNCHANGED <<lock, pos, terminals>>
  BY <1>1, SettledType DEF Proved
<1>3. ASSUME NEW kind \in {"cycle", "close"}, NEW uid \in Uids \union {NoUid}, Spawn(kind, uid)
      PROVE  proc' \in [Procs -> Ways]
  BY <1>1, <1>3 DEF Gone, Ways, Spawn
<1>4. GivesUp => proc' \in [Procs -> Ways]
  <2>1. Gone \in Ways BY DEF Gone, Ways
  <2>. QED BY <1>1, <2>1 DEF GivesUp
<1>. QED BY <1>1, <1>2, <1>3, <1>4 DEF world, WorldTypes

\* The controller's own variables a task leaves alone or may set.
Rest == UNCHANGED others /\ op' = op /\ stop' = stop /\ marker' = marker

\* Any step that keeps the types of its parts keeps them all.
LEMMA TypeParts ==
    ASSUME TypeInv, Kept, WorldTypes, log' \in Seq(Commands), up' \in BOOLEAN, crashes' \in Nat,
           pc' \in Waits, pc' = "stopping" => stop' # NoUid,
           stop' \in Uids \union {NoUid}, marker' \in BOOLEAN,
           op' \in [action : {"run", "close"}, uid : Uids \union {NoUid}, total : 1..MaxSeries,
                    step : 1..MaxSeries, safe : BOOLEAN, base : Nat]
    PROVE  TypeInv'
BY DEF TypeInv, TypeOK, Kept, WorldTypes, Sound, Ways

\* Types under the task.
LEMMA TypeTask == ASSUME TypeInv, Task PROVE TypeInv'
<1>. DEFINE Ops == [action : {"run", "close"}, uid : Uids \union {NoUid}, total : 1..MaxSeries,
                    step : 1..MaxSeries, safe : BOOLEAN, base : Nat]
<1>a. /\ log \in Seq(Commands) /\ up \in BOOLEAN /\ crashes \in Nat /\ op \in Ops
      /\ stop \in Uids \union {NoUid} /\ marker \in BOOLEAN /\ pc \in Waits
      /\ failures \in Nat /\ cycles \in Seq(Slots) /\ closes \in Seq(Slots)
  BY DEF TypeInv, TypeOK
<1>b. Sound(mem) /\ Sound(disk) BY DEF TypeInv, TypeOK, Sound
<1>c. op.uid \in Uids \union {NoUid} /\ op.action \in {"run", "close"} /\ op.total \in Nat BY <1>a
<1>d. Len(cycles) \in Nat /\ Len(closes) \in Nat /\ 0 \in Nat /\ 1 \in Nat BY <1>a
<1>e. NoActive \in Actives /\ Record \in Actives /\ Sound([mem EXCEPT !.active = NoActive])
      /\ Sound([mem EXCEPT !.active = Record])
  <2>1. NoActive \in Actives BY DEF NoActive, Actives, NoUid
  <2>2. Record \in Actives BY <2>1, <1>c, <1>d DEF Record, NoActive, Actives
  <2>. QED BY <2>1, <2>2, <1>b, SoundStores
\* The steps that leave the command as it is.
<1>1. ASSUME Rest, Kept, WorldTypes, pc' \in Waits, pc' = "stopping" => stop # NoUid PROVE TypeInv'
  <2>. HIDE DEF Ops
  <2>. QED BY <1>1, <1>a, TypeParts DEF Rest, others, Ops
<1>2. CASE Admit
  <2>1. PICK m : /\ Sound(m)
                 /\ \/ Save(m) /\ pc' = "closeReady"
                    \/ Refuse(m, 1, {disk, m})
    BY <1>2, <1>b, SoundStores DEF Admit
  <2>2. Kept /\ pc' \in Waits /\ (pc' = "stopping" => stop # NoUid) BY <2>1, <1>b, <1>d, SaveTypes DEF Waits
  <2>. QED BY <1>1, <1>2, <2>2, TypesOfWorld DEF Admit, Rest
<1>3. CASE AdmitClose \/ AdmitReady
  <2>. DEFINE m1 == [mem EXCEPT !.active = NoActive]
              m2 == [mem EXCEPT !.active = Record]
  <2>1. /\ \/ Save(m2) /\ \/ \E kind \in {"cycle", "close"} : Spawn(kind, op.uid) /\ pc' = "launch"
                          \/ UNCHANGED proc /\ pc' = "leaving"
           \/ (Refuse(m1, 1, {disk, m1}) \/ Refuse(m2, 1, {m1, m2})) /\ UNCHANGED proc
        /\ Proved /\ Rest
    BY <1>3 DEF AdmitClose, AdmitReady, Recorded, LaunchUnlessStopped, ProvedFlat, Rest
  <2>2. Sound(m1) /\ Sound(m2) BY <1>e
  <2>. HIDE DEF m1, m2
  <2>3. Kept /\ pc' \in Waits /\ (pc' = "stopping" => stop # NoUid) BY <2>1, <2>2, <1>b, <1>d, SaveTypes DEF
    Waits
  <2>4. WorldTypes BY <2>1, <1>c, TypesOfWorld DEF WorldTypes, TypeInv, TypeOK, Ways
  <2>. QED BY <1>1, <2>1, <2>3, <2>4
<1>4. CASE AdmitFlat \/ NextFlat \/ StopFlat
  <2>1. /\ Kept /\ pc' \in Waits \ {"stopping"} /\ Rest /\ Proved /\ UNCHANGED proc
    BY <1>4, <1>a, <1>b DEF AdmitFlat, NextFlat, StopFlat, Kept, ProvedFlat, Waits, Rest
  <2>2. WorldTypes BY <2>1, TypesOfWorld DEF WorldTypes, TypeInv, TypeOK, Ways
  <2>. QED BY <1>1, <2>1, <2>2
<1>5. CASE AdmitHeld \/ NextHeld
  <2>1. PICK m : /\ Sound(m)
                 /\ \/ Save(m) /\ Spawn("close", op.uid) /\ pc' = "preClose"
                    \/ (Refuse(m, 1, {disk, m}) \/ Raise(m, 1, {disk, m})) /\ UNCHANGED proc
    BY <1>d, <1>e, <1>b, SoundStores, <1>5 DEF Actives, AdmitHeld, NextHeld
  <2>2. Proved /\ Rest BY <1>5 DEF AdmitHeld, NextHeld, ProvedHeld, Rest
  <2>3. Kept /\ pc' \in Waits /\ (pc' = "stopping" => stop # NoUid) BY <2>1, <1>b, <1>d, SaveTypes DEF Waits
  <2>4. WorldTypes BY <2>1, <2>2, <1>c, TypesOfWorld DEF WorldTypes, TypeInv, TypeOK, Ways
  <2>. QED BY <1>1, <2>2, <2>3, <2>4
<1>6. CASE AdmissionRefused \/ CheckRaises
  BY <1>6, <1>b, <1>d, SaveTypes, <1>1, TypesOfWorld DEF AdmissionRefused, CheckRaises, Rest, Waits
<1>7. CASE PreClosed
  <2>1. /\ Rest /\ UNCHANGED world
        /\ \/ pc' = "postClose" /\ UNCHANGED <<mem, disk, failures>>
           \/ Raise(mem, 0, {disk})
    BY <1>7 DEF PreClosed, Rest
  <2>2. Kept /\ pc' \in Waits /\ (pc' = "stopping" => stop # NoUid)
    BY <2>1, <1>a, <1>b, <1>d, SaveTypes DEF Waits, Kept
  <2>. QED BY <1>1, <2>1, <2>2, TypesOfWorld
<1>8. CASE ReadyAfterClose \/ NextReady
  <2>1. PICK m : /\ Sound(m)
                 /\ \/ Save(m) /\ \/ Spawn("cycle", op.uid) /\ pc' = "launch"
                                  \/ UNCHANGED proc /\ pc' = "leaving"
                    \/ Raise(m, 1, {disk, m}) /\ UNCHANGED proc
    BY <1>b, SoundStores, <1>8 DEF ReadyAfterClose, NextReady, LaunchUnlessStopped
  <2>2. Proved /\ Rest BY <1>8 DEF ReadyAfterClose, NextReady, ProvedFlat, Rest
  <2>3. Kept /\ pc' \in Waits /\ (pc' = "stopping" => stop # NoUid) BY <2>1, <1>b, <1>d, SaveTypes DEF Waits
  <2>4. WorldTypes BY <2>1, <2>2, <1>c, TypesOfWorld DEF WorldTypes, TypeInv, TypeOK, Ways
  <2>. QED BY <1>1, <2>2, <2>3, <2>4
<1>9. CASE LaunchFails
  <2>1. /\ Rest /\ UNCHANGED <<cycles, closes, lock, pos, terminals>>
        /\ Raise(mem, 0, {disk}) /\ GivesUp
    BY <1>9 DEF LaunchFails, Rest, GivesUp
  <2>2. Kept /\ pc' \in Waits /\ (pc' = "stopping" => stop # NoUid) BY <2>1, <1>b, <1>d, SaveTypes DEF Waits
  <2>3. WorldTypes BY <2>1, TypesOfWorld DEF WorldTypes, TypeInv, TypeOK, Ways
  <2>. QED BY <1>1, <2>1, <2>2, <2>3
<1>10. CASE Judge
  <2>. DEFINE m == Finish(mem, op.step < op.total)
  <2>1. Sound(m) /\ Sound([m EXCEPT !.active = mem.active])
    <3>1. (op.step < op.total) \in BOOLEAN OBVIOUS
    <3>2. mem \in Stores /\ mem.active \in Actives /\ mem.offset \in Nat \ {0} BY <1>b DEF Sound, Stores
    <3>3. m \in Stores /\ m.offset = mem.offset BY <3>1, <3>2, FinishType
    <3>4. Sound(m) BY <3>2, <3>3 DEF Sound
    <3>. QED BY <3>2, <3>4, SoundStores
  <2>2. /\ UNCHANGED others /\ UNCHANGED <<stop, marker>> /\ UNCHANGED world
        /\ \/ /\ Save(m) /\ pc' = "finished"
              /\ op' = [op EXCEPT !.safe = (op.action = "run" /\ m.last = "FINISHED")]
           \/ Raise([m EXCEPT !.active = mem.active], 1, {disk, m}) /\ UNCHANGED op
    BY <1>10 DEF Judge
  <2>. HIDE DEF m
  <2>3. Kept /\ pc' \in Waits /\ (pc' = "stopping" => stop # NoUid) BY <2>1, <2>2, <1>b, <1>d, SaveTypes DEF
    Waits
  <2>4. op' \in Ops BY <1>a, <2>2
  <2>. HIDE DEF Ops
  <2>. QED BY <1>a, <2>2, <2>3, <2>4, TypesOfWorld, TypeParts DEF others, Ops
<1>11. CASE NextStep
  <2>. DEFINE m == [mem EXCEPT !.active.index = @ + 1, !.active.before = Len(cycles),
                               !.active.phase = "none", !.active.closeBefore = 0]
  <2>1. Sound(m) BY <1>b, <1>d, SoundStores
  <2>2. /\ UNCHANGED others /\ UNCHANGED <<stop, marker>> /\ UNCHANGED world
        /\ op.step < op.total /\ op' = [op EXCEPT !.step = @ + 1]
        /\ \/ Save(m) /\ pc' = "pause"
           \/ Raise(m, 1, {disk, m})
    BY <1>11 DEF NextStep
  <2>. HIDE DEF m
  <2>3. Kept /\ pc' \in Waits /\ (pc' = "stopping" => stop # NoUid) BY <2>1, <2>2, <1>b, <1>d, SaveTypes DEF
    Waits
  <2>4. op' \in Ops
    <3>1. op.step + 1 \in 1..MaxSeries BY <1>a, <2>2, BoundsAssumption
    <3>. QED BY <1>a, <2>2, <3>1
  <2>. HIDE DEF Ops
  <2>. QED BY <1>a, <2>2, <2>3, <2>4, TypesOfWorld, TypeParts DEF others, Ops
<1>12. CASE PauseEnds BY <1>12, <1>a, <1>b, <1>1, TypesOfWorld DEF PauseEnds, Rest, Kept, Waits
<1>13. CASE Leave
  <2>. DEFINE m == Finish(mem, FALSE)
  <2>1. Sound(m) /\ Sound([m EXCEPT !.active = mem.active])
    <3>1. Sound(m) /\ mem.active \in Actives BY <1>b, FinishType DEF Sound, Stores
    <3>. QED BY <3>1, SoundStores
  <2>2. /\ Rest /\ UNCHANGED world
        /\ \/ Save(m) /\ Ends
           \/ Raise([m EXCEPT !.active = mem.active], 1, {disk, m})
           \/ Ends /\ UNCHANGED <<mem, disk, failures>>
    BY <1>13 DEF Leave, Rest
  <2>. HIDE DEF m
  <2>3. Kept /\ pc' \in Waits /\ (pc' = "stopping" => stop # NoUid)
    <3>1. CASE Raise([m EXCEPT !.active = mem.active], 1, {disk, m}) BY <3>1, <2>1, <1>b, <1>d, SaveTypes DEF
      Waits
    <3>2. CASE Save(m) /\ Ends BY <3>2, <2>1, SaveTypes DEF Waits, Ends
    <3>3. CASE Ends /\ UNCHANGED <<mem, disk, failures>> BY <3>3, <1>a, <1>b DEF Waits, Ends, Kept
    <3>. QED BY <2>2, <3>1, <3>2, <3>3
  <2>. QED BY <1>1, <2>2, <2>3, TypesOfWorld
<1>14. CASE StopHeld
  <2>. DEFINE m == [mem EXCEPT !.active = [NoActive EXCEPT !.action = "close", !.uid = stop,
                                                           !.before = Len(closes)]]
  <2>1. Sound(m)
    <3>1. [NoActive EXCEPT !.action = "close", !.uid = stop, !.before = Len(closes)] \in Actives
      BY <1>a, <1>d, <1>e DEF Actives
    <3>. QED BY <3>1, <1>b, SoundStores
  <2>2. /\ UNCHANGED <<others, op>> /\ Proved
        /\ \/ Save(m) /\ Spawn("close", stop) /\ pc' = "stopClose" /\ UNCHANGED <<stop, marker>>
           \/ StopDone(m, "NOT_PROVED") /\ UNCHANGED proc
    BY <1>14 DEF StopHeld, ProvedHeld
  <2>. HIDE DEF m
  <2>3. Kept /\ pc' \in {"idle", "stopClose"} /\ stop' \in {stop, NoUid} /\ marker' \in BOOLEAN
    BY <2>1, <2>2, <1>a, SaveTypes
  <2>4. WorldTypes BY <2>2, <1>a, TypesOfWorld DEF WorldTypes, TypeInv, TypeOK, Ways
  <2>. HIDE DEF Ops
  <2>. QED BY <1>a, <2>2, <2>3, <2>4, TypeParts DEF others, Ops, Waits
<1>15. CASE StopClosed \/ StopProved \/ StopUnproved \/ StopLaunchFails
  <2>1. /\ UNCHANGED <<others, op>>
        /\ \/ pc' = "stopReady" /\ UNCHANGED <<mem, disk, stop, marker, failures>>
           \/ StopDone(mem, "NOT_PROVED")
           \/ StopDone([mem EXCEPT !.active = NoActive], "FLAT")
    BY <1>15 DEF StopClosed, StopProved, StopUnproved, StopLaunchFails
  <2>2. Kept /\ pc' \in {"idle", "stopReady"} /\ stop' \in {stop, NoUid} /\ marker' \in BOOLEAN
    BY <2>1, <1>a, <1>b, <1>e, SaveTypes DEF Kept
  <2>3. WorldTypes
    BY <1>15, TypesOfWorld DEF StopClosed, StopProved, StopUnproved, StopLaunchFails, ProvedFlat, GivesUp,
      WorldTypes, TypeInv, TypeOK, Ways
  <2>. HIDE DEF Ops
  <2>. QED BY <1>a, <2>1, <2>2, <2>3, TypeParts DEF others, Ops, Waits
<1>. QED BY <1>2, <1>3, <1>4, <1>5, <1>6, <1>7, <1>8, <1>9, <1>10, <1>11, <1>12, <1>13, <1>14, <1>15 DEF Task

\* Types under an update.
LEMMA TypeHandle == ASSUME TypeInv, Handle PROVE TypeInv'
<1>. DEFINE Ops == [action : {"run", "close"}, uid : Uids \union {NoUid}, total : 1..MaxSeries,
                    step : 1..MaxSeries, safe : BOOLEAN, base : Nat]
            uid == mem.offset
            m == Consumed(mem, uid)
<1>a. /\ log \in Seq(Commands) /\ up \in BOOLEAN /\ crashes \in Nat /\ op \in Ops
      /\ stop \in Uids \union {NoUid} /\ marker \in BOOLEAN /\ pc \in Waits
      /\ failures \in Nat /\ proc \in [Procs -> Ways] /\ Len(cycles) \in Nat
      /\ pc = "stopping" => stop # NoUid
  BY DEF TypeInv, TypeOK, Ways
<1>b. Sound(mem) /\ Sound(disk) /\ uid \in Uids /\ uid # NoUid
  BY BoundsAssumption DEF TypeInv, TypeOK, Sound, Handle, Uids, NoUid
<1>c. Sound(m) BY <1>b DEF Sound, Stores, Consumed, Uids
<1>. HIDE DEF m
<1>1. PICK c \in Commands :
        /\ log' = log \/ log' = Append(log, c)
        /\ \/ /\ mem' = m /\ disk' = m
              /\ RequestStop(uid) \/ (c.action # "stop" /\ Start(uid, c))
              /\ UNCHANGED up
           \/ /\ Fails(1) /\ disk' \in {disk, m} /\ mem' = disk'
              /\ up' = FALSE /\ pc' = "idle" /\ op' = NoOp /\ stop' = NoUid
              /\ UNCHANGED <<marker, proc>>
        /\ UNCHANGED <<cycles, closes, lock, pos, terminals, crashes>>
  <2>1. \A i \in 1..Len(log) : log[i] \in Commands BY <1>a
  <2>2. uid <= Len(log) => log[uid] \in Commands BY <1>a, <1>b, <2>1 DEF Uids
  <2>. HIDE DEF uid
  <2>3. PICK c \in IF uid <= Len(log) THEN {log[uid]} ELSE Commands :
            /\ log' = IF uid <= Len(log) THEN log ELSE Append(log, c)
            /\ \/ /\ mem' = m /\ disk' = m
                  /\ IF c.action = "stop" THEN RequestStop(uid) ELSE Start(uid, c)
                  /\ UNCHANGED up
               \/ /\ Fails(1)
                  /\ disk' \in {disk, m} /\ mem' = disk'
                  /\ up' = FALSE /\ pc' = "idle" /\ op' = NoOp /\ stop' = NoUid
                  /\ UNCHANGED <<marker, proc>>
            /\ UNCHANGED <<cycles, closes, lock, pos, terminals, crashes>>
    BY DEF Handle, m, uid
  <2>4. c \in Commands BY <2>2, <2>3
  <2>. QED BY <2>3, <2>4
<1>d. log' \in Seq(Commands) BY <1>1, <1>a
<1>2. NoOp \in Ops BY BoundsAssumption DEF NoOp, NoUid
<1>3. CASE RequestStop(uid) /\ mem' = m /\ disk' = m /\ UNCHANGED up
  <2>1. proc' \in [Procs -> Ways]
    <3>1. Told \in [Procs -> Ways]
      <4>1. ASSUME NEW p \in Procs
            PROVE  (IF proc[p].told = "none" /\ proc[p].at \notin {"checked", "trading"}
                    THEN [proc[p] EXCEPT !.told = proc[p].at] ELSE proc[p]) \in Ways
        BY <1>a DEF Ways
      <4>. QED BY <4>1 DEF Told
    <3>2. proc' = Told \/ proc' = proc BY <1>3 DEF RequestStop
    <3>. QED BY <1>a, <3>1, <3>2
  <2>2. failures' \in Nat BY <1>3, <1>a, FailsType DEF RequestStop
  <2>3. /\ pc' \in {pc, "stopping"} /\ op' = op /\ stop' \in {stop, uid} /\ marker' \in BOOLEAN
        /\ pc' = "stopping" => stop' # NoUid
    BY <1>3, <1>a, <1>b DEF RequestStop
  <2>4. Kept /\ WorldTypes BY <1>1, <1>3, <1>c, <2>1, <2>2, TypesOfWorld DEF Kept, WorldTypes, TypeInv, TypeOK
  <2>. HIDE DEF uid, Ops
  <2>. QED BY <1>1, <1>3, <1>a, <1>b, <1>d, <2>3, <2>4, TypeParts DEF Waits, Ops
<1>4. CASE c.action # "stop" /\ Start(uid, c) /\ mem' = m /\ disk' = m /\ UNCHANGED up
  <2>1. c.action \in {"run", "close"} /\ c.total \in 1..MaxSeries BY <1>4, BoundsAssumption DEF Commands
  <2>2. failures' \in Nat BY <1>4, <1>a, FailsType DEF Start
  <2>3. /\ pc' \in {pc, "admit"} /\ UNCHANGED <<stop, proc>> /\ marker' \in BOOLEAN
        /\ \/ op' = op
           \/ op' = [action |-> c.action, uid |-> uid, total |-> c.total,
                     step |-> 1, safe |-> FALSE, base |-> Len(cycles)]
    BY <1>4, <1>a DEF Start
  <2>4. op' \in Ops
    <3>1. 1 \in 1..MaxSeries BY BoundsAssumption
    <3>2. \A u \in Uids, a \in {"run", "close"}, t \in 1..MaxSeries :
             [action |-> a, uid |-> u, total |-> t, step |-> 1, safe |-> FALSE,
              base |-> Len(cycles)] \in Ops
      BY <1>a, <3>1
    <3>. HIDE DEF uid, Ops
    <3>3. [action |-> c.action, uid |-> uid, total |-> c.total, step |-> 1, safe |-> FALSE,
           base |-> Len(cycles)] \in Ops
      BY <1>b, <2>1, <3>2
    <3>. QED BY <1>a, <2>3, <3>3
  <2>5. Kept /\ WorldTypes BY <1>1, <1>4, <1>a, <1>c, <2>2, <2>3 DEF Kept, WorldTypes, TypeInv, TypeOK
  <2>. HIDE DEF uid, Ops
  <2>. QED BY <1>1, <1>4, <1>a, <1>d, <2>3, <2>4, <2>5, TypeParts DEF Waits, Ops
<1>5. CASE /\ Fails(1) /\ disk' \in {disk, m} /\ mem' = disk'
           /\ up' = FALSE /\ pc' = "idle" /\ op' = NoOp /\ stop' = NoUid
           /\ UNCHANGED <<marker, proc>>
  <2>1. failures' \in Nat BY <1>5, FailsType
  <2>2. Kept /\ WorldTypes BY <1>1, <1>5, <1>a, <1>b, <1>c, <2>1 DEF Kept, WorldTypes, TypeInv, TypeOK
  <2>. HIDE DEF uid, Ops
  <2>. QED BY <1>1, <1>5, <1>a, <1>d, <1>2, <2>2, TypeParts DEF Waits, Ops
<1>. QED BY <1>1, <1>3, <1>4, <1>5

\* The steps of the processes and of the terminal keep the controller.
LEMMA TypeController ==
    ASSUME TypeInv, UNCHANGED controller, WorldTypes
    PROVE  TypeInv'
BY TypeParts DEF controller, Kept, Sound, TypeInv, TypeOK, others

\* Types under the children and the terminal.
LEMMA TypeWorld ==
    ASSUME TypeInv, NEW p \in Procs, Works(p) \/ Dies(p)
    PROVE  TypeInv'
<1>. USE DEF At, Exits
<1>a. /\ cycles \in Seq(Slots) /\ closes \in Seq(Slots) /\ proc \in [Procs -> Ways]
      /\ lock \in Procs \union {"free"} /\ pos \in {"flat", "held"} /\ terminals \in Nat
  BY DEF TypeInv, TypeOK, Ways
<1>b. Gone \in Ways /\ proc[p] \in Ways BY <1>a DEF Gone, Ways
<1>c. \A at \in {"cleared", "claimed", "checked", "trading"} : [proc EXCEPT ![p].at = at] \in [Procs -> Ways]
  <2>. SUFFICES ASSUME NEW at \in {"cleared", "claimed", "checked", "trading"}
                PROVE  [proc EXCEPT ![p].at = at] \in [Procs -> Ways]
    OBVIOUS
  <2>1. [proc[p] EXCEPT !.at = at] \in Ways BY <1>b DEF Ways
  <2>2. [proc EXCEPT ![p].at = at] = [proc EXCEPT ![p] = [proc[p] EXCEPT !.at = at]] BY <1>a
  <2>. QED BY <1>a, <2>1, <2>2
<1>d. [proc EXCEPT ![p] = Gone] \in [Procs -> Ways] BY <1>a, <1>b
<1>e. ASSUME NEW slots \in Seq(Slots), NEW end \in {"open", "flat", "bad"}
      PROVE  EndsSlot(slots, end) \in Seq(Slots)
  <2>1. \A i \in DOMAIN slots : [slots[i] EXCEPT !.end = end] \in Slots
    <3>. SUFFICES ASSUME NEW i \in DOMAIN slots PROVE [slots[i] EXCEPT !.end = end] \in Slots OBVIOUS
    <3>1. slots[i] \in Slots OBVIOUS
    <3>. QED BY <3>1 DEF Slots
  <2>2. EndsSlot(slots, end) = [i \in DOMAIN slots |-> IF i = Len(slots) THEN [slots[i] EXCEPT !.end = end] ELSE slots[i]]
    BY DEF EndsSlot
  <2>. QED BY <2>1, <2>2
<1>1. CASE Locks(p) \/ LauncherRefuses(p) \/ Dies(p)
  BY <1>1, <1>a, <1>c, <1>d, TypeController DEF WorldTypes, Locks, LauncherRefuses, Dies
<1>2. CASE Claims(p)
  <2>. DEFINE slot == [uid |-> proc[p].uid, end |-> "open"]
  <2>1. slot \in Slots BY <1>b DEF Ways, Slots
  <2>2. Append(cycles, slot) \in Seq(Slots) /\ Append(closes, slot) \in Seq(Slots) BY <1>a, <2>1
  <2>3. WorldTypes BY <1>2, <1>a, <1>c, <2>2 DEF WorldTypes, Claims
  <2>. QED BY <1>2, <2>3, TypeController DEF Claims
<1>3. CASE CycleRefused(p) BY <1>3, <1>a, <1>d, <1>e, TypeController DEF WorldTypes, CycleRefused
<1>4. CASE Checks(p) BY <1>a, SettledType, <1>4, <1>c, <1>e, TypeController DEF WorldTypes, Checks
<1>7. CASE Opens(p) BY <1>7, <1>a, <1>c, TypeController DEF WorldTypes, Opens
<1>5. CASE CycleEnds(p) BY <1>5, <1>a, <1>d, <1>e, TypeController DEF WorldTypes, CycleEnds
<1>6. CASE CloseEnds(p) BY <1>6, <1>a, <1>d, <1>e, TypeController DEF WorldTypes, CloseEnds
<1>. QED BY <1>1, <1>2, <1>3, <1>4, <1>5, <1>6, <1>7 DEF Works, Prepares

\* Types when an operation is started at a terminal.
LEMMA TypeTerminal ==
    ASSUME TypeInv, NEW kind \in {"cycle", "close"}, TerminalStarts(kind)
    PROVE  TypeInv'
<1>1. /\ cycles \in Seq(Slots) /\ closes \in Seq(Slots) /\ proc \in [Procs -> Ways]
      /\ lock \in Procs \union {"free"} /\ pos \in {"flat", "held"} /\ terminals \in Nat
  BY DEF TypeInv, TypeOK, Ways
<1>2. [Gone EXCEPT !.at = "spawned", !.kind = kind] \in Ways BY DEF Gone, Ways
<1>3. proc' \in [Procs -> Ways] BY <1>1, <1>2 DEF TerminalStarts
<1>4. WorldTypes BY <1>1, <1>3 DEF TerminalStarts, WorldTypes
<1>. QED BY <1>4, TypeController DEF TerminalStarts

\* Types over a crash and a restart.
LEMMA TypeCrash == ASSUME TypeInv, Crash \/ Restart PROVE TypeInv'
<1>a. Sound(disk) /\ NoActive \in Actives /\ failures \in Nat
  BY DEF TypeInv, TypeOK, Sound, NoActive, Actives, NoUid
<1>1. CASE Crash
  <2>1. Kept /\ WorldTypes BY <1>1, <1>a, TypesOfWorld DEF Crash, Kept
  <2>2. op' \in [action : {"run", "close"}, uid : Uids \union {NoUid}, total : 1..MaxSeries,
                 step : 1..MaxSeries, safe : BOOLEAN, base : Nat]
    BY <1>1, BoundsAssumption DEF Crash, NoOp, NoUid
  <2>3. /\ log' = log /\ up' = FALSE /\ pc' = "idle" /\ stop' = NoUid /\ marker' = marker
        /\ crashes' \in Nat
    BY <1>1 DEF Crash, TypeInv, TypeOK
  <2>. QED BY <2>1, <2>2, <2>3, TypeParts DEF TypeInv, TypeOK, Waits
<1>2. CASE Restart
  <2>. DEFINE m == Finish(disk, FALSE)
              last == IF Len(log) >= m.offset THEN Len(log) + 1 ELSE m.offset
  <2>1. Sound(m) BY <1>a, FinishType DEF Sound
  <2>2. last \in Nat \ {0} /\ m.active \in Actives
    <3>. HIDE DEF m
    <3>1. Len(log) \in Nat BY DEF TypeInv, TypeOK
    <3>. QED BY <2>1, <3>1 DEF Sound, Stores
  <2>. HIDE DEF last
  <2>3. \A a \in Actives : Sound([m EXCEPT !.active = a, !.offset = last])
    <3>. HIDE DEF m
    <3>. QED BY <2>1, <2>2 DEF Sound, Stores
  <2>4. PICK a \in {m.active, NoActive} : Save([m EXCEPT !.active = a, !.offset = last])
    <3>. HIDE DEF m
    <3>1. PICK cleared \in BOOLEAN :
             Save([m EXCEPT !.active = IF cleared THEN NoActive ELSE @,
                            !.offset = IF Len(log) >= @ THEN Len(log) + 1 ELSE @])
      BY <1>2 DEF Restart, m
    <3>2. [m EXCEPT !.active = IF cleared THEN NoActive ELSE @,
                    !.offset = IF Len(log) >= @ THEN Len(log) + 1 ELSE @]
             = [m EXCEPT !.active = IF cleared THEN NoActive ELSE m.active, !.offset = last]
      BY <2>1 DEF Sound, Stores, last
    <3>. QED BY <3>1, <3>2
  <2>5. Sound([m EXCEPT !.active = a, !.offset = last]) BY <1>a, <2>2, <2>3
  <2>. HIDE DEF m
  <2>6. Kept BY <2>4, <2>5, SaveTypes
  <2>7. WorldTypes
    <3>1. (Proved \/ UNCHANGED <<cycles, closes, lock, pos, terminals>>) /\ UNCHANGED proc BY <1>2 DEF Restart
    <3>. QED BY <3>1, TypesOfWorld DEF WorldTypes, TypeInv, TypeOK, Ways
  <2>8. up' = TRUE /\ UNCHANGED <<log, pc, op, stop, marker, crashes>> BY <1>2 DEF Restart
  <2>. QED BY <2>6, <2>7, <2>8, TypeParts DEF TypeInv, TypeOK
<1>. QED BY <1>1, <1>2

\* Types under every step.
LEMMA TypeStep == ASSUME TypeInv, [Next]_vars PROVE TypeInv'
<1>1. CASE UNCHANGED vars BY <1>1 DEF vars, world, others, TypeInv, TypeOK
<1>. QED BY <1>1, TypeHandle, TypeTask, TypeCrash, TypeTerminal, TypeWorld DEF Next

\* Type correctness of the controller, its children and its durable state.
THEOREM TypeCorrect == Spec => []TypeOK
<1>1. TypeInv => TypeOK BY DEF TypeInv
<1>2. TypeInv /\ [Next]_vars => TypeInv' BY TypeStep
<1>. QED BY <1>1, <1>2, TypeInit, PTL DEF Spec

-----------------------------------------------------------------------------
(* Where the task is, and what it is about. *)

StopPlaces == {"stopping", "stopClose", "stopReady"}
TaskPlaces == Waits \ ({"idle"} \union StopPlaces)

\* The record and the command each place of the task stands for.
PlaceInv ==
    /\ pc \in TaskPlaces => op.uid # NoUid
    /\ pc \in {"ready", "preClose", "postClose", "pause", "nextCloseReady", "nextReady", "leaving"}
          => op.action = "run"
    /\ pc \in {"preClose", "postClose"} =>
          mem.active.action = "run" /\ mem.active.phase = "AUTO_CLOSE"
    /\ pc \in {"pause", "nextCloseReady", "nextReady"} =>
          mem.active.action = "run" /\ mem.active.phase = "none"
    /\ pc = "launch" => mem.active.action = op.action /\ mem.active.phase # "AUTO_CLOSE"
    /\ pc = "finished" /\ op.safe => op.action = "run"
    /\ pc = "finished" /\ op.safe /\ op.step < op.total => mem.active.action = "run"

\* The record of a command that is about to be launched.
LEMMA RecordType ==
    ASSUME TypeInv
    PROVE  /\ Record \in Actives /\ Record.action = op.action /\ Record.phase = "none"
           /\ Record.before = IF op.action = "run" THEN Len(cycles) ELSE Len(closes)
<1>1. NoActive \in Actives BY DEF NoActive, Actives, NoUid
<1>2. /\ op.uid \in Uids \union {NoUid} /\ op.action \in {"run", "close"} /\ op.total \in Nat
      /\ Len(cycles) \in Nat /\ Len(closes) \in Nat
  BY DEF TypeInv, TypeOK
<1>3. NoActive.phase = "none" BY DEF NoActive
<1>. QED BY <1>1, <1>2, <1>3 DEF Record, Actives

\* What the judgement of a command leaves.
LEMMA FinishResult ==
    ASSUME TypeInv, NEW m \in Stores, NEW retain \in BOOLEAN
    PROVE  LET a == m.active
               slots == IF a.action = "close" THEN closes ELSE cycles
               none == Len(slots) = a.before
               safe == IF none THEN NothingLeft(a) ELSE AddedFlat(slots, a.before)
               f == Finish(m, retain)
           IN  /\ a.action = "none" => f = m
               /\ a.action # "none" =>
                     /\ f.active = a \/ (f.active = NoActive /\ safe)
                     /\ f.last = "FINISHED" => safe /\ ~none
                     /\ safe /\ retain /\ ~none /\ a.action = "run" => f.active = a
<1>. DEFINE a == m.active
            slots == IF a.action = "close" THEN closes ELSE cycles
            none == Len(slots) = a.before
            safe == IF none THEN NothingLeft(a) ELSE AddedFlat(slots, a.before)
            keep == ~safe \/ (retain /\ ~none /\ a.action = "run")
            status == CASE ~safe -> "BLOCKED" [] none -> "NOT_LAUNCHED" [] OTHER -> "FINISHED"
            f == Finish(m, retain)
<1>1. f = IF a.action = "none" THEN m
          ELSE [m EXCEPT !.last = status, !.active = IF keep THEN a ELSE NoActive]
  BY DEF Finish
<1>2. status = "FINISHED" => safe /\ ~none BY Zenon
<1>. HIDE DEF status
<1>3. a.action # "none" => f.last = status /\ f.active = IF keep THEN a ELSE NoActive BY <1>1 DEF Stores
<1>. HIDE DEF f, none, safe
<1>4. a.action = "none" => f = m BY <1>1
<1>. QED BY <1>2, <1>3, <1>4 DEF f, none, safe

\* Each step of the task goes to a place its record stands for.
LEMMA PlaceTask == ASSUME TypeInv, PlaceInv, Task PROVE PlaceInv'
<1>. USE DEF PlaceInv, TaskPlaces, StopPlaces, Waits
<1>a. /\ pc \in Waits /\ mem \in Stores /\ op.action \in {"run", "close"}
      /\ op \in [action : {"run", "close"}, uid : Uids \union {NoUid}, total : 1..MaxSeries,
                 step : 1..MaxSeries, safe : BOOLEAN, base : Nat]
  BY DEF TypeInv, TypeOK
<1>b. mem.active \in Actives /\ Record \in Actives /\ Record.action = op.action /\ Record.phase = "none"
  BY <1>a, RecordType DEF Stores
<1>0. CASE pc' \in {"idle", "stopping", "stopClose", "stopReady"} BY <1>0
<1>1. CASE Admit BY <1>1, <1>0, <1>a DEF Admit, Save, Refuse, Ends
<1>2. CASE AdmitClose \/ AdmitReady
  BY <1>2, <1>a, <1>0, <1>b DEF AdmitClose, AdmitReady, Recorded, Save, Refuse, Ends, LaunchUnlessStopped,
    Stores
<1>3. CASE AdmitFlat \/ StopFlat \/ NextFlat BY <1>3 DEF AdmitFlat, StopFlat, NextFlat
<1>4. CASE AdmitHeld
  <2>. DEFINE a == [Record EXCEPT !.phase = "AUTO_CLOSE", !.closeBefore = Len(closes)]
  <2>1. \/ pc' \in {"idle", "stopping"}
        \/ pc' = "preClose" /\ mem' = [mem EXCEPT !.active = a] /\ op' = op /\ pc = "closeReady" /\ op.action = "run"
    BY <1>4 DEF AdmitHeld, Save, Refuse, Ends
  <2>2. [mem EXCEPT !.active = a].active = a /\ a.action = op.action /\ a.phase = "AUTO_CLOSE"
    BY <1>a, <1>b DEF Stores, Actives
  <2>. QED BY <2>1, <2>2, <1>0
<1>5. CASE AdmissionRefused \/ CheckRaises \/ LaunchFails
  BY <1>5, <1>0 DEF AdmissionRefused, CheckRaises, LaunchFails, Refuse, Raise, Ends
<1>6. CASE PreClosed BY <1>6, <1>0 DEF PreClosed, Raise, Ends
<1>7. CASE ReadyAfterClose
  BY <1>7, <1>a, <1>b, <1>0 DEF ReadyAfterClose, Save, Raise, Ends, LaunchUnlessStopped, Stores, Actives
<1>8. CASE Judge
  <2>. DEFINE m == Finish(mem, op.step < op.total)
  <2>1. \/ pc' \in {"idle", "stopping"}
        \/ /\ pc' = "finished" /\ mem' = m /\ pc = "launch"
           /\ op' = [op EXCEPT !.safe = (op.action = "run" /\ m.last = "FINISHED")]
    BY <1>8 DEF Judge, Save, Raise, Ends
  <2>2. ASSUME op.step < op.total, op.action = "run", m.last = "FINISHED", pc = "launch"
        PROVE  m.active.action = "run"
    BY <1>a, <2>2, FinishResult
  <2>. HIDE DEF m
  <2>3. op'.safe /\ pc' = "finished" => op.action = "run" /\ m.last = "FINISHED" BY <2>1, <1>a
  <2>4. pc' = "finished" => op'.step = op.step /\ op'.total = op.total /\ op'.uid = op.uid /\ op'.action = op.action
    BY <2>1, <1>a
  <2>. QED BY <2>1, <2>2, <2>3, <2>4, <1>0
<1>9. CASE NextStep
  <2>. DEFINE m == [mem EXCEPT !.active.index = @ + 1, !.active.before = Len(cycles),
                               !.active.phase = "none", !.active.closeBefore = 0]
  <2>1. \/ pc' \in {"idle", "stopping"}
        \/ pc' = "pause" /\ mem' = m
    BY <1>9 DEF NextStep, Save, Raise, Ends
  <2>2. /\ m.active.action = mem.active.action /\ m.active.phase = "none" BY <1>a, <1>b DEF Stores, Actives
  <2>3. op' = [op EXCEPT !.step = @ + 1] /\ pc = "finished" /\ op.safe /\ op.step < op.total BY <1>9 DEF
    NextStep
  <2>. HIDE DEF m
  <2>4. op'.uid = op.uid /\ op'.action = op.action BY <1>a, <2>3
  <2>. QED BY <2>1, <2>2, <2>3, <2>4, <1>0
<1>10. CASE PauseEnds BY <1>10 DEF PauseEnds
<1>11. CASE NextHeld
  <2>. DEFINE m == [mem EXCEPT !.active.phase = "AUTO_CLOSE", !.active.closeBefore = Len(closes)]
  <2>1. \/ pc' \in {"idle", "stopping"}
        \/ pc' = "preClose" /\ mem' = m /\ op' = op /\ pc = "nextCloseReady"
    BY <1>11 DEF NextHeld, Save, Raise, Ends
  <2>2. m.active.action = mem.active.action /\ m.active.phase = "AUTO_CLOSE" BY <1>a, <1>b DEF Stores, Actives
  <2>. HIDE DEF m
  <2>. QED BY <2>1, <2>2, <1>0
<1>12. CASE NextReady BY <1>12, <1>0 DEF NextReady, Save, Raise, Ends, LaunchUnlessStopped
<1>13. CASE Leave BY <1>13, <1>0 DEF Leave, Save, Raise, Ends
<1>14. CASE StopHeld \/ StopClosed \/ StopProved \/ StopUnproved \/ StopLaunchFails
  BY <1>14, <1>0 DEF StopHeld, StopClosed, StopProved, StopUnproved, StopLaunchFails, StopDone
<1>. QED BY <1>1, <1>2, <1>3, <1>4, <1>5, <1>6, <1>7, <1>8, <1>9, <1>10, <1>11, <1>12, <1>13, <1>14 DEF Task

\* No other step moves the task or its record.
LEMMA PlaceStep == ASSUME TypeInv, ChildInv, PlaceInv, [Next]_vars PROVE PlaceInv'
<1>. USE DEF PlaceInv, TaskPlaces, StopPlaces, Waits
<1>1. CASE Handle
  <2>1. mem \in Stores /\ mem.offset <= MaxCommands /\ mem.offset # NoUid BY <1>1 DEF TypeInv, TypeOK, Handle,
    NoUid
  <2>2. Consumed(mem, mem.offset).active = mem.active BY <2>1 DEF Consumed, Stores
  <2>3. PICK c :
          \/ pc' = "idle"
          \/ /\ mem' = Consumed(mem, mem.offset)
             /\ RequestStop(mem.offset) \/ Start(mem.offset, c)
    BY <1>1 DEF Handle
  <2>. QED BY <2>1, <2>2, <2>3 DEF RequestStop, Start
<1>2. CASE Crash \/ Restart BY <1>2 DEF Crash, Restart, ChildInv
<1>3. CASE UNCHANGED controller \/ UNCHANGED vars BY <1>3 DEF controller, vars
<1>4. CASE \E p \in Procs : Works(p) \/ Dies(p)
  BY <1>4, <1>3 DEF Works, Prepares, Dies, Locks, LauncherRefuses, Claims, CycleRefused, Checks, Opens,
    CycleEnds, CloseEnds
<1>5. CASE \E kind \in {"cycle", "close"} : TerminalStarts(kind) BY <1>5, <1>3 DEF TerminalStarts
<1>. QED BY <1>1, <1>2, <1>3, <1>4, <1>5, PlaceTask DEF Next

-----------------------------------------------------------------------------
(* The processes, the lock and the slots. *)

Bot == proc["bot"]
Holds == {"cleared", "claimed", "checked", "trading"}
Good == {"flat", "settled"}

SlotsOf(p) == IF proc[p].kind = "cycle" THEN cycles ELSE closes

\* Every slot of the controller among the first n, or at all, ended with proof.
OwnGood(slots, n) ==
    \A i \in DOMAIN slots : i <= n /\ slots[i].uid # NoUid => slots[i].end \in Good
AllGood(slots) == \A i \in DOMAIN slots : slots[i].uid # NoUid => slots[i].end \in Good

\* A slot of an operation started at a terminal.
Foreign(slots) == \E i \in DOMAIN slots : slots[i].uid = NoUid

LastFlat == Len(cycles) > 0 /\ cycles[Len(cycles)].end = "flat"

OwnWorld(p) ==
    /\ proc[p].at \in Holds <=> lock = p
    /\ proc[p].at \in {"claimed", "checked", "trading"} =>
          /\ Len(SlotsOf(p)) > 0
          /\ SlotsOf(p)[Len(SlotsOf(p))].uid = proc[p].uid
          /\ SlotsOf(p)[Len(SlotsOf(p))].end = "open"
    /\ proc[p].at \in {"checked", "trading"} =>
          /\ proc[p].kind = "cycle" /\ pos = "flat" /\ AllGood(closes)
          /\ \A i \in DOMAIN cycles : i < Len(cycles) => cycles[i].end \in Good

\* Whoever holds the lock works on the last slot of its kind, and a position
\* is only held when the last cycle did not end flat.
WorldInv ==
    /\ \A p \in Procs : OwnWorld(p)
    /\ Bot.at # "none" => Bot.uid # NoUid
    /\ proc["term"].at # "none" => proc["term"].uid = NoUid
    /\ pos = "held" => ~LastFlat

\* What settling, ending and adding a slot does.
LEMMA SettledSlots ==
    ASSUME NEW slots \in Seq(Slots)
    PROVE  /\ DOMAIN Settled(slots) = DOMAIN slots /\ Len(Settled(slots)) = Len(slots)
           /\ \A i \in DOMAIN slots :
                 /\ Settled(slots)[i].uid = slots[i].uid
                 /\ Settled(slots)[i].end \in Good
                 /\ Settled(slots)[i].end = "flat" <=> slots[i].end = "flat"
<1>1. DOMAIN Settled(slots) = DOMAIN slots /\ Len(Settled(slots)) = Len(slots) BY SettledType DEF Settled
<1>2. ASSUME NEW i \in DOMAIN slots
      PROVE  /\ Settled(slots)[i].uid = slots[i].uid
             /\ Settled(slots)[i].end \in Good
             /\ Settled(slots)[i].end = "flat" <=> slots[i].end = "flat"
  BY DEF Settled, Slots, Good
<1>. QED BY <1>1, <1>2

\* Ending a slot changes the end of the last slot only.
LEMMA EndedSlots ==
    ASSUME NEW slots \in Seq(Slots), NEW end \in {"open", "flat", "bad"}, Len(slots) > 0
    PROVE  /\ EndsSlot(slots, end) \in Seq(Slots)
           /\ DOMAIN EndsSlot(slots, end) = DOMAIN slots
           /\ Len(EndsSlot(slots, end)) = Len(slots)
           /\ EndsSlot(slots, end)[Len(slots)].end = end
           /\ \A i \in DOMAIN slots :
                 /\ EndsSlot(slots, end)[i].uid = slots[i].uid
                 /\ i # Len(slots) => EndsSlot(slots, end)[i] = slots[i]
<1>. DEFINE t == EndsSlot(slots, end)
<1>1. \A i \in DOMAIN slots : slots[i] \in Slots OBVIOUS
<1>2. \A i \in DOMAIN slots : [slots[i] EXCEPT !.end = end] \in Slots BY <1>1 DEF Slots
<1>3. t = [i \in DOMAIN slots |-> IF i = Len(slots) THEN [slots[i] EXCEPT !.end = end] ELSE slots[i]]
  BY DEF EndsSlot
<1>4. t \in Seq(Slots) /\ DOMAIN t = DOMAIN slots /\ Len(t) = Len(slots) BY <1>1, <1>2, <1>3
<1>5. Len(slots) \in DOMAIN slots OBVIOUS
<1>6. t[Len(slots)].end = end BY <1>1, <1>3, <1>5 DEF Slots
<1>7. \A i \in DOMAIN slots : t[i].uid = slots[i].uid /\ (i # Len(slots) => t[i] = slots[i]) BY <1>1, <1>3 DEF
  Slots
<1>. QED BY <1>4, <1>6, <1>7

\* A new slot is the last one.
LEMMA AddedSlots ==
    ASSUME NEW slots \in Seq(Slots), NEW slot \in Slots
    PROVE  LET t == Append(slots, slot) IN
           /\ t \in Seq(Slots) /\ Len(t) = Len(slots) + 1 /\ t[Len(t)] = slot
           /\ DOMAIN t = DOMAIN slots \union {Len(slots) + 1}
           /\ \A i \in DOMAIN slots : t[i] = slots[i]
OBVIOUS

\* Every step of the task waits for its child, creates one or gives it up, and
\* touches nothing else of the world unless under a recovery proof.
LEMMA TaskWorld ==
    ASSUME TypeInv, ChildInv, PlaceInv, Task
    PROVE  /\ UNCHANGED <<cycles, closes, lock, pos, terminals>> \/ Proved
           /\ UNCHANGED terminals
           /\ \/ Bot.at = "none" /\ UNCHANGED proc
              \/ Bot.at = "none" /\ \E kind \in {"cycle", "close"}, uid \in Uids : Spawn(kind, uid)
              \/ Bot.at = "spawned" /\ GivesUp /\ UNCHANGED <<cycles, closes, lock, pos>>
<1>. USE DEF world, others
<1>a. /\ stop \in Uids \union {NoUid} /\ op.uid \in Uids \union {NoUid}
      /\ pc = "stopping" => stop # NoUid
      /\ pc \in Waits
  BY DEF TypeInv, TypeOK
<1>b. pc \in TaskPlaces => op.uid \in Uids BY <1>a DEF PlaceInv
<1>c. pc = "stopping" => stop \in Uids BY <1>a
<1>d. up BY TaskCases
<1>e. pc \notin ChildWaits => Bot.at = "none" BY <1>d DEF ChildInv, Bot
<1>. USE DEF TaskPlaces, StopPlaces, Waits, ChildWaits, Bot
<1>1. CASE Admit \/ AdmissionRefused \/ PreClosed \/ Judge \/ NextStep
              \/ PauseEnds \/ CheckRaises \/ Leave \/ StopClosed \/ StopUnproved
  BY <1>1, <1>e DEF Admit, AdmissionRefused, PreClosed, Judge, NextStep, PauseEnds, CheckRaises, Leave,
    StopClosed, StopUnproved
<1>2. CASE AdmitFlat \/ NextFlat \/ StopFlat \/ StopProved
  BY <1>2, <1>e DEF AdmitFlat, NextFlat, StopFlat, StopProved, ProvedFlat, Proved
<1>3. CASE LaunchFails \/ StopLaunchFails BY <1>3 DEF LaunchFails, StopLaunchFails, GivesUp
<1>4. CASE AdmitClose \/ AdmitReady
  BY <1>4, <1>b, <1>e DEF AdmitClose, AdmitReady, ProvedFlat, Recorded, LaunchUnlessStopped, Proved
<1>5. CASE AdmitHeld \/ NextHeld \/ ReadyAfterClose \/ NextReady
  BY <1>5, <1>b, <1>e DEF AdmitHeld, NextHeld, ReadyAfterClose, NextReady, ProvedFlat, ProvedHeld,
    LaunchUnlessStopped, Proved
<1>6. CASE StopHeld BY <1>6, <1>c, <1>e DEF StopHeld, ProvedHeld, Proved
<1>. QED BY <1>1, <1>2, <1>3, <1>4, <1>5, <1>6 DEF Task

\* A process that neither moves nor sees its slots move keeps its part.
LEMMA OwnKept ==
    ASSUME TypeInv, NEW p \in Procs, OwnWorld(p), proc'[p] = proc[p], lock' = lock,
           UNCHANGED <<cycles, closes, pos>> \/ lock # p
    PROVE  OwnWorld(p)'
BY DEF OwnWorld, Holds, SlotsOf, AllGood

\* Settling ends no cycle flat.
LEMMA SettledLast ==
    ASSUME TypeInv, Proved
    PROVE  LastFlat' <=> LastFlat
BY SettledSlots DEF Proved, LastFlat, TypeInv, TypeOK

\* The task meets the world only at a proof and at a launch.
LEMMA WorldTask == ASSUME TypeInv, ChildInv, PlaceInv, WorldInv, Task PROVE WorldInv'
<1>a. "bot" \in Procs /\ "term" \in Procs /\ "free" \notin Procs BY DEF Procs
<1>b. proc \in [Procs -> Ways] BY DEF TypeInv, TypeOK, Ways
<1>1. UNCHANGED <<lock, pos>> BY TaskWorld DEF Proved
<1>2. UNCHANGED <<cycles, closes>> \/ lock = "free" BY TaskWorld DEF Proved
<1>3. LastFlat' <=> LastFlat BY SettledLast, TaskWorld DEF LastFlat
<1>4. ASSUME NEW p \in Procs, proc'[p] = proc[p] PROVE OwnWorld(p)' BY <1>4, <1>1, <1>2, <1>a, OwnKept DEF
  WorldInv
<1>5. CASE UNCHANGED proc BY <1>1, <1>3, <1>4, <1>5 DEF WorldInv, Bot
<1>6. CASE Bot.at = "none" /\ \E kind \in {"cycle", "close"}, uid \in Uids : Spawn(kind, uid)
  <2>1. /\ proc'["bot"].at = "spawned" /\ proc'["bot"].uid \in Uids
        /\ \A p \in Procs : p # "bot" => proc'[p] = proc[p]
    BY <1>6, <1>a, <1>b DEF Spawn, Gone
  <2>2. lock # "bot" BY <1>6, <1>a DEF WorldInv, OwnWorld, Holds, Bot
  <2>3. OwnWorld("bot")' BY <1>1, <2>1, <2>2 DEF OwnWorld, Holds
  <2>4. \A p \in Procs : OwnWorld(p)' BY <1>4, <2>1, <2>3
  <2>5. NoUid \notin Uids BY DEF NoUid, Uids
  <2>. QED BY <1>1, <1>3, <1>a, <2>1, <2>4, <2>5 DEF WorldInv, Bot
<1>7. CASE Bot.at = "spawned" /\ GivesUp /\ UNCHANGED <<cycles, closes, lock, pos>>
  BY <1>7, <1>a, <1>b, <1>1, <1>4, <1>3 DEF GivesUp, WorldInv, OwnWorld, Holds, Bot, Gone
<1>. QED BY <1>5, <1>6, <1>7, TaskWorld

\* What a step of a process does to its part of the world.
LEMMA WorldWorks ==
    ASSUME TypeInv, WorldInv, NEW p \in Procs, Works(p) \/ Dies(p)
    PROVE  WorldInv'
<1>. USE DEF Exits, At
<1>a. /\ cycles \in Seq(Slots) /\ closes \in Seq(Slots) /\ proc \in [Procs -> Ways]
      /\ lock \in Procs \union {"free"} /\ pos \in {"flat", "held"}
      /\ proc[p] \in Ways
  BY DEF TypeInv, TypeOK, Ways
<1>b. OwnWorld(p) /\ "free" \notin Procs /\ "bot" \in Procs /\ "term" \in Procs BY DEF WorldInv, Procs
<1>c. \A q \in Procs : q # p => proc'[q] = proc[q]
  BY <1>a DEF Works, Prepares, Dies, Locks, LauncherRefuses, Claims, CycleRefused, Checks, Opens, CycleEnds,
    CloseEnds
\* The uids of those under way stay what they are.
<1>d. proc'[p].at # "none" => proc[p].at # "none" /\ proc'[p].uid = proc[p].uid /\ proc'[p].kind = proc[p].kind
  BY <1>a DEF Works, Prepares, Dies, Locks, LauncherRefuses, Claims, CycleRefused, Checks, Opens, CycleEnds,
    CloseEnds, Gone, Ways
<1>e. ASSUME \A q \in Procs : OwnWorld(q)', pos' = "held" => ~LastFlat' PROVE WorldInv'
  BY <1>b, <1>c, <1>d, <1>e DEF WorldInv, Bot
\* Those who hold the lock are alone with their slots and the positions.
<1>f. ASSUME OwnWorld(p)', pos' = "held" => ~LastFlat',
             \/ UNCHANGED <<cycles, closes, pos>> /\ lock \notin Procs \ {p}
             \/ UNCHANGED <<cycles, closes, pos, lock>>
             \/ lock = p
      PROVE  WorldInv'
  <2>1. ASSUME NEW q \in Procs, q # p PROVE OwnWorld(q)'
    <3>1. OwnWorld(q) /\ proc'[q] = proc[q] BY <2>1, <1>c DEF WorldInv
    <3>2. lock' \in {lock, p, "free"}
      BY DEF Works, Prepares, Dies, Locks, LauncherRefuses, Claims, CycleRefused, Checks, Opens, CycleEnds,
        CloseEnds
    <3>3. CASE UNCHANGED <<cycles, closes, pos, lock>> BY <2>1, <3>1, <3>3, OwnKept
    <3>4. CASE lock \notin Procs \ {p} BY <2>1, <3>2, <3>4, <1>b, <3>1 DEF OwnWorld, Holds
    <3>. QED BY <1>f, <3>3, <3>4
  <2>2. \A q \in Procs : OwnWorld(q)' BY <1>f, <2>1
  <2>. QED BY <1>e, <1>f, <2>2
<1>1. CASE Locks(p)
  <2>1. UNCHANGED <<cycles, closes, pos>> /\ proc[p].at = "spawned" /\ lock # p
    BY <1>1, <1>b DEF Locks, OwnWorld, Holds
  <2>2. CASE lock # "free" \/ (proc[p].kind = "cycle" /\ marker)
    BY <1>1, <1>a, <2>2, <2>1, <1>f DEF Locks, OwnWorld, Gone, Holds, WorldInv, LastFlat
  <2>3. CASE ~(lock # "free" \/ (proc[p].kind = "cycle" /\ marker))
    BY <1>1, <1>a, <2>3, <1>b, <1>f, <2>1 DEF Locks, Ways, OwnWorld, Holds, WorldInv, LastFlat
  <2>. QED BY <2>2, <2>3
<1>2. CASE LauncherRefuses(p)
  BY <1>2, <1>a, <1>b, <1>f DEF LauncherRefuses, OwnWorld, Gone, Holds, WorldInv, LastFlat
<1>3. CASE Claims(p)
  <2>. DEFINE slot == [uid |-> proc[p].uid, end |-> "open"]
  <2>1. /\ proc[p].at = "cleared" /\ proc'[p].at = "claimed" /\ proc'[p].kind = proc[p].kind
        /\ proc'[p].uid = proc[p].uid /\ UNCHANGED <<lock, pos>>
        /\ proc[p].kind = "cycle" => cycles' = Append(cycles, slot) /\ UNCHANGED closes
        /\ proc[p].kind # "cycle" => closes' = Append(closes, slot) /\ UNCHANGED cycles
    BY <1>3, <1>a DEF Claims, Ways
  <2>2. slot \in Slots /\ slot.end = "open" /\ slot.uid = proc[p].uid BY <1>a DEF Ways, Slots
  <2>. HIDE DEF slot
  <2>3. lock = p /\ lock' = p BY <1>b, <2>1 DEF OwnWorld, Holds
  <2>4. OwnWorld(p)' BY <1>a, <2>1, <2>2, <2>3, AddedSlots DEF OwnWorld, Holds, SlotsOf
  <2>5. pos' = "held" => ~LastFlat' BY <1>a, <2>1, <2>2, AddedSlots DEF WorldInv, LastFlat
  <2>. QED BY <1>f, <2>3, <2>4, <2>5
<1>4. CASE CycleRefused(p) \/ CycleEnds(p)
  <2>1. PICK end \in {"flat", "bad"} :
           /\ cycles' = EndsSlot(cycles, end)
           /\ end = "flat" => pos' = "flat"
    BY <1>4, <1>b DEF CycleRefused, CycleEnds, OwnWorld
  <2>2. /\ proc[p].at \in {"claimed", "checked", "trading"} /\ proc[p].kind = "cycle"
        /\ proc'[p] = Gone /\ lock' = "free"
    BY <1>4, <1>a, <1>b DEF CycleRefused, CycleEnds, OwnWorld
  <2>3. OwnWorld(p)' /\ lock = p BY <1>b, <2>2 DEF OwnWorld, Gone, Holds
  <2>4. Len(cycles) > 0 BY <1>b, <2>2 DEF OwnWorld, SlotsOf
  <2>5. LastFlat' => end = "flat"
    <3>1. Len(cycles') = Len(cycles) /\ cycles'[Len(cycles)].end = end
      <4>1. end \in {"open", "flat", "bad"} /\ cycles \in Seq(Slots) BY <1>a
      <4>2. /\ Len(EndsSlot(cycles, end)) = Len(cycles)
            /\ EndsSlot(cycles, end)[Len(cycles)].end = end
        BY <2>4, <4>1, EndedSlots
      <4>. QED BY <2>1, <4>2
    <3>. QED BY <3>1 DEF LastFlat
  <2>. QED BY <1>f, <2>1, <2>3, <2>5
<1>8. CASE Opens(p)
  <2>1. /\ proc[p].at = "checked" /\ proc'[p] = [proc[p] EXCEPT !.at = "trading"]
        /\ UNCHANGED <<cycles, closes, pos, lock>>
    BY <1>8, <1>a DEF Opens
  <2>2. OwnWorld(p)' BY <2>1, <1>a, <1>b DEF OwnWorld, SlotsOf, Holds, AllGood, Ways
  <2>. QED BY <1>f, <2>1, <2>2 DEF WorldInv, LastFlat
<1>5. CASE Checks(p)
  <2>. DEFINE s == Settled(cycles)
  <2>1. /\ proc[p].at = "claimed" /\ proc[p].kind = "cycle" /\ pos = "flat"
        /\ proc'[p].at = "checked" /\ proc'[p].kind = "cycle" /\ proc'[p].uid = proc[p].uid
        /\ cycles' = EndsSlot(s, "open") /\ closes' = Settled(closes)
        /\ UNCHANGED <<lock, pos>>
    BY <1>5, <1>a DEF Checks, Ways
  <2>2. lock = p /\ Len(cycles) > 0 /\ cycles[Len(cycles)].uid = proc[p].uid
    BY <1>b, <2>1 DEF OwnWorld, SlotsOf, Holds
  <2>3. /\ s \in Seq(Slots) /\ Len(s) = Len(cycles) /\ DOMAIN s = DOMAIN cycles
        /\ \A i \in DOMAIN cycles : s[i].uid = cycles[i].uid /\ s[i].end \in Good
    BY <1>a, SettledType, SettledSlots
  <2>. HIDE DEF s
  <2>4. /\ Len(cycles') = Len(cycles) /\ cycles'[Len(cycles)].end = "open"
        /\ DOMAIN cycles' = DOMAIN cycles
        /\ \A i \in DOMAIN cycles : cycles'[i].uid = cycles[i].uid
        /\ \A i \in DOMAIN cycles : i # Len(cycles) => cycles'[i].end \in Good
    <3>1. Len(s) > 0 BY <2>2, <2>3
    <3>2. /\ Len(cycles') = Len(s) /\ cycles'[Len(s)].end = "open"
          /\ DOMAIN cycles' = DOMAIN s
          /\ \A i \in DOMAIN s : cycles'[i].uid = s[i].uid /\ (i # Len(s) => cycles'[i] = s[i])
      BY <2>1, <2>3, <3>1, EndedSlots
    <3>. QED BY <2>3, <3>2
  <2>5. AllGood(closes') BY <1>a, <2>1, SettledSlots DEF AllGood
  <2>6. Len(cycles) \in DOMAIN cycles /\ \A i \in DOMAIN cycles : i < Len(cycles) => i # Len(cycles) BY <1>a, <2>2
  <2>7. OwnWorld(p)' BY <2>1, <2>2, <2>4, <2>5, <2>6 DEF OwnWorld, SlotsOf, Holds, AllGood
  <2>. QED BY <1>f, <2>1, <2>2, <2>7
<1>6. CASE CloseEnds(p) BY <1>6, <1>a, <1>b, <1>f DEF CloseEnds, OwnWorld, Gone, Holds, WorldInv, LastFlat
<1>7. CASE Dies(p)
  <2>1. /\ proc[p].at # "none" /\ proc'[p] = Gone /\ UNCHANGED <<cycles, closes>>
        /\ lock' = IF lock = p THEN "free" ELSE lock
    BY <1>7, <1>a DEF Dies
  <2>2. OwnWorld(p)' BY <2>1, <1>b DEF OwnWorld, Gone, Holds
  <2>3. CASE proc[p].at \in {"claimed", "checked", "trading"}
    <3>1. lock = p BY <1>b, <2>3 DEF OwnWorld, Holds
    <3>2. pos' \in {"flat", pos} \/ (proc[p].at = "trading") BY <1>7, <2>3 DEF Dies
    <3>3. proc[p].at = "trading" => ~LastFlat BY <1>b DEF OwnWorld, SlotsOf, LastFlat
    <3>4. pos' = "held" => ~LastFlat' BY <2>1, <3>2, <3>3 DEF WorldInv, LastFlat
    <3>. QED BY <1>f, <2>2, <3>1, <3>4
  <2>4. CASE proc[p].at \in {"spawned", "cleared"} BY <1>7, <2>4, <2>1, <1>f, <2>2 DEF Dies, WorldInv, LastFlat
  <2>. QED BY <1>a, <2>1, <2>3, <2>4 DEF Ways
<1>. QED BY <1>1, <1>2, <1>3, <1>4, <1>5, <1>6, <1>7, <1>8 DEF Works, Prepares

\* The lock has one holder, and each holder works on the last slot.
LEMMA WorldStep ==
    ASSUME TypeInv, ChildInv, PlaceInv, WorldInv, [Next]_vars
    PROVE  WorldInv'
<1>a. "bot" \in Procs /\ "term" \in Procs /\ proc \in [Procs -> Ways] /\ "free" \notin Procs
  BY DEF TypeInv, TypeOK, Ways, Procs
<1>1. ASSUME UNCHANGED <<cycles, closes, lock, pos>>,
             \A p \in Procs : /\ proc'[p].at = proc[p].at /\ proc'[p].uid = proc[p].uid
                              /\ proc'[p].kind = proc[p].kind
      PROVE  WorldInv'
  BY <1>1, <1>a DEF OwnWorld, SlotsOf, AllGood, WorldInv, LastFlat, Bot
<1>2. CASE Handle
  <2>1. UNCHANGED <<cycles, closes, lock, pos>> /\ (proc' = Told \/ UNCHANGED proc)
    BY <1>2 DEF Handle, RequestStop, Start
  <2>2. ASSUME NEW p \in Procs, proc' = Told
        PROVE  /\ proc'[p].at = proc[p].at /\ proc'[p].uid = proc[p].uid
               /\ proc'[p].kind = proc[p].kind
    BY <2>2, <1>a DEF Told, Ways
  <2>. QED BY <1>1, <2>1, <2>2
<1>3. CASE Crash \/ UNCHANGED vars BY <1>1, <1>3 DEF Crash, vars, world
<1>4. CASE Restart
  <2>1. UNCHANGED proc /\ (Proved \/ UNCHANGED <<cycles, closes, lock, pos, terminals>>) BY <1>4 DEF Restart
  <2>2. CASE Proved BY <1>a, <2>1, <2>2, OwnKept, SettledLast DEF WorldInv, Proved, Bot
  <2>. QED BY <1>1, <2>1, <2>2
<1>5. CASE \E kind \in {"cycle", "close"} : TerminalStarts(kind)
  <2>1. PICK kind \in {"cycle", "close"} : TerminalStarts(kind) BY <1>5
  <2>2. /\ UNCHANGED <<cycles, closes, lock, pos>> /\ proc["term"].at = "none"
        /\ proc'["term"] = [Gone EXCEPT !.at = "spawned", !.kind = kind]
        /\ \A p \in Procs : p # "term" => proc'[p] = proc[p]
    BY <2>1, <1>a DEF TerminalStarts
  <2>3. proc'["term"].at = "spawned" /\ proc'["term"].uid = NoUid BY <2>2 DEF Gone
  <2>4. OwnWorld("term")' BY <1>a, <2>2, <2>3 DEF WorldInv, OwnWorld, Holds
  <2>5. \A p \in Procs : p # "term" => OwnWorld(p)' BY <2>2, OwnKept DEF WorldInv
  <2>. QED BY <1>a, <2>2, <2>3, <2>4, <2>5 DEF WorldInv, LastFlat, Bot
<1>. QED BY <1>2, <1>3, <1>4, <1>5, WorldTask, WorldWorks DEF Next

-----------------------------------------------------------------------------
(* Operations started at a terminal, while there was at most one.          *)

TermInv ==
    /\ terminals = 0 => proc["term"].at = "none" /\ ~Foreign(cycles) /\ ~Foreign(closes)
    /\ terminals <= 1 =>
          /\ proc["term"].at \in {"spawned", "cleared"} => ~Foreign(cycles) /\ ~Foreign(closes)
          /\ ~(Foreign(cycles) /\ Foreign(closes))

\* Settling a history leaves whose slots they are.
LEMMA SettledForeign ==
    ASSUME NEW slots \in Seq(Slots)
    PROVE  /\ Foreign(Settled(slots)) <=> Foreign(slots)
           /\ AllGood(Settled(slots))
BY SettledSlots DEF Foreign, AllGood

\* So does ending a slot.
LEMMA EndedForeign ==
    ASSUME NEW slots \in Seq(Slots), NEW end \in {"open", "flat", "bad"}, Len(slots) > 0
    PROVE  Foreign(EndsSlot(slots, end)) <=> Foreign(slots)
<1>1. /\ DOMAIN EndsSlot(slots, end) = DOMAIN slots
      /\ \A i \in DOMAIN slots : EndsSlot(slots, end)[i].uid = slots[i].uid
  BY EndedSlots
<1>. QED BY <1>1 DEF Foreign

\* A slot of a terminal needs an operation started there.
LEMMA TermWorks ==
    ASSUME TypeInv, WorldInv, TermInv, NEW p \in Procs, Works(p) \/ Dies(p)
    PROVE  TermInv'
<1>. USE DEF Exits, At
<1>a. /\ cycles \in Seq(Slots) /\ closes \in Seq(Slots) /\ proc \in [Procs -> Ways]
      /\ proc[p] \in Ways /\ terminals \in Nat
  BY DEF TypeInv, TypeOK, Ways
<1>b. OwnWorld(p) /\ "bot" \in Procs /\ "term" \in Procs /\ UNCHANGED terminals
  BY DEF WorldInv, Procs, Works, Prepares, Dies, Locks, LauncherRefuses, Claims, CycleRefused, Checks, Opens,
    CycleEnds,
    CloseEnds
<1>c. /\ p # "term" => proc'["term"] = proc["term"]
      /\ p = "term" => proc["term"].at # "none"
      /\ p = "term" => \/ proc'["term"] = Gone
                       \/ \E at \in {"cleared", "claimed", "checked", "trading"} : proc'["term"].at = at
  BY <1>a, <1>b DEF Works, Prepares, Dies, Locks, LauncherRefuses, Claims, CycleRefused, Checks, Opens,
    CycleEnds, CloseEnds,
    Ways
<1>1. CASE Claims(p)
  <2>. DEFINE slot == [uid |-> proc[p].uid, end |-> "open"]
  <2>1. /\ proc[p].at = "cleared" /\ proc'[p].at = "claimed"
        /\ \/ cycles' = Append(cycles, slot) /\ UNCHANGED closes
           \/ closes' = Append(closes, slot) /\ UNCHANGED cycles
    BY <1>1, <1>a DEF Claims, Ways
  <2>2. slot \in Slots /\ slot.uid = proc[p].uid BY <1>a DEF Ways, Slots
  <2>. HIDE DEF slot
  <2>3. ASSUME NEW slots \in Seq(Slots)
        PROVE  Foreign(Append(slots, slot)) <=> Foreign(slots) \/ proc[p].uid = NoUid
    BY <2>2, AddedSlots DEF Foreign
  <2>4. p = "bot" => proc[p].uid # NoUid BY <2>1 DEF WorldInv, Bot
  <2>5. /\ Foreign(cycles') => Foreign(cycles) \/ proc[p].uid = NoUid
        /\ Foreign(closes') => Foreign(closes) \/ proc[p].uid = NoUid
        /\ ~(Foreign(cycles') /\ Foreign(closes')) \/ Foreign(cycles) \/ Foreign(closes)
    BY <1>a, <2>1, <2>3
  <2>6. CASE p = "bot" BY <1>b, <1>c, <2>1, <2>4, <2>5, <2>6, <2>3, <1>a DEF TermInv
  <2>7. CASE p = "term" BY <1>a, <1>b, <2>1, <2>5, <2>7 DEF TermInv
  <2>. QED BY <2>6, <2>7 DEF Procs
<1>2. CASE ~Claims(p)
  <2>1. (Foreign(cycles') <=> Foreign(cycles)) /\ (Foreign(closes') <=> Foreign(closes))
    <3>1. CASE UNCHANGED <<cycles, closes>> BY <3>1 DEF Foreign
    <3>2. CASE Checks(p)
      BY <1>b, <3>2, <1>a, SettledType, SettledForeign, EndedForeign DEF OwnWorld, SlotsOf, Checks
    <3>3. CASE CycleRefused(p) \/ CycleEnds(p)
      <4>1. Len(cycles) > 0 BY <1>b, <3>3 DEF OwnWorld, SlotsOf, CycleRefused, CycleEnds
      <4>2. PICK end \in {"flat", "bad"} : cycles' = EndsSlot(cycles, end) BY <3>3 DEF CycleRefused, CycleEnds
      <4>3. Foreign(EndsSlot(cycles, end)) <=> Foreign(cycles) BY <1>a, <4>1, EndedForeign
      <4>. QED BY <3>3, <4>2, <4>3 DEF CycleRefused, CycleEnds
    <3>4. CASE CloseEnds(p)
      <4>1. Len(closes) > 0 BY <1>b, <3>4 DEF OwnWorld, SlotsOf, CloseEnds
      <4>2. PICK end \in {"flat", "bad"} : closes' = EndsSlot(closes, end) BY <3>4 DEF CloseEnds
      <4>3. Foreign(EndsSlot(closes, end)) <=> Foreign(closes) BY <1>a, <4>1, EndedForeign
      <4>. QED BY <3>4, <4>2, <4>3 DEF CloseEnds
    <3>. QED BY <1>2, <3>1, <3>2, <3>3, <3>4 DEF Works, Prepares, Dies, Locks, LauncherRefuses, Opens
  <2>2. proc'["term"].at \in {"spawned", "cleared"} => proc["term"].at \in {"spawned", "cleared"}
    <3>1. CASE p # "term" BY <3>1, <1>c
    <3>2. CASE p = "term"
      BY <3>2, <1>a, <1>2 DEF Works, Prepares, Dies, Locks, LauncherRefuses, CycleRefused, Checks, Opens,
        CycleEnds, CloseEnds,
        Ways, Gone
    <3>. QED BY <3>1, <3>2
  <2>3. terminals = 0 => proc'["term"].at = "none" BY <1>c DEF TermInv
  <2>. QED BY <1>b, <2>1, <2>2, <2>3 DEF TermInv
<1>. QED BY <1>1, <1>2

\* Without an operation at a terminal every slot is the controller's.
LEMMA TermStep ==
    ASSUME TypeInv, ChildInv, PlaceInv, WorldInv, TermInv, [Next]_vars
    PROVE  TermInv'
<1>a. /\ "bot" \in Procs /\ "term" \in Procs /\ proc \in [Procs -> Ways] /\ terminals \in Nat
      /\ cycles \in Seq(Slots) /\ closes \in Seq(Slots)
  BY DEF TypeInv, TypeOK, Ways, Procs
<1>1. ASSUME UNCHANGED terminals, proc'["term"].at = proc["term"].at,
             Proved \/ UNCHANGED <<cycles, closes>>
      PROVE  TermInv'
  <2>1. (Foreign(cycles') <=> Foreign(cycles)) /\ (Foreign(closes') <=> Foreign(closes))
    BY <1>a, SettledForeign, <1>1 DEF Proved
  <2>. QED BY <1>1, <2>1 DEF TermInv
<1>2. CASE Task BY <1>1, <1>2, <1>a, TaskWorld DEF Spawn, GivesUp
<1>3. CASE Handle
  <2>1. UNCHANGED <<cycles, closes, terminals>> /\ (proc' = Told \/ UNCHANGED proc)
    BY <1>3 DEF Handle, RequestStop, Start
  <2>2. Told["term"].at = proc["term"].at BY <1>a DEF Told, Ways
  <2>. QED BY <1>1, <2>1, <2>2
<1>4. CASE Crash \/ Restart \/ UNCHANGED vars BY <1>1, <1>4 DEF Crash, Restart, vars, world, Proved
<1>5. CASE \E kind \in {"cycle", "close"} : TerminalStarts(kind) BY <1>5, <1>a DEF TerminalStarts, TermInv
<1>. QED BY <1>2, <1>3, <1>4, <1>5, TermWorks DEF Next

-----------------------------------------------------------------------------
(* The records. *)

\* The slots a record speaks of: the first n ended with proof before it, and
\* its child adds to them.
Under(kind, slots, n, b) ==
    /\ n <= Len(slots) /\ OwnGood(slots, n)
    /\ b.at # "none" => b.kind = kind
    /\ b.at \in {"claimed", "checked", "trading"} => n < Len(slots)

FlatAtLast(cs) == Len(cs) > 0 /\ cs[Len(cs)].end = "flat"

\* What a record a covers when the slots are cs and ks, the child is b and the
\* positions are ps: no record, nothing left; the record of a closure, all but
\* its own slot proved; the same of a cycle and of the closure before it.
CoversIn(a, cs, ks, b, ps) ==
    /\ a.action = "none" => b.at = "none" /\ AllGood(cs) /\ AllGood(ks)
    /\ a.action = "close" => AllGood(cs) /\ Under("close", ks, a.before, b)
    /\ a.action = "run" => a.before <= Len(cs)
    /\ a.action = "run" /\ a.phase # "AUTO_CLOSE" =>
          AllGood(ks) /\ Under("cycle", cs, a.before, b)
    /\ a.action = "run" /\ a.phase = "AUTO_CLOSE" =>
          /\ AllGood(cs) /\ Under("close", ks, a.closeBefore, b)
          /\ b.at \in {"spawned", "cleared"} => ps = "held" \/ Foreign(ks)
          /\ b.at # "none" \/ ~AllGood(ks) => ~FlatAtLast(cs)

Covers(a) == CoversIn(a, cycles, closes, Bot, pos)

\* What settling leaves to prove: nothing but the sizes.
Sized(a, cs, ks) ==
    /\ a.action = "close" => a.before <= Len(ks)
    /\ a.action = "run" => a.before <= Len(cs)
    /\ a.action = "run" /\ a.phase = "AUTO_CLOSE" => a.closeBefore <= Len(ks)

\* A record is good as soon as every slot is and no child is left.
LEMMA CoversAll ==
    ASSUME NEW a, NEW cs, NEW ks, NEW b, NEW ps, AllGood(cs), AllGood(ks),
           b.at = "none", Sized(a, cs, ks)
    PROVE  CoversIn(a, cs, ks, b, ps)
BY DEF CoversIn, Sized, Under, OwnGood, AllGood

\* A record that covers the world counts no slots that are not there.
LEMMA CoversSized ==
    ASSUME NEW a, NEW cs, NEW ks, NEW b, NEW ps, CoversIn(a, cs, ks, b, ps)
    PROVE  Sized(a, cs, ks)
BY DEF CoversIn, Sized, Under

\* A child that goes leaves the record good.
LEMMA CoversGone ==
    ASSUME NEW a, NEW cs, NEW ks, NEW b, NEW c, NEW ps, NEW qs, CoversIn(a, cs, ks, b, ps), c.at = "none"
    PROVE  CoversIn(a, cs, ks, c, qs)
BY DEF CoversIn, Under

\* A child that waits for the lock and takes it leaves the record good.
LEMMA CoversLocks ==
    ASSUME NEW a, NEW cs, NEW ks, NEW b, NEW c, NEW ps, CoversIn(a, cs, ks, b, ps),
           b.at = "spawned", c.at \in {"spawned", "cleared"}, c.kind = b.kind
    PROVE  CoversIn(a, cs, ks, c, ps)
BY DEF CoversIn, Under

\* Appending and ending slots, as the records see it.
LEMMA AddedGood ==
    ASSUME NEW slots \in Seq(Slots), NEW slot \in Slots
    PROVE  /\ slot.uid = NoUid /\ AllGood(slots) => AllGood(Append(slots, slot))
           /\ \A n \in Nat : n <= Len(slots) /\ OwnGood(slots, n) =>
                 OwnGood(Append(slots, slot), n) /\ n < Len(Append(slots, slot))
           /\ slot.end # "flat" => ~FlatAtLast(Append(slots, slot))
           /\ Foreign(slots) => Foreign(Append(slots, slot))
           /\ AllGood(Append(slots, slot)) => AllGood(slots)
<1>. DEFINE t == Append(slots, slot)
<1>1. /\ t \in Seq(Slots) /\ Len(t) = Len(slots) + 1 /\ t[Len(t)] = slot
      /\ DOMAIN t = DOMAIN slots \union {Len(slots) + 1}
      /\ \A i \in DOMAIN slots : t[i] = slots[i]
  BY AddedSlots
<1>2. Len(slots) \in Nat /\ DOMAIN slots = 1..Len(slots) OBVIOUS
<1>. HIDE DEF t
<1>3. slot.uid = NoUid /\ AllGood(slots) => AllGood(t) BY <1>1, <1>2 DEF AllGood
<1>4. \A n \in Nat : n <= Len(slots) /\ OwnGood(slots, n) => OwnGood(t, n) /\ n < Len(t) BY <1>1, <1>2 DEF
  OwnGood
<1>5. slot.end # "flat" => ~FlatAtLast(t) BY <1>1 DEF FlatAtLast
<1>6. Foreign(slots) => Foreign(t) BY <1>1 DEF Foreign
<1>7. AllGood(t) => AllGood(slots) BY <1>1 DEF AllGood
<1>. QED BY <1>3, <1>4, <1>5, <1>6, <1>7 DEF t

\* A slot that ends with proof leaves the others as they were.
LEMMA EndedGood ==
    ASSUME NEW slots \in Seq(Slots), NEW end \in {"open", "flat", "bad"}, Len(slots) > 0
    PROVE  /\ Len(EndsSlot(slots, end)) = Len(slots)
           /\ slots[Len(slots)].uid = NoUid /\ AllGood(slots) => AllGood(EndsSlot(slots, end))
           /\ \A n \in Nat : slots[Len(slots)].uid = NoUid /\ OwnGood(slots, n) =>
                                OwnGood(EndsSlot(slots, end), n)
           /\ \A n \in Nat : n < Len(slots) /\ OwnGood(slots, n) => OwnGood(EndsSlot(slots, end), n)
           /\ FlatAtLast(EndsSlot(slots, end)) => end = "flat"
<1>. DEFINE t == EndsSlot(slots, end)
<1>1. /\ DOMAIN t = DOMAIN slots /\ Len(t) = Len(slots) /\ t[Len(slots)].end = end
      /\ \A i \in DOMAIN slots : t[i].uid = slots[i].uid
      /\ \A i \in DOMAIN slots : i # Len(slots) => t[i] = slots[i]
  BY EndedSlots
<1>2. Len(slots) \in Nat /\ DOMAIN slots = 1..Len(slots) OBVIOUS
<1>. HIDE DEF t
<1>3. slots[Len(slots)].uid = NoUid /\ AllGood(slots) => AllGood(t) BY <1>1 DEF AllGood
<1>4. \A n \in Nat : slots[Len(slots)].uid = NoUid /\ OwnGood(slots, n) => OwnGood(t, n) BY <1>1 DEF OwnGood
<1>5. \A n \in Nat : n < Len(slots) /\ OwnGood(slots, n) => OwnGood(t, n) BY <1>1, <1>2 DEF OwnGood
<1>6. FlatAtLast(t) => end = "flat" BY <1>1 DEF FlatAtLast
<1>. QED BY <1>1, <1>3, <1>4, <1>5, <1>6 DEF t

\* Where all slots are good, those of the controller are.
LEMMA AllIsOwn ==
    ASSUME NEW slots, NEW n, AllGood(slots) PROVE OwnGood(slots, n)
BY DEF AllGood, OwnGood

\* Settling keeps whatever a record covers.
LEMMA CoversSettled ==
    ASSUME NEW a, NEW cs \in Seq(Slots), NEW ks \in Seq(Slots), NEW b, NEW ps,
           CoversIn(a, cs, ks, b, ps)
    PROVE  CoversIn(a, Settled(cs), Settled(ks), b, ps)
<1>. DEFINE ct == Settled(cs)
            kt == Settled(ks)
<1>1. /\ Len(ct) = Len(cs) /\ Len(kt) = Len(ks) /\ AllGood(ct) /\ AllGood(kt)
      /\ Foreign(kt) <=> Foreign(ks)
  BY SettledSlots, SettledForeign
<1>2. FlatAtLast(ct) => FlatAtLast(cs) BY <1>1, SettledSlots DEF FlatAtLast
<1>3. \A n : OwnGood(ct, n) /\ OwnGood(kt, n) BY <1>1, AllIsOwn
<1>. HIDE DEF ct, kt
<1>. QED BY <1>1, <1>2, <1>3 DEF CoversIn, Under, ct, kt

-----------------------------------------------------------------------------
(* What a step of a child leaves for a record to cover, one case each. *)

\* The child of the controller moves on in its cycle, or ends it.
LEMMA CoversOwnCycle ==
    ASSUME NEW a \in Actives, NEW cs \in Seq(Slots), NEW ks, NEW b, NEW c, NEW ps, NEW qs,
           NEW end \in {"open", "flat", "bad"}, Len(cs) > 0,
           CoversIn(a, cs, ks, b, ps), b.at \in {"claimed", "checked", "trading"}, b.kind = "cycle",
           c.at # "none" => c.at = "checked" /\ c.kind = "cycle"
    PROVE  CoversIn(a, EndsSlot(cs, end), ks, c, qs)
BY EndedGood DEF CoversIn, Under, Actives

\* The first order of the child changes nothing a record speaks of.
LEMMA CoversOpens ==
    ASSUME NEW a, NEW cs, NEW ks, NEW b, NEW c, NEW ps, CoversIn(a, cs, ks, b, ps),
           b.at = "checked", c.at = "trading", c.kind = b.kind
    PROVE  CoversIn(a, cs, ks, c, ps)
BY DEF CoversIn, Under

\* The cycle of the terminal moves on or ends.
LEMMA CoversForeignCycle ==
    ASSUME NEW a \in Actives, NEW cs \in Seq(Slots), NEW ks, NEW b, NEW ps, NEW qs,
           NEW end \in {"open", "flat", "bad"}, Len(cs) > 0, cs[Len(cs)].uid = NoUid,
           CoversIn(a, cs, ks, b, ps),
           a.action = "run" /\ a.phase = "AUTO_CLOSE" =>
               \/ b.at = "none" /\ AllGood(ks)
               \/ end # "flat" /\ qs = ps
    PROVE  CoversIn(a, EndsSlot(cs, end), ks, b, qs)
<1>. DEFINE ct == EndsSlot(cs, end)
<1>1. /\ Len(ct) = Len(cs) /\ (AllGood(cs) => AllGood(ct))
      /\ FlatAtLast(ct) => end = "flat"
  BY EndedGood
<1>2. a.before \in Nat /\ (OwnGood(cs, a.before) => OwnGood(ct, a.before)) BY EndedGood DEF Actives
<1>. HIDE DEF ct
<1>. QED BY <1>1, <1>2 DEF CoversIn, Under, ct

\* The child of the controller ends its closure.
LEMMA CoversOwnClose ==
    ASSUME NEW a \in Actives, NEW cs, NEW ks \in Seq(Slots), NEW b, NEW c, NEW ps, NEW qs,
           NEW end \in {"open", "flat", "bad"}, Len(ks) > 0,
           CoversIn(a, cs, ks, b, ps), b.at = "claimed", b.kind = "close", c.at = "none"
    PROVE  CoversIn(a, cs, EndsSlot(ks, end), c, qs)
<1>. DEFINE kt == EndsSlot(ks, end)
<1>1. Len(kt) = Len(ks) BY EndedGood
<1>2. /\ a.before \in Nat /\ (a.before < Len(ks) /\ OwnGood(ks, a.before) => OwnGood(kt, a.before))
      /\ a.closeBefore \in Nat
      /\ a.closeBefore < Len(ks) /\ OwnGood(ks, a.closeBefore) => OwnGood(kt, a.closeBefore)
  BY EndedGood DEF Actives
<1>3. a.action = "none" \/ a.action = "close" \/ a.action = "run" BY DEF Actives
<1>. HIDE DEF kt
<1>4. CASE a.action = "close" BY <1>1, <1>2, <1>4 DEF CoversIn, Under, kt
<1>5. CASE a.action = "run" BY <1>1, <1>2, <1>5 DEF CoversIn, Under, kt
<1>. QED BY <1>3, <1>4, <1>5 DEF CoversIn

\* The closure of the terminal ends.
LEMMA CoversForeignClose ==
    ASSUME NEW a \in Actives, NEW cs, NEW ks \in Seq(Slots), NEW b, NEW ps, NEW qs,
           NEW end \in {"open", "flat", "bad"}, Len(ks) > 0, ks[Len(ks)].uid = NoUid,
           CoversIn(a, cs, ks, b, ps)
    PROVE  CoversIn(a, cs, EndsSlot(ks, end), b, qs)
<1>. DEFINE kt == EndsSlot(ks, end)
<1>1. Len(kt) = Len(ks) /\ (AllGood(ks) => AllGood(kt)) BY EndedGood
<1>2. /\ a.before \in Nat /\ (OwnGood(ks, a.before) => OwnGood(kt, a.before))
      /\ a.closeBefore \in Nat /\ (OwnGood(ks, a.closeBefore) => OwnGood(kt, a.closeBefore))
  BY EndedGood DEF Actives
<1>3. Foreign(kt) BY EndedForeign DEF Foreign
<1>. HIDE DEF kt
<1>. QED BY <1>1, <1>2, <1>3 DEF CoversIn, Under, kt

\* The child of the controller claims its slot.
LEMMA CoversOwnClaim ==
    ASSUME NEW a \in Actives, NEW cs \in Seq(Slots), NEW ks \in Seq(Slots), NEW b, NEW c, NEW ps,
           NEW slot \in Slots, CoversIn(a, cs, ks, b, ps), b.at = "cleared",
           c.at = "claimed", c.kind = b.kind, b.kind \in {"cycle", "close"}
    PROVE  CoversIn(a, IF b.kind = "cycle" THEN Append(cs, slot) ELSE cs,
                       IF b.kind = "cycle" THEN ks ELSE Append(ks, slot), c, ps)
<1>1. Len(Append(cs, slot)) = Len(cs) + 1 /\ Len(cs) \in Nat /\ a.before \in Nat /\ a.closeBefore \in Nat
  BY DEF Actives
<1>2. /\ a.before <= Len(cs) /\ OwnGood(cs, a.before) =>
             OwnGood(Append(cs, slot), a.before) /\ a.before < Len(Append(cs, slot))
      /\ a.before <= Len(ks) /\ OwnGood(ks, a.before) =>
             OwnGood(Append(ks, slot), a.before) /\ a.before < Len(Append(ks, slot))
      /\ a.closeBefore <= Len(ks) /\ OwnGood(ks, a.closeBefore) =>
             OwnGood(Append(ks, slot), a.closeBefore) /\ a.closeBefore < Len(Append(ks, slot))
  BY <1>1, AddedGood
<1>3. Len(Append(ks, slot)) \in Nat /\ Len(Append(cs, slot)) \in Nat OBVIOUS
<1>. DEFINE cp == Append(cs, slot)
            kp == Append(ks, slot)
<1>. HIDE DEF cp, kp
<1>4. CASE b.kind = "cycle" BY <1>4, <1>1, <1>2, <1>3 DEF CoversIn, Under, Actives, cp
<1>5. CASE b.kind = "close" BY <1>5, <1>1, <1>2, <1>3 DEF CoversIn, Under, Actives, kp
<1>. QED BY <1>4, <1>5

\* An operation started at a terminal claims its slot.
LEMMA CoversForeignClaim ==
    ASSUME NEW a \in Actives, NEW cs \in Seq(Slots), NEW ks \in Seq(Slots), NEW b, NEW ps,
           NEW slot \in Slots, slot.uid = NoUid, slot.end = "open",
           CoversIn(a, cs, ks, b, ps), b.at \in {"none", "spawned"}
    PROVE  CoversIn(a, Append(cs, slot), ks, b, ps) /\ CoversIn(a, cs, Append(ks, slot), b, ps)
<1>1. /\ Len(cs) \in Nat /\ Len(ks) \in Nat /\ a.before \in Nat /\ a.closeBefore \in Nat
      /\ Len(Append(cs, slot)) = Len(cs) + 1 /\ Len(Append(ks, slot)) = Len(ks) + 1
  BY DEF Actives
<1>2. /\ AllGood(cs) => AllGood(Append(cs, slot))
      /\ AllGood(ks) => AllGood(Append(ks, slot))
      /\ a.before <= Len(cs) /\ OwnGood(cs, a.before) => OwnGood(Append(cs, slot), a.before)
      /\ a.before <= Len(ks) /\ OwnGood(ks, a.before) => OwnGood(Append(ks, slot), a.before)
      /\ a.closeBefore <= Len(ks) /\ OwnGood(ks, a.closeBefore) => OwnGood(Append(ks, slot), a.closeBefore)
      /\ ~FlatAtLast(Append(cs, slot))
      /\ Foreign(ks) => Foreign(Append(ks, slot))
      /\ AllGood(Append(ks, slot)) => AllGood(ks)
  BY <1>1, AddedGood
<1>. DEFINE cp == Append(cs, slot)
            kp == Append(ks, slot)
<1>. HIDE DEF cp, kp
<1>3. CoversIn(a, cp, ks, b, ps) BY <1>1, <1>2 DEF CoversIn, Under, cp
<1>4. CoversIn(a, cs, kp, b, ps) BY <1>1, <1>2 DEF CoversIn, Under, kp
<1>. QED BY <1>3, <1>4 DEF cp, kp

-----------------------------------------------------------------------------
(* A record covers the world after every step of a child. *)

\* Whatever a process does, a record stays good.
LEMMA CoversWorks ==
    ASSUME TypeInv, WorldInv, TermInv, terminals <= 1, NEW p \in Procs, Works(p) \/ Dies(p),
           NEW a \in Actives, CoversIn(a, cycles, closes, Bot, pos)
    PROVE  CoversIn(a, cycles', closes', proc'["bot"], pos')
<1>. USE DEF Exits, At
<1>a. /\ cycles \in Seq(Slots) /\ closes \in Seq(Slots) /\ proc \in [Procs -> Ways]
      /\ proc[p] \in Ways /\ Bot \in Ways /\ Bot = proc["bot"]
      /\ lock \in Procs \union {"free"} /\ pos \in {"flat", "held"}
  BY DEF TypeInv, TypeOK, Ways, Bot, Procs
<1>b. /\ OwnWorld(p) /\ OwnWorld("bot") /\ OwnWorld("term")
      /\ "bot" \in Procs /\ "term" \in Procs /\ (p # "bot" => p = "term")
      /\ Len(cycles) \in Nat /\ Len(closes) \in Nat
  BY <1>a DEF WorldInv, Procs
<1>c. p = "term" => /\ proc'["bot"] = Bot
                    /\ proc[p].at # "none" => proc[p].uid = NoUid
                    /\ proc[p].at \in Holds => Bot.at \in {"none", "spawned"}
  <2>1. p = "term" => proc'["bot"] = Bot
    BY <1>a, <1>b DEF Works, Prepares, Dies, Locks, LauncherRefuses, Claims, CycleRefused, Checks, Opens,
      CycleEnds, CloseEnds
  <2>2. p = "term" /\ proc[p].at \in Holds => Bot.at \in {"none", "spawned"} BY <1>a, <1>b DEF OwnWorld,
    Holds, Ways
  <2>. QED BY <2>1, <2>2 DEF WorldInv
<1>d. p = "bot" => Bot = proc[p] BY DEF Bot
<1>e. Gone.at = "none" BY DEF Gone
<1>f. proc[p].at \in {"claimed", "checked", "trading"} =>
          /\ proc[p].kind = "cycle" => Len(cycles) > 0 /\ cycles[Len(cycles)].uid = proc[p].uid
          /\ proc[p].kind = "close" => Len(closes) > 0 /\ closes[Len(closes)].uid = proc[p].uid
  BY <1>b DEF OwnWorld, SlotsOf
<1>1. CASE Locks(p)
  <2>0. UNCHANGED <<cycles, closes, pos>> BY <1>1 DEF Locks
  <2>1. CASE p = "bot" BY <1>1, <1>a, <1>b, <1>d, <1>e, <2>1, <2>0, CoversGone, CoversLocks DEF Locks, Ways
  <2>. QED BY <1>b, <1>c, <2>0, <2>1
<1>2. CASE LauncherRefuses(p)
  <2>0. UNCHANGED <<cycles, closes, pos>> BY <1>2 DEF LauncherRefuses
  <2>1. CASE p = "bot" BY <1>2, <1>a, <1>b, <1>e, <2>1, <2>0, CoversGone DEF LauncherRefuses
  <2>. QED BY <1>b, <1>c, <2>0, <2>1
<1>3. CASE Claims(p)
  <2>. DEFINE slot == [uid |-> proc[p].uid, end |-> "open"]
  <2>0. /\ slot \in Slots /\ slot.uid = proc[p].uid /\ slot.end = "open"
        /\ proc[p].at = "cleared" /\ proc[p].kind \in {"cycle", "close"}
        /\ UNCHANGED pos
    BY <1>3, <1>a DEF Slots, Claims, Ways
  <2>1. /\ cycles' = IF proc[p].kind = "cycle" THEN Append(cycles, slot) ELSE cycles
        /\ closes' = IF proc[p].kind = "cycle" THEN closes ELSE Append(closes, slot)
    BY <1>3 DEF Claims
  <2>. HIDE DEF slot
  <2>2. CASE p = "bot" BY <1>3, <1>a, <1>b, <1>d, <2>2, <2>0, <2>1, CoversOwnClaim DEF Claims, Ways
  <2>3. CASE p = "term" BY <1>c, <2>0, <2>3, <1>a, CoversForeignClaim, <2>1 DEF Holds
  <2>. QED BY <1>b, <2>2, <2>3
<1>4. CASE CycleRefused(p)
  <2>0. /\ cycles' = EndsSlot(cycles, "bad") /\ UNCHANGED <<closes, pos>>
        /\ proc[p].at \in {"claimed", "checked"} /\ proc[p].kind = "cycle" /\ Len(cycles) > 0
    BY <1>4, <1>f DEF CycleRefused
  <2>1. CASE p = "bot"
    <3>1. proc'["bot"].at = "none" BY <1>4, <1>a, <1>b, <1>e, <2>1 DEF CycleRefused
    <3>. QED BY <1>a, <1>d, <2>0, <2>1, <3>1, CoversOwnCycle
  <2>2. CASE p = "term" BY <1>a, <1>c, <1>f, <2>0, <2>2, CoversForeignCycle
  <2>. QED BY <1>b, <2>1, <2>2
<1>9. CASE Opens(p)
  <2>0. UNCHANGED <<cycles, closes, pos>> BY <1>9 DEF Opens
  <2>1. CASE p = "bot"
    <3>1. Bot.at = "checked" /\ proc'["bot"].at = "trading" /\ proc'["bot"].kind = Bot.kind
      BY <1>9, <1>a, <1>b, <1>d, <2>1 DEF Opens, Ways
    <3>. QED BY <2>0, <3>1, CoversOpens
  <2>. QED BY <1>b, <1>c, <2>0, <2>1
<1>5. CASE Checks(p)
  <2>0. /\ cycles' = EndsSlot(Settled(cycles), "open") /\ closes' = Settled(closes) /\ UNCHANGED pos
        /\ proc[p].at = "claimed" /\ proc[p].kind = "cycle" /\ Len(cycles) > 0
    BY <1>5, <1>f DEF Checks
  <2>1. /\ Settled(cycles) \in Seq(Slots) /\ Len(Settled(cycles)) = Len(cycles)
        /\ CoversIn(a, Settled(cycles), Settled(closes), Bot, pos)
    BY <1>a, SettledType, CoversSettled
  <2>2. CASE p = "bot"
    <3>1. proc'["bot"].at = "checked" /\ proc'["bot"].kind = "cycle"
      BY <1>5, <1>a, <1>b, <1>d, <2>0, <2>2 DEF Checks, Ways
    <3>. QED BY <1>a, <1>d, <2>0, <2>1, <2>2, <3>1, CoversOwnCycle
  <2>3. CASE p = "term"
    <3>1. Len(cycles) \in DOMAIN cycles BY <1>a, <2>0
    <3>2. Settled(cycles)[Len(cycles)].uid = NoUid BY <1>a, <1>c, <1>f, <2>0, <2>3, <3>1, SettledSlots
    <3>. QED BY <1>a, <1>c, <2>0, <2>1, <2>3, <3>2, CoversForeignCycle
  <2>. QED BY <1>b, <2>2, <2>3
<1>6. CASE CycleEnds(p)
  <2>0. PICK end \in {"flat", "bad"} : cycles' = EndsSlot(cycles, end) BY <1>6 DEF CycleEnds
  <2>1. /\ UNCHANGED closes /\ proc[p].at = "trading" /\ proc[p].kind = "cycle" /\ Len(cycles) > 0
        /\ pos = "flat" /\ AllGood(closes)
    BY <1>6, <1>b, <1>f DEF CycleEnds, OwnWorld
  <2>2. CASE p = "bot"
    <3>1. proc'["bot"].at = "none" BY <1>6, <1>a, <1>b, <1>e, <2>2 DEF CycleEnds
    <3>. QED BY <1>a, <1>d, <2>0, <2>1, <2>2, <3>1, CoversOwnCycle
  <2>3. CASE p = "term"
    <3>1. cycles[Len(cycles)].uid = NoUid /\ Bot.at \in {"none", "spawned"} /\ proc'["bot"] = Bot
      BY <1>c, <1>f, <2>1, <2>3 DEF Holds
    <3>2. Foreign(cycles) BY <1>a, <2>1, <3>1 DEF Foreign
    <3>3. ~Foreign(closes) BY <3>2 DEF TermInv
    <3>4. a.action = "run" /\ a.phase = "AUTO_CLOSE" => Bot.at = "none" BY <2>1, <3>1, <3>3 DEF CoversIn
    <3>. QED BY <1>a, <2>0, <2>1, <3>1, <3>4, CoversForeignCycle
  <2>. QED BY <1>b, <2>2, <2>3
<1>7. CASE CloseEnds(p)
  <2>0. PICK end \in {"flat", "bad"} : closes' = EndsSlot(closes, end) BY <1>7 DEF CloseEnds
  <2>1. UNCHANGED cycles /\ proc[p].at = "claimed" /\ proc[p].kind = "close" /\ Len(closes) > 0
    BY <1>7, <1>f DEF CloseEnds
  <2>2. CASE p = "bot"
    <3>1. proc'["bot"].at = "none" BY <1>7, <1>a, <1>b, <1>e, <2>2 DEF CloseEnds
    <3>. QED BY <1>a, <1>d, <2>0, <2>1, <2>2, <3>1, CoversOwnClose
  <2>3. CASE p = "term" BY <1>a, <1>c, <1>f, <2>0, <2>1, <2>3, CoversForeignClose
  <2>. QED BY <1>b, <2>2, <2>3
<1>8. CASE Dies(p)
  <2>0. UNCHANGED <<cycles, closes>> BY <1>8 DEF Dies
  <2>1. CASE p = "bot" BY <1>8, <1>a, <1>b, <1>e, <2>1, <2>0, CoversGone DEF Dies
  <2>2. CASE p = "term"
    <3>1. proc'["bot"] = Bot BY <1>c, <2>2
    <3>2. \/ pos' = pos
          \/ pos = "flat"
          \/ Foreign(closes)
      BY <1>b, <1>a, <1>c, <1>f, <2>2, <1>8 DEF OwnWorld, Foreign, Dies
    <3>. QED BY <1>a, <2>0, <3>1, <3>2 DEF CoversIn
  <2>. QED BY <1>b, <2>1, <2>2
<1>. QED BY <1>1, <1>2, <1>3, <1>4, <1>5, <1>6, <1>7, <1>8, <1>9 DEF Works, Prepares

-----------------------------------------------------------------------------
(* The record in memory and on the disk covers the world. *)

\* While at most one operation was started at a terminal, the record - of the
\* memory and of the disk - covers the child and every unproved slot.
RecordInv ==
    terminals <= 1 =>
        /\ Covers(mem.active) /\ Covers(disk.active)
        /\ pc = "finished" /\ op.safe => Covers(NoActive)

\* A step that moves nothing, or settles, keeps what is covered.
LEMMA CoversKept ==
    ASSUME TypeInv, Proved \/ UNCHANGED <<cycles, closes, lock, pos, terminals>>,
           \/ proc'["bot"].at = Bot.at /\ proc'["bot"].kind = Bot.kind
           \/ proc'["bot"].at = "none",
           NEW a \in Actives, Covers(a)
    PROVE  Covers(a)'
<1>1. cycles \in Seq(Slots) /\ closes \in Seq(Slots) BY DEF TypeInv, TypeOK
<1>2. CoversIn(a, cycles', closes', Bot, pos') BY <1>1, CoversSettled DEF Covers, Proved
<1>3. CASE proc'["bot"].at = "none" BY <1>2, <1>3, CoversGone DEF Covers, Bot
<1>4. CASE proc'["bot"].at = Bot.at /\ proc'["bot"].kind = Bot.kind BY <1>2, <1>4 DEF Covers, CoversIn, Under,
  Bot
<1>. QED BY <1>3, <1>4

\* A proof without a child covers every record that speaks of the present.
LEMMA CoversProved ==
    ASSUME TypeInv, Proved, Bot.at = "none", UNCHANGED proc,
           NEW a \in Actives, Sized(a, cycles, closes)
    PROVE  Covers(a)'
BY SettledSlots, SettledForeign, CoversAll DEF TypeInv, TypeOK, Proved, Sized, Covers, Bot

\* A launch from a proof covers the record that announces it.
LEMMA CoversSpawn ==
    ASSUME TypeInv, WorldInv, ChildInv, Proved, NEW kind, NEW uid, Spawn(kind, uid),
           NEW a \in Actives, Sized(a, cycles, closes),
           \/ a.action = "close" /\ kind = "close"
           \/ a.action = "run" /\ a.phase # "AUTO_CLOSE" /\ kind = "cycle"
           \/ a.action = "run" /\ a.phase = "AUTO_CLOSE" /\ kind = "close" /\ pos = "held"
    PROVE  Covers(a)'
<1>1. cycles \in Seq(Slots) /\ closes \in Seq(Slots) BY DEF TypeInv, TypeOK
<1>2. /\ Len(cycles') = Len(cycles) /\ Len(closes') = Len(closes)
      /\ AllGood(cycles') /\ AllGood(closes') /\ UNCHANGED pos
      /\ \A n : OwnGood(cycles', n) /\ OwnGood(closes', n)
  BY <1>1, SettledSlots, SettledForeign, AllIsOwn DEF Proved
<1>3. Bot'.at = "spawned" /\ Bot'.kind = kind BY DEF Spawn, Gone, Bot, ChildInv, ProcShape, Procs
<1>4. pos = "held" => ~FlatAtLast(cycles') BY SettledLast DEF WorldInv, LastFlat, FlatAtLast
<1>. QED BY <1>2, <1>3, <1>4 DEF Covers, CoversIn, Under, Sized

\* A result that is safe leaves nothing to cover.
LEMMA SafeCovers ==
    ASSUME TypeInv, NEW a \in Actives, a.action # "none", Covers(a), Bot.at = "none",
           LET slots == IF a.action = "close" THEN closes ELSE cycles
               none == Len(slots) = a.before
           IN  IF none THEN NothingLeft(a) ELSE AddedFlat(slots, a.before)
    PROVE  Covers(NoActive)
<1>1. cycles \in Seq(Slots) /\ closes \in Seq(Slots) BY DEF TypeInv, TypeOK
<1>2. ASSUME NEW slots \in Seq(Slots), NEW n \in Nat, OwnGood(slots, n), Len(slots) = n \/ AddedFlat(slots, n)
      PROVE  AllGood(slots)
  <2>1. DOMAIN slots = 1..Len(slots) /\ Len(slots) \in Nat OBVIOUS
  <2>2. Len(slots) = n \/ (Len(slots) = n + 1 /\ slots[Len(slots)].end = "flat") BY <1>2 DEF AddedFlat
  <2>3. ASSUME NEW i \in DOMAIN slots, slots[i].uid # NoUid PROVE slots[i].end \in Good
    <3>1. CASE i <= n BY <1>2, <2>3, <3>1 DEF OwnGood
    <3>2. CASE ~(i <= n)
      <4>1. i = Len(slots) /\ slots[i].end = "flat"
        <5>1. i \in 1..Len(slots) BY <2>1
        <5>3. Len(slots) = n \/ Len(slots) = n + 1 BY <2>2
        <5>4. i \in Nat /\ i <= Len(slots) /\ Len(slots) \in Nat BY <2>1, <5>1
        <5>5. n \in Nat BY <1>2
        <5>2. i = Len(slots) /\ Len(slots) = n + 1 BY <3>2, <5>3, <5>4, <5>5
        <5>. QED BY <2>1, <2>2, <5>2
      <4>. QED BY <4>1 DEF Good
    <3>. QED BY <3>1, <3>2
  <2>. QED BY <2>3 DEF AllGood
<1>3. a.before \in Nat /\ a.closeBefore \in Nat BY DEF Actives
<1>4. \A slots, n : AddedFlat(slots, n) /\ n \in Nat => slots[Len(slots)].end = "flat" /\ Len(slots) = n + 1
  BY DEF AddedFlat
<1>5. CASE a.action = "close" BY <1>5, <1>1, <1>2, <1>3 DEF Covers, CoversIn, Under, NoActive
<1>6. CASE a.action = "run" /\ a.phase # "AUTO_CLOSE"
  BY <1>6, <1>1, <1>2, <1>3 DEF Covers, CoversIn, Under, NoActive
<1>7. CASE a.action = "run" /\ a.phase = "AUTO_CLOSE"
  <2>1. /\ AllGood(cycles) /\ OwnGood(closes, a.closeBefore)
        /\ ~AllGood(closes) => ~FlatAtLast(cycles)
    BY <1>7 DEF Covers, CoversIn, Under
  <2>2. AddedFlat(closes, a.closeBefore) \/ AddedFlat(cycles, a.before) BY <1>7 DEF NothingLeft
  <2>3. CASE AddedFlat(closes, a.closeBefore) BY <1>1, <1>2, <1>3, <2>1, <2>3 DEF Covers, CoversIn, NoActive
  <2>4. CASE AddedFlat(cycles, a.before)
    BY <1>1, <1>3, <1>4, <2>4, <2>1 DEF FlatAtLast, Covers, CoversIn, NoActive
  <2>. QED BY <2>2, <2>3, <2>4
<1>. QED BY <1>5, <1>6, <1>7 DEF Actives

-----------------------------------------------------------------------------
(* The task and its record. *)

\* What a save, a failed save and the end of a /stop leave as records.
LEMMA SavedActives ==
    ASSUME NEW m, NEW S,
           mem.active \in S, disk.active \in S, m \in Stores, m.active \in S
    PROVE  /\ Save(m) => mem'.active \in S /\ disk'.active \in S
           /\ \A n, ds : Refuse(m, n, ds) /\ (\A d \in ds : d.active \in S) =>
                 mem'.active \in S /\ disk'.active \in S /\ pc' # "finished"
           /\ \A n, ds : Raise(m, n, ds) /\ (\A d \in ds : d.active \in S) =>
                 mem'.active \in S /\ disk'.active \in S /\ pc' # "finished"
           /\ \A r : StopDone(m, r) =>
                 mem'.active \in S /\ disk'.active \in S /\ pc' # "finished"
<1>1. Save(m) => mem'.active \in S /\ disk'.active \in S BY DEF Save
<1>2. ASSUME NEW n, NEW ds, Refuse(m, n, ds), \A d \in ds : d.active \in S
      PROVE  mem'.active \in S /\ disk'.active \in S /\ pc' # "finished"
  BY <1>2 DEF Refuse, Ends
<1>3. ASSUME NEW n, NEW ds, Raise(m, n, ds), \A d \in ds : d.active \in S
      PROVE  mem'.active \in S /\ disk'.active \in S /\ pc' # "finished"
  BY <1>3 DEF Stores, Raise, Ends
<1>4. ASSUME NEW r, StopDone(m, r)
      PROVE  mem'.active \in S /\ disk'.active \in S /\ pc' # "finished"
  BY <1>4 DEF Stores, StopDone
<1>. QED BY <1>1, <1>2, <1>3, <1>4

\* Whatever the task saves covers the world.
LEMMA RecordTask ==
    ASSUME TypeInv, ChildInv, PlaceInv, WorldInv, RecordInv, Task
    PROVE  RecordInv'
<1>. SUFFICES ASSUME terminals <= 1
     PROVE  /\ Covers(mem.active)' /\ Covers(disk.active)'
            /\ pc' = "finished" /\ op'.safe => Covers(NoActive)'
  BY TaskWorld DEF RecordInv
<1>. DEFINE S == {b \in Actives : Covers(b)'}
<1>0. /\ mem \in Stores /\ disk \in Stores /\ mem.active \in Actives /\ disk.active \in Actives
      /\ NoActive \in Actives /\ NoActive.action = "none"
      /\ Len(cycles) \in Nat /\ Len(closes) \in Nat
      /\ op.action \in {"run", "close"} /\ stop \in Uids \union {NoUid}
      /\ mem.active.action \in {"none", "run", "close"}
  BY DEF TypeInv, TypeOK, Stores, Actives, NoActive, NoUid
<1>a. up /\ (pc \notin ChildWaits => Bot.at = "none") BY TaskCases DEF ChildInv, Bot
<1>b. Covers(mem.active) /\ Covers(disk.active) BY DEF RecordInv
<1>c. /\ Sized(mem.active, cycles, closes) /\ Sized(disk.active, cycles, closes)
      /\ Sized(NoActive, cycles, closes)
  BY <1>0, <1>b, CoversSized DEF Covers, Sized
<1>d. /\ Record \in Actives /\ Record.action = op.action /\ Record.phase = "none"
      /\ Record.before = IF op.action = "run" THEN Len(cycles) ELSE Len(closes)
  BY RecordType
<1>e. Sized(Record, cycles, closes) BY <1>d, <1>0 DEF Sized
<1>s. SUFFICES mem'.active \in S /\ disk'.active \in S /\ (pc' = "finished" /\ op'.safe => NoActive \in S) OBVIOUS
<1>p. ASSUME Proved, Bot.at = "none", UNCHANGED proc
      PROVE  mem.active \in S /\ disk.active \in S /\ NoActive \in S /\ Record \in S
  BY <1>p, <1>0, <1>c, <1>d, <1>e, CoversProved
<1>k. ASSUME UNCHANGED <<cycles, closes, lock, pos, terminals>>, UNCHANGED proc \/ GivesUp
      PROVE  mem.active \in S /\ disk.active \in S /\ \A b \in Actives : Covers(b) => b \in S
  BY <1>k, <1>0, <1>b, CoversKept DEF GivesUp, Bot, ChildInv, ProcShape, Procs, Gone
<1>. HIDE DEF S
<1>1. CASE AdmissionRefused \/ PreClosed \/ LaunchFails \/ PauseEnds \/ CheckRaises
              \/ StopClosed \/ StopUnproved \/ StopLaunchFails
  <2>1. mem.active \in S /\ disk.active \in S
    BY <1>1, <1>k DEF AdmissionRefused, PreClosed, LaunchFails, PauseEnds, CheckRaises, StopClosed,
      StopUnproved, StopLaunchFails, GivesUp, world
  <2>2. \/ UNCHANGED <<mem, disk>> /\ pc' # "finished"
        \/ \E n, ds : Refuse(mem, n, ds) /\ ds = {disk}
        \/ \E n, ds : Raise(mem, n, ds) /\ ds = {disk}
        \/ \E r : StopDone(mem, r)
    <3>1. CASE AdmissionRefused BY <3>1 DEF AdmissionRefused
    <3>2. CASE PreClosed \/ LaunchFails \/ CheckRaises BY <3>2 DEF PreClosed, LaunchFails, CheckRaises
    <3>3. CASE PauseEnds BY <3>3 DEF PauseEnds
    <3>4. CASE StopClosed \/ StopUnproved \/ StopLaunchFails BY <3>4 DEF StopClosed, StopUnproved,
      StopLaunchFails
    <3>. QED BY <1>1, <3>1, <3>2, <3>3, <3>4
  <2>3. mem'.active \in S /\ disk'.active \in S /\ pc' # "finished" BY <1>0, <2>1, <2>2, SavedActives
  <2>. QED BY <2>3
<1>2. CASE AdmitFlat \/ NextFlat \/ StopFlat
  BY <1>2, <1>a, <1>p DEF AdmitFlat, NextFlat, StopFlat, ProvedFlat, ChildWaits
<1>3. CASE Admit
  <2>. DEFINE m == IF op.action = "run" THEN [mem EXCEPT !.lastStop = "none"] ELSE mem
  <2>1. mem.active \in S /\ disk.active \in S BY <1>3, <1>k DEF Admit, world
  <2>2. m \in Stores /\ m.active = mem.active BY <1>0 DEF Stores
  <2>3. \/ Save(m) /\ pc' = "closeReady"
        \/ Refuse(m, 1, {disk, m})
    BY <1>3 DEF Admit
  <2>. HIDE DEF m
  <2>. QED BY <2>1, <2>2, <2>3, SavedActives
<1>4. CASE AdmitClose \/ AdmitReady
  <2>. DEFINE m1 == [mem EXCEPT !.active = NoActive]
              m2 == [mem EXCEPT !.active = Record]
  <2>1. /\ m1 \in Stores /\ m1.active = NoActive
        /\ m2 \in Stores /\ m2.active = Record
    BY <1>0, <1>d, StoreWith
  <2>2. pc \in {"closeReady", "ready"} /\ Proved BY <1>4 DEF AdmitClose, AdmitReady, ProvedFlat
  <2>3. Bot.at = "none" BY <2>2, <1>a DEF ChildWaits
  <2>4. \/ Save(m2) /\ \E kind : Spawn(kind, op.uid) /\ pc' = "launch"
                                   /\ kind = IF op.action = "run" THEN "cycle" ELSE "close"
        \/ Save(m2) /\ UNCHANGED proc /\ pc' = "leaving"
        \/ Refuse(m1, 1, {disk, m1}) /\ UNCHANGED proc
        \/ Refuse(m2, 1, {m1, m2}) /\ UNCHANGED proc
    <3>1. CASE AdmitClose BY <3>1 DEF AdmitClose, Recorded
    <3>2. CASE AdmitReady BY <3>2 DEF AdmitReady, PlaceInv, Recorded, LaunchUnlessStopped
    <3>. QED BY <1>4, <3>1, <3>2
  <2>. HIDE DEF m1, m2
  <2>5. CASE UNCHANGED proc BY <1>p, <2>1, <2>2, <2>3, <2>5, <2>4, SavedActives
  <2>6. CASE /\ Save(m2) /\ pc' = "launch"
             /\ \E kind : Spawn(kind, op.uid) /\ kind = IF op.action = "run" THEN "cycle" ELSE "close"
    <3>1. PICK kind : Spawn(kind, op.uid) /\ kind = IF op.action = "run" THEN "cycle" ELSE "close" BY <2>6
    <3>2. Record.phase # "AUTO_CLOSE" BY <1>d
    <3>3. \/ Record.action = "close" /\ kind = "close"
          \/ Record.action = "run" /\ Record.phase # "AUTO_CLOSE" /\ kind = "cycle"
      BY <1>0, <1>d, <3>1, <3>2
    <3>4. Record \in S
      <4>1. ASSUME NEW b \in Actives, b = Record PROVE Covers(b)' BY <1>e, <4>1, <3>3, <2>2, <3>1, CoversSpawn
      <4>. QED BY <1>d, <4>1 DEF S
    <3>. QED BY <2>1, <2>6, <3>4 DEF Save
  <2>. QED BY <2>4, <2>5, <2>6
<1>5. CASE AdmitHeld \/ NextHeld \/ StopHeld
  <2>1. /\ Proved /\ pos = "held" /\ Bot.at = "none" /\ pc' # "finished"
    BY <1>5, <1>a DEF AdmitHeld, NextHeld, StopHeld, ChildWaits, Refuse, Raise, StopDone, Ends, ProvedHeld
  <2>2. PICK m \in Stores :
           /\ Sized(m.active, cycles, closes)
           /\ \/ m.active.action = "close"
              \/ m.active.action = "run" /\ m.active.phase = "AUTO_CLOSE"
           /\ \/ Save(m) /\ \E uid : Spawn("close", uid)
              \/ Refuse(m, 1, {disk, m}) /\ UNCHANGED proc
              \/ Raise(m, 1, {disk, m}) /\ UNCHANGED proc
              \/ StopDone(m, "NOT_PROVED") /\ UNCHANGED proc
    <3>1. CASE AdmitHeld
      <4>. DEFINE b == [Record EXCEPT !.phase = "AUTO_CLOSE", !.closeBefore = Len(closes)]
                  m == [mem EXCEPT !.active = b]
      <4>1. b \in Actives /\ b.action = "run" /\ b.phase = "AUTO_CLOSE"
            /\ b.before = Len(cycles) /\ b.closeBefore = Len(closes)
        BY <3>1, <1>0, <1>d DEF Actives, AdmitHeld
      <4>2. m \in Stores /\ m.active = b BY <1>0, <4>1, StoreWith
      <4>3. \/ Save(m) /\ Spawn("close", op.uid)
            \/ Refuse(m, 1, {disk, m}) /\ UNCHANGED proc
        BY <3>1 DEF AdmitHeld
      <4>. HIDE DEF b, m
      <4>4. Sized(b, cycles, closes) BY <4>1, <1>0 DEF Sized
      <4>. QED BY <4>1, <4>2, <4>3, <4>4
    <3>2. CASE NextHeld
      <4>. DEFINE m == [mem EXCEPT !.active.phase = "AUTO_CLOSE", !.active.closeBefore = Len(closes)]
      <4>1. /\ m \in Stores
            /\ m.active = [mem.active EXCEPT !.phase = "AUTO_CLOSE", !.closeBefore = Len(closes)]
        <5>1. Sound(mem) BY <1>0 DEF Sound, TypeInv
        <5>2. Sound(m) BY <1>0, <5>1, SoundStores
        <5>3. m.active = [mem.active EXCEPT !.phase = "AUTO_CLOSE", !.closeBefore = Len(closes)] BY <1>0 DEF
          Stores
        <5>. QED BY <5>2, <5>3 DEF Sound
      <4>0. mem.active.action = "run" BY <3>2 DEF NextHeld, PlaceInv
      <4>2. /\ m.active.action = "run" /\ m.active.phase = "AUTO_CLOSE"
            /\ m.active.before = mem.active.before /\ m.active.closeBefore = Len(closes)
            /\ mem.active.action = "run"
        <5>. DEFINE c == mem.active
                    n == Len(closes)
        <5>1. c \in Actives /\ n \in Nat /\ c.action = "run" BY <1>0, <4>0
        <5>. HIDE DEF c, n
        <5>2. LET d == [c EXCEPT !.phase = "AUTO_CLOSE", !.closeBefore = n] IN
                 /\ d.action = "run" /\ d.phase = "AUTO_CLOSE" /\ d.before = c.before /\ d.closeBefore = n
          BY <5>1 DEF Actives
        <5>. QED BY <4>1, <5>1, <5>2 DEF c, n
      <4>3. \/ Save(m) /\ Spawn("close", op.uid)
            \/ Raise(m, 1, {disk, m}) /\ UNCHANGED proc
        BY <3>2 DEF NextHeld
      <4>. HIDE DEF m
      <4>4. Sized(m.active, cycles, closes) BY <4>2, <1>0, <1>c DEF Sized
      <4>. QED BY <4>1, <4>2, <4>3, <4>4
    <3>3. CASE StopHeld
      <4>. DEFINE b == [NoActive EXCEPT !.action = "close", !.uid = stop, !.before = Len(closes)]
                  m == [mem EXCEPT !.active = b]
      <4>1. b \in Actives /\ b.action = "close" /\ b.before = Len(closes) BY <1>0 DEF Actives
      <4>2. m \in Stores /\ m.active = b BY <1>0, <4>1, StoreWith
      <4>3. \/ Save(m) /\ Spawn("close", stop)
            \/ StopDone(m, "NOT_PROVED") /\ UNCHANGED proc
        BY <3>3 DEF StopHeld
      <4>. HIDE DEF b, m
      <4>4. Sized(b, cycles, closes) BY <4>1, <1>0 DEF Sized
      <4>. QED BY <4>1, <4>2, <4>3, <4>4
    <3>. QED BY <1>5, <3>1, <3>2, <3>3
  <2>3. m.active \in Actives BY DEF Stores
  <2>4. CASE UNCHANGED proc BY <1>p, <2>1, <2>4, <2>2, <2>3, CoversProved, SavedActives DEF S
  <2>5. CASE Save(m) /\ \E uid : Spawn("close", uid) BY <2>1, <2>2, <2>3, <2>5, CoversSpawn DEF S, Save
  <2>. QED BY <2>2, <2>4, <2>5
<1>6. CASE ReadyAfterClose \/ NextReady
  <2>1. /\ Proved /\ Bot.at = "none" /\ op.action = "run" /\ mem.active.action = "run"
    BY <1>6, <1>a DEF ReadyAfterClose, NextReady, ProvedFlat, ChildWaits, PlaceInv
  <2>2. PICK m \in Stores :
           /\ Sized(m.active, cycles, closes)
           /\ m.active.action = "run" /\ m.active.phase # "AUTO_CLOSE"
           /\ \/ Save(m) /\ LaunchUnlessStopped
              \/ Raise(m, 1, {disk, m}) /\ UNCHANGED proc
    <3>1. CASE ReadyAfterClose
      <4>. DEFINE m == [mem EXCEPT !.active.phase = "RUN"]
      <4>1. m \in Stores /\ m.active = [mem.active EXCEPT !.phase = "RUN"]
        BY <1>0, SoundStores DEF Sound, TypeInv, Stores
      <4>3. \/ Save(m) /\ LaunchUnlessStopped
            \/ Raise(m, 1, {disk, m}) /\ UNCHANGED proc
        BY <3>1 DEF ReadyAfterClose
      <4>. HIDE DEF m
      <4>2. m.active.action = "run" /\ m.active.phase = "RUN" /\ m.active.before = mem.active.before
        <5>1. ASSUME NEW a \in Actives, NEW b, b = [a EXCEPT !.phase = "RUN"]
              PROVE  b.action = a.action /\ b.phase = "RUN" /\ b.before = a.before
          BY <5>1 DEF Actives
        <5>. QED BY <4>1, <5>1, <2>1, <1>0
      <4>4. Sized(m.active, cycles, closes) BY <2>1, <4>2, <1>c DEF Sized
      <4>. QED BY <4>1, <4>2, <4>3, <4>4
    <3>2. CASE NextReady BY <3>2, <1>0, <1>c, <2>1 DEF NextReady, PlaceInv
    <3>. QED BY <1>6, <3>1, <3>2
  <2>3. m.active \in Actives BY DEF Stores
  <2>4. CASE UNCHANGED proc
    BY <1>p, <2>1, <2>4, <2>2, <2>3, CoversProved, SavedActives DEF S, LaunchUnlessStopped
  <2>5. CASE Save(m) /\ Spawn("cycle", op.uid) /\ pc' = "launch"
    BY <2>1, <2>2, <2>3, <2>5, CoversSpawn DEF S, Save
  <2>. QED BY <2>2, <2>4, <2>5 DEF LaunchUnlessStopped
<1>7. ASSUME NEW retain \in BOOLEAN, Bot.at = "none", UNCHANGED <<cycles, closes, lock, pos, terminals, proc>>
      PROVE  LET m == Finish(mem, retain) IN
             /\ mem.active \in S /\ disk.active \in S
             /\ m \in Stores /\ m.active \in S
             /\ mem.active.action # "none" /\ m.last = "FINISHED" => NoActive \in S
             /\ [m EXCEPT !.active = mem.active] \in Stores
             /\ [m EXCEPT !.active = mem.active].active = mem.active
  <2>. DEFINE a == mem.active
              slots == IF a.action = "close" THEN closes ELSE cycles
              none == Len(slots) = a.before
              safe == IF none THEN NothingLeft(a) ELSE AddedFlat(slots, a.before)
              m == Finish(mem, retain)
  <2>1. mem.active \in S /\ disk.active \in S BY <1>7, <1>k
  <2>2. a.action # "none" /\ safe => Covers(NoActive) BY <1>0, <1>7, <1>b, SafeCovers
  <2>3. Covers(NoActive) => NoActive \in S BY <1>0, <1>7, <1>k
  <2>4. m \in Stores BY <1>0, FinishType
  <2>5. /\ a.action = "none" => m = mem
        /\ a.action # "none" => m.active = a \/ (m.active = NoActive /\ safe)
        /\ a.action # "none" /\ m.last = "FINISHED" => safe
    BY <1>0, FinishResult
  <2>6. [m EXCEPT !.active = mem.active] \in Stores BY <2>4, <1>0, StoreTypes
  <2>. HIDE DEF m, safe, none, slots
  <2>7. [m EXCEPT !.active = mem.active].active = mem.active BY <2>4 DEF Stores
  <2>8. m.active \in S BY <2>1, <2>2, <2>3, <2>5
  <2>9. mem.active.action # "none" /\ m.last = "FINISHED" => NoActive \in S BY <2>2, <2>3, <2>5
  <2>. QED BY <2>1, <2>4, <2>6, <2>7, <2>8, <2>9 DEF m
<1>8. CASE Judge
  <2>. DEFINE m == Finish(mem, op.step < op.total)
              n == [m EXCEPT !.active = mem.active]
  <2>1. /\ Bot.at = "none" /\ UNCHANGED <<cycles, closes, lock, pos, terminals, proc>>
        /\ mem.active.action = op.action
    BY <1>8 DEF Judge, world, Bot, PlaceInv
  <2>2. (op.step < op.total) \in BOOLEAN OBVIOUS
  <2>3. /\ mem.active \in S /\ disk.active \in S /\ m \in Stores /\ m.active \in S
        /\ mem.active.action # "none" /\ m.last = "FINISHED" => NoActive \in S
        /\ n \in Stores /\ n.active = mem.active
    BY <1>7, <2>1, <2>2
  <2>4. \/ Save(m) /\ op' = [op EXCEPT !.safe = (op.action = "run" /\ m.last = "FINISHED")]
        \/ Raise(n, 1, {disk, m})
    BY <1>8 DEF Judge
  <2>. HIDE DEF m, n
  <2>5. CASE Raise(n, 1, {disk, m}) BY <2>3, <2>5, SavedActives
  <2>6. CASE Save(m) /\ op' = [op EXCEPT !.safe = (op.action = "run" /\ m.last = "FINISHED")]
    BY <2>6, <2>1, <2>3, <1>0 DEF TypeInv, TypeOK, Save
  <2>. QED BY <2>4, <2>5, <2>6
<1>9. CASE Leave
  <2>. DEFINE m == Finish(mem, FALSE)
              n == [m EXCEPT !.active = mem.active]
  <2>1. /\ Bot.at = "none" /\ UNCHANGED <<cycles, closes, lock, pos, terminals, proc>>
    BY <1>9, <1>a DEF Leave, world, ChildWaits
  <2>3. /\ mem.active \in S /\ disk.active \in S /\ m \in Stores /\ m.active \in S
        /\ n \in Stores /\ n.active = mem.active
    BY <1>7, <2>1
  <2>4. \/ Save(m) /\ pc' # "finished"
        \/ Raise(n, 1, {disk, m})
        \/ UNCHANGED <<mem, disk>> /\ pc' # "finished"
    BY <1>9 DEF Leave, Ends
  <2>. HIDE DEF m, n
  <2>5. n.active \in S /\ \A d \in {disk, m} : d.active \in S BY <2>3
  <2>. QED BY <2>3, <2>4, <2>5, SavedActives
<1>10. CASE NextStep
  <2>. DEFINE m == [mem EXCEPT !.active.index = @ + 1, !.active.before = Len(cycles),
                               !.active.phase = "none", !.active.closeBefore = 0]
  <2>1. /\ Bot.at = "none" /\ UNCHANGED <<cycles, closes, lock, pos, terminals, proc>>
        /\ pc = "finished" /\ op.safe /\ mem.active.action = "run"
    BY <1>10, <1>a DEF NextStep, world, ChildWaits, PlaceInv
  <2>2. AllGood(cycles) /\ AllGood(closes) BY <2>1, <1>0 DEF RecordInv, Covers, CoversIn
  <2>3. /\ m \in Stores
        /\ m.active = [mem.active EXCEPT !.index = @ + 1, !.before = Len(cycles),
                                         !.phase = "none", !.closeBefore = 0]
    <3>1. Sound(mem) BY <1>0 DEF Sound, TypeInv
    <3>2. Sound(m) BY <1>0, <3>1, SoundStores
    <3>3. m.active = [mem.active EXCEPT !.index = @ + 1, !.before = Len(cycles),
                                        !.phase = "none", !.closeBefore = 0]
      BY <1>0 DEF Stores
    <3>. QED BY <3>2, <3>3 DEF Sound
  <2>4. /\ m.active \in Actives /\ m.active.action = "run" /\ m.active.phase = "none"
        /\ m.active.before = Len(cycles)
    BY <1>0, <2>1, <2>3 DEF Stores, Actives
  <2>5. \/ Save(m) /\ pc' = "pause"
        \/ Raise(m, 1, {disk, m})
    BY <1>10 DEF NextStep
  <2>. HIDE DEF m
  <2>6. Sized(m.active, cycles, closes) BY <2>4, <1>0 DEF Sized
  <2>7. Covers(m.active) BY <2>1, <2>2, <2>6, CoversAll DEF Covers
  <2>8. m.active \in S /\ mem.active \in S /\ disk.active \in S BY <1>k, <2>1, <2>4, <2>7
  <2>. QED BY <2>3, <2>5, <2>8, SavedActives
<1>11. CASE StopProved
  <2>. DEFINE m == [mem EXCEPT !.active = NoActive]
  <2>1. Proved /\ UNCHANGED proc /\ Bot.at = "none" BY <1>11, <1>a DEF StopProved, ProvedFlat, ChildWaits
  <2>2. m \in Stores /\ m.active = NoActive BY <1>0, StoreTypes DEF Stores
  <2>3. StopDone(m, "FLAT") BY <1>11 DEF StopProved
  <2>. HIDE DEF m
  <2>. QED BY <1>p, <2>1, <2>2, <2>3, SavedActives
<1>. QED BY <1>1, <1>2, <1>3, <1>4, <1>5, <1>6, <1>8, <1>9, <1>10, <1>11 DEF Task

-----------------------------------------------------------------------------
(* Every step and the record; the barrier. *)

\* At the start there is nothing to record.
LEMMA RecordInit == Init => RecordInv
<1>. SUFFICES ASSUME Init PROVE RecordInv OBVIOUS
<1>1. NoActive.action = "none" BY DEF NoActive
<1>2. mem.active = NoActive /\ disk.active = NoActive /\ pc # "finished" BY DEF Init, NewStore
<1>3. Bot.at = "none" BY DEF Init, Bot, Gone, Procs
<1>4. AllGood(cycles) /\ AllGood(closes) BY DEF Init, AllGood
<1>. QED BY <1>1, <1>2, <1>3, <1>4 DEF RecordInv, Covers, CoversIn

\* Every step keeps a covering record, in memory and on the disk.
LEMMA RecordStep ==
    ASSUME TypeInv, ChildInv, PlaceInv, WorldInv, TermInv, RecordInv, [Next]_vars
    PROVE  RecordInv'
<1>0. /\ mem \in Stores /\ disk \in Stores /\ mem.active \in Actives /\ disk.active \in Actives
      /\ NoActive \in Actives /\ NoActive.action = "none" /\ proc \in [Procs -> Ways]
      /\ "bot" \in Procs /\ "term" \in Procs /\ terminals \in Nat
  BY DEF TypeInv, TypeOK, Stores, Actives, NoActive, NoUid, Ways, Procs
\* A step that keeps what is covered and takes no new record.
<1>k. ASSUME terminals' <= 1 => terminals <= 1,
             Proved \/ UNCHANGED <<cycles, closes, lock, pos>>,
             proc'["bot"].at = Bot.at /\ proc'["bot"].kind = Bot.kind,
             mem'.active \in {mem.active, disk.active}, disk'.active \in {mem.active, disk.active},
             pc' = "finished" /\ op'.safe => pc = "finished" /\ op.safe
      PROVE  RecordInv'
  <2>. SUFFICES ASSUME terminals' <= 1
       PROVE  /\ Covers(mem.active)' /\ Covers(disk.active)'
              /\ pc' = "finished" /\ op'.safe => Covers(NoActive)'
    BY DEF RecordInv
  <2>1. terminals <= 1 BY <1>k
  <2>2. ASSUME NEW a \in Actives, Covers(a) PROVE Covers(a)'
    BY <1>k, <2>2, CoversKept DEF Covers, CoversIn, Under, Bot
  <2>3. Covers(mem.active) /\ Covers(disk.active) /\ (pc = "finished" /\ op.safe => Covers(NoActive))
    BY <2>1 DEF RecordInv
  <2>4. \A a \in {mem.active, disk.active} : Covers(a)' BY <1>0, <2>2, <2>3
  <2>. QED BY <1>0, <1>k, <2>2, <2>3, <2>4
<1>1. CASE Handle
  <2>1. PICK c : \/ /\ mem' = Consumed(mem, mem.offset) /\ disk' = mem'
                    /\ IF c.action = "stop" THEN RequestStop(mem.offset) ELSE Start(mem.offset, c)
                 \/ /\ disk' \in {disk, Consumed(mem, mem.offset)} /\ mem' = disk'
                    /\ pc' = "idle" /\ UNCHANGED proc
    BY <1>1 DEF Handle
  <2>2. Consumed(mem, mem.offset).active = mem.active BY <1>0 DEF Consumed, Stores
  <2>3. mem'.active \in {mem.active, disk.active} /\ disk'.active \in {mem.active, disk.active} BY <2>1, <2>2
  <2>4. Told["bot"].at = Bot.at /\ Told["bot"].kind = Bot.kind BY <1>0 DEF Told, Bot, Ways
  <2>5. proc' = Told \/ UNCHANGED proc BY <2>1 DEF RequestStop, Start
  <2>6. pc' = "finished" /\ op'.safe => pc = "finished" /\ op.safe BY <2>1 DEF RequestStop, Start
  <2>7. UNCHANGED <<cycles, closes, lock, pos, terminals>> BY <1>1 DEF Handle
  <2>. QED BY <1>k, <2>3, <2>4, <2>5, <2>6, <2>7 DEF Bot
<1>2. CASE Crash BY <1>k, <1>2 DEF Crash, world, Bot
<1>3. CASE UNCHANGED vars BY <1>k, <1>3 DEF vars, world, Bot
<1>4. CASE \E kind \in {"cycle", "close"} : TerminalStarts(kind)
  <2>1. PICK kind \in {"cycle", "close"} : TerminalStarts(kind) BY <1>4
  <2>2. proc'["bot"] = proc["bot"] /\ terminals' = terminals + 1 BY <1>0, <2>1 DEF TerminalStarts
  <2>3. UNCHANGED <<cycles, closes, lock, pos, mem, disk, pc, op>> BY <2>1 DEF TerminalStarts, controller
  <2>. QED BY <1>0, <1>k, <2>2, <2>3 DEF Bot
<1>5. CASE Restart
  <2>. SUFFICES ASSUME terminals' <= 1
       PROVE  Covers(mem.active)' /\ Covers(disk.active)' /\ pc' # "finished"
    BY DEF RecordInv
  <2>. DEFINE a == disk.active
              m == Finish(disk, FALSE)
              slots == IF a.action = "close" THEN closes ELSE cycles
              none == Len(slots) = a.before
              safe == IF none THEN NothingLeft(a) ELSE AddedFlat(slots, a.before)
  <2>1. /\ Bot.at = "none" /\ UNCHANGED <<proc, terminals>> /\ pc' # "finished"
    BY <1>5 DEF Restart, ChildInv, Bot, Proved
  <2>2. Covers(a) BY <2>1 DEF RecordInv
  <2>3. m \in Stores BY <1>0, FinishType
  <2>4. /\ a.action = "none" => m = disk
        /\ a.action # "none" => m.active = a \/ (m.active = NoActive /\ safe)
    BY <1>0, FinishResult
  <2>5. a.action # "none" /\ safe => Covers(NoActive) BY <1>0, <2>1, <2>2, SafeCovers
  <2>. HIDE DEF safe, none, slots
  <2>6. m.active \in Actives /\ Covers(m.active) BY <1>0, <2>2, <2>4, <2>5
  <2>7. PICK cleared \in BOOLEAN :
           /\ IF cleared THEN Proved ELSE UNCHANGED <<cycles, closes, lock, pos, terminals>>
           /\ \E k : Save([m EXCEPT !.active = IF cleared THEN NoActive ELSE @, !.offset = k])
    BY <1>5 DEF Restart
  <2>. HIDE DEF m
  <2>8. PICK k : Save([m EXCEPT !.active = IF cleared THEN NoActive ELSE @, !.offset = k]) BY <2>7
  <2>9. mem' = disk' /\ mem'.active = IF cleared THEN NoActive ELSE m.active BY <2>3, <2>8 DEF Save, Stores
  <2>10. CASE cleared BY <1>0, <2>1, <2>7, <2>10, CoversProved, <2>9 DEF Sized, Covers, NoActive
  <2>11. CASE ~cleared
    <3>1. ASSUME NEW b \in Actives, Covers(b) PROVE Covers(b)' BY <2>1, <2>7, <2>11, <3>1, CoversKept DEF Bot
    <3>2. \A b \in Actives : b = m.active => Covers(b)' BY <2>6, <3>1
    <3>3. mem'.active = m.active /\ disk'.active = m.active /\ m.active \in Actives BY <2>6, <2>9, <2>11
    <3>. QED BY <2>1, <3>2, <3>3
  <2>. QED BY <2>10, <2>11
<1>6. ASSUME NEW p \in Procs, Works(p) \/ Dies(p) PROVE RecordInv'
  <2>. SUFFICES ASSUME terminals' <= 1
       PROVE  /\ Covers(mem.active)' /\ Covers(disk.active)'
              /\ pc' = "finished" /\ op'.safe => Covers(NoActive)'
    BY DEF RecordInv
  <2>1. UNCHANGED controller /\ UNCHANGED terminals
    BY <1>6 DEF Works, Prepares, Dies, Locks, LauncherRefuses, Claims, CycleRefused, Checks, Opens, CycleEnds,
      CloseEnds
  <2>2. ASSUME NEW a \in Actives, Covers(a) PROVE Covers(a)' BY <1>6, <2>1, <2>2, CoversWorks DEF Covers, Bot
  <2>3. Covers(mem.active) /\ Covers(disk.active) /\ (pc = "finished" /\ op.safe => Covers(NoActive))
    BY <2>1 DEF RecordInv
  <2>4. \A a \in {mem.active, disk.active} : Covers(a)' BY <1>0, <2>2, <2>3
  <2>. QED BY <1>0, <2>1, <2>2, <2>3, <2>4 DEF controller
<1>. QED BY <1>1, <1>2, <1>3, <1>4, <1>5, <1>6, RecordTask DEF Next

\* What the disk records is enough to judge what is left.
LEMMA RecordBarrier == RecordInv => (terminals <= 1 => BarrierHolds)
<1>. SUFFICES ASSUME RecordInv, terminals <= 1, disk.active.action = "none" PROVE BarrierHolds BY DEF
  BarrierHolds
<1>1. Bot.at = "none" /\ AllGood(cycles) /\ AllGood(closes) BY DEF RecordInv, Covers, CoversIn
<1>. QED BY <1>1 DEF BarrierHolds, AllGood, Bot, Good

\* The places, the world and the terminal at the start.
LEMMA WorldInit == Init => PlaceInv /\ WorldInv /\ TermInv
<1>. SUFFICES ASSUME Init PROVE PlaceInv /\ WorldInv /\ TermInv OBVIOUS
<1>1. PlaceInv BY DEF Init, PlaceInv, TaskPlaces
<1>2. Procs = {"bot", "term"} /\ \A p \in Procs : proc[p].at = "none" BY DEF Init, Procs, Gone
<1>3. WorldInv BY <1>2 DEF Init, WorldInv, OwnWorld, LastFlat, Bot, Holds
<1>4. TermInv BY <1>2 DEF Init, TermInv, Foreign
<1>. QED BY <1>1, <1>3, <1>4

\* While at most one operation has been started at a terminal, the record of
\* a command is on the disk as long as its child runs or a slot of one is
\* unproved.  The hypothesis is the code's: telegram_control.py:478.
THEOREM BarrierCorrect == Spec => [](terminals <= 1 => BarrierHolds)
<1>. DEFINE I == TypeInv /\ ChildInv /\ PlaceInv /\ WorldInv /\ TermInv /\ RecordInv
<1>1. Init => I BY TypeInit, ChildInit, WorldInit, RecordInit
<1>2. I /\ [Next]_vars => I' BY TypeStep, ChildStep, PlaceStep, WorldStep, TermStep, RecordStep
<1>3. I => (terminals <= 1 => BarrierHolds) BY RecordBarrier
<1>. QED BY <1>1, <1>2, <1>3, PTL DEF Spec

-----------------------------------------------------------------------------
(* Counting the slots that ended flat. *)

\* The flat cycles among the slots above base, up to the n-th.
FlatSlots(cs, base, n) == {i \in DOMAIN cs : i > base /\ i <= n /\ cs[i].end = "flat"}
Flats(cs, base, n) == Cardinality(FlatSlots(cs, base, n))

\* Counting the slots of a sequence.
LEMMA SlotsFinite ==
    ASSUME NEW cs \in Seq(Slots)
    PROVE  \A T \in SUBSET DOMAIN cs : IsFiniteSet(T) /\ Cardinality(T) \in Nat
<1>1. DOMAIN cs = 1..Len(cs) /\ Len(cs) \in Int OBVIOUS
<1>2. IsFiniteSet(DOMAIN cs) BY <1>1, FS_Interval
<1>. QED BY <1>2, FS_Subset, FS_CardinalityType

\* A history that is settled has as many flat slots as before.
LEMMA FlatsGrow ==
    ASSUME NEW cs \in Seq(Slots), NEW ct \in Seq(Slots), NEW b \in Nat, NEW n \in Nat,
           DOMAIN cs \subseteq DOMAIN ct,
           \A i \in DOMAIN cs : cs[i].end = "flat" => ct[i].end = "flat"
    PROVE  /\ Flats(cs, b, n) \in Nat /\ Flats(ct, b, n) \in Nat
           /\ Flats(cs, b, n) <= Flats(ct, b, n)
<1>1. FlatSlots(cs, b, n) \in SUBSET FlatSlots(ct, b, n) BY DEF FlatSlots
<1>2. FlatSlots(cs, b, n) \in SUBSET DOMAIN cs /\ FlatSlots(ct, b, n) \in SUBSET DOMAIN ct BY DEF FlatSlots
<1>3. IsFiniteSet(FlatSlots(ct, b, n)) /\ Flats(cs, b, n) \in Nat /\ Flats(ct, b, n) \in Nat
  BY <1>2, SlotsFinite DEF Flats
<1>4. Cardinality(FlatSlots(cs, b, n)) <= Cardinality(FlatSlots(ct, b, n)) BY <1>1, <1>3, FS_Subset
<1>. QED BY <1>3, <1>4 DEF Flats

\* A new flat slot is one more.
LEMMA FlatsAdd ==
    ASSUME NEW cs \in Seq(Slots), NEW b \in Nat, NEW n \in Nat, b <= n, AddedFlat(cs, n)
    PROVE  Flats(cs, b, Len(cs)) = Flats(cs, b, n) + 1 /\ Flats(cs, b, n) \in Nat /\ Len(cs) = n + 1
<1>1. Len(cs) = n + 1 /\ cs[n + 1].end = "flat" BY DEF AddedFlat
<1>2. DOMAIN cs = 1..(n + 1) BY <1>1
<1>3. FlatSlots(cs, b, n + 1) = FlatSlots(cs, b, n) \cup {n + 1} BY <1>1, <1>2 DEF FlatSlots
<1>4. n + 1 \notin FlatSlots(cs, b, n) BY DEF FlatSlots
<1>5. FlatSlots(cs, b, n) \in SUBSET DOMAIN cs BY DEF FlatSlots
<1>6. IsFiniteSet(FlatSlots(cs, b, n)) /\ Cardinality(FlatSlots(cs, b, n)) \in Nat BY <1>5, SlotsFinite
<1>. QED BY <1>1, <1>3, <1>4, <1>6, FS_AddElement DEF Flats

\* Slots are only added, and an end that was reached is only ever settled:
\* what ended flat stays so.
LEMMA SlotsGrow ==
    ASSUME TypeInv, ChildInv, PlaceInv, WorldInv, [Next]_vars
    PROVE  /\ DOMAIN cycles \subseteq DOMAIN cycles' /\ Len(cycles) <= Len(cycles')
           /\ \A i \in DOMAIN cycles : /\ cycles'[i].uid = cycles[i].uid
                                       /\ cycles[i].end = "flat" => cycles'[i].end = "flat"
<1>a. cycles \in Seq(Slots) /\ Len(cycles) \in Nat /\ DOMAIN cycles = 1..Len(cycles) /\ proc \in [Procs -> Ways]
  BY DEF TypeInv, TypeOK, Ways
<1>1. CASE UNCHANGED cycles BY <1>1, <1>a
<1>2. CASE cycles' = Settled(cycles) BY <1>2, <1>a, SettledSlots
<1>3. ASSUME NEW p \in Procs, Works(p) \/ Dies(p), cycles' # cycles
      PROVE  /\ DOMAIN cycles \subseteq DOMAIN cycles' /\ Len(cycles) <= Len(cycles')
             /\ \A i \in DOMAIN cycles : /\ cycles'[i].uid = cycles[i].uid
                                         /\ cycles[i].end = "flat" => cycles'[i].end = "flat"
  <2>1. CASE Claims(p)
    <3>1. PICK slot : slot \in Slots /\ cycles' = Append(cycles, slot)
      BY <1>a, <1>3, <2>1 DEF Ways, Slots, Claims
    <3>2. /\ Len(cycles') = Len(cycles) + 1 /\ DOMAIN cycles' = DOMAIN cycles \union {Len(cycles) + 1}
          /\ \A i \in DOMAIN cycles : cycles'[i] = cycles[i]
      BY <1>a, <3>1, AddedSlots
    <3>. QED BY <1>a, <3>2
  <2>2. CASE CycleRefused(p) \/ Checks(p) \/ CycleEnds(p)
    <3>1. Len(cycles) > 0 /\ cycles[Len(cycles)].end = "open" /\ Len(cycles) \in DOMAIN cycles
      BY <1>a, <2>2 DEF WorldInv, OwnWorld, SlotsOf, CycleRefused, Checks, CycleEnds
    <3>2. PICK cs \in {cycles, Settled(cycles)} : \E end \in {"open", "flat", "bad"} : cycles' = EndsSlot(cs, end)
      BY <2>2 DEF CycleRefused, Checks, CycleEnds
    <3>3. PICK end \in {"open", "flat", "bad"} : cycles' = EndsSlot(cs, end) BY <3>2
    <3>4. /\ cs \in Seq(Slots) /\ Len(cs) = Len(cycles) /\ DOMAIN cs = DOMAIN cycles
          /\ \A i \in DOMAIN cycles : cs[i].uid = cycles[i].uid /\ (cs[i].end = "flat" <=> cycles[i].end = "flat")
      BY <1>a, <3>2, SettledSlots, SettledType
    <3>5. /\ DOMAIN cycles' = DOMAIN cs /\ Len(cycles') = Len(cs)
          /\ \A i \in DOMAIN cs : cycles'[i].uid = cs[i].uid /\ (i # Len(cs) => cycles'[i] = cs[i])
      <4>1. Len(cs) > 0 BY <3>1, <3>4
      <4>2. LET ct == EndsSlot(cs, end) IN
            /\ DOMAIN ct = DOMAIN cs /\ Len(ct) = Len(cs)
            /\ \A i \in DOMAIN cs : ct[i].uid = cs[i].uid /\ (i # Len(cs) => ct[i] = cs[i])
        BY <3>3, <3>4, <4>1, EndedSlots
      <4>. QED BY <3>3, <4>2
    <3>. QED BY <1>a, <3>1, <3>4, <3>5
  <2>. QED BY <1>3, <2>1, <2>2 DEF Works, Prepares, Dies, Locks, LauncherRefuses, Opens, CloseEnds
<1>4. CASE Task BY <1>1, <1>2, <1>4, TaskWorld DEF Proved
<1>5. CASE Handle \/ Crash \/ Restart \/ UNCHANGED vars \/ \E kind \in {"cycle", "close"} : TerminalStarts(kind)
  BY <1>1, <1>2, <1>5 DEF Handle, Crash, Restart, TerminalStarts, world, vars, Proved
<1>. QED BY <1>1, <1>3, <1>4, <1>5 DEF Next

-----------------------------------------------------------------------------
(* A series stops at doubt. *)

\* Where the series goes on from a record that says how far it came.
SeriesPlaces == {"preClose", "postClose", "launch", "pause", "nextCloseReady", "nextReady"}
FirstPlaces == {"admit", "closeReady", "ready"}

\* Every step before the current one ended with a flat cycle of its own.
Earned(n) == op.base <= n /\ n <= Len(cycles) /\ Flats(cycles, op.base, n) >= op.step - 1

DoubtInv ==
    /\ op.base <= Len(cycles)
    /\ pc \in FirstPlaces => op.step = 1
    /\ pc \in SeriesPlaces /\ op.action = "run" => Earned(mem.active.before)
    /\ pc = "finished" /\ op.safe => Flats(cycles, op.base, Len(cycles)) >= op.step

\* The steps that leave the command of the task as it is.
LEMMA DoubtKept ==
    ASSUME TypeInv, TypeInv', ChildInv, PlaceInv, WorldInv, DoubtInv, [Next]_vars,
           op'.base = op.base, op'.step = op.step, op'.action = op.action,
           pc' \in FirstPlaces => op.step = 1,
           pc' \in SeriesPlaces /\ op.action = "run" =>
              \/ pc \in SeriesPlaces /\ mem'.active.before = mem.active.before
              \/ op.step = 1 /\ mem'.active.before = Len(cycles),
           pc' = "finished" /\ op'.safe => pc = "finished" /\ op.safe
    PROVE  DoubtInv'
<1>1. /\ cycles \in Seq(Slots) /\ cycles' \in Seq(Slots) /\ Len(cycles) \in Nat /\ Len(cycles') \in Nat
      /\ op.base \in Nat /\ op.step \in Nat /\ 1 <= op.step
      /\ mem.active.before \in Nat /\ mem'.active.before \in Nat
  <2>1. cycles \in Seq(Slots) /\ cycles' \in Seq(Slots) /\ Len(cycles) \in Nat /\ Len(cycles') \in Nat
    BY DEF TypeInv, TypeOK
  <2>2. op.base \in Nat /\ op.step \in 1..MaxSeries BY DEF TypeInv, TypeOK
  <2>3. mem.active \in Actives /\ mem'.active \in Actives BY DEF TypeInv, TypeOK, Stores
  <2>4. op.step \in Nat /\ 1 <= op.step BY <2>2, BoundsAssumption
  <2>. QED BY <2>1, <2>2, <2>3, <2>4, ActiveBefore
<1>2. /\ DOMAIN cycles \subseteq DOMAIN cycles' /\ Len(cycles) <= Len(cycles')
      /\ \A i \in DOMAIN cycles : cycles[i].end = "flat" => cycles'[i].end = "flat"
  BY SlotsGrow
<1>3. op'.base <= Len(cycles') BY <1>1, <1>2 DEF DoubtInv
<1>4. \A n \in Nat : /\ Flats(cycles, op.base, n) \in Nat /\ Flats(cycles', op.base, n) \in Nat
                     /\ Flats(cycles, op.base, n) <= Flats(cycles', op.base, n)
  BY <1>1, <1>2, FlatsGrow
<1>5. pc' \in SeriesPlaces /\ op'.action = "run" => Earned(mem.active.before)'
  <2>. SUFFICES ASSUME pc' \in SeriesPlaces, op.action = "run"
       PROVE  Earned(mem.active.before)'
    OBVIOUS
  <2>1. CASE pc \in SeriesPlaces /\ mem'.active.before = mem.active.before
    <3>1. Earned(mem.active.before) BY <2>1 DEF DoubtInv
    <3>. QED
      <4>. DEFINE n == mem.active.before
      <4>1. /\ op.base <= n /\ n <= Len(cycles) /\ Flats(cycles, op.base, n) >= op.step - 1
            /\ Flats(cycles, op.base, n) \in Nat /\ Flats(cycles', op.base, n) \in Nat
            /\ Flats(cycles, op.base, n) <= Flats(cycles', op.base, n) /\ n \in Nat
        BY <1>1, <1>4, <3>1 DEF Earned
      <4>. HIDE DEF n
      <4>2. op.base <= n /\ n <= Len(cycles') /\ Flats(cycles', op.base, n) >= op.step - 1 BY <1>1, <1>2, <4>1
      <4>. QED BY <2>1, <4>2 DEF Earned, n
  <2>2. CASE op.step = 1 /\ mem'.active.before = Len(cycles) BY <1>1, <1>4, <1>2, <2>2 DEF DoubtInv, Earned
  <2>. QED BY <2>1, <2>2
<1>6. pc' = "finished" /\ op'.safe => Flats(cycles', op'.base, Len(cycles')) >= op'.step
  <2>. SUFFICES ASSUME pc = "finished", op.safe
       PROVE  Flats(cycles', op.base, Len(cycles')) >= op.step
    OBVIOUS
  <2>1. Flats(cycles, op.base, Len(cycles)) >= op.step BY DEF DoubtInv
  <2>2. FlatSlots(cycles, op.base, Len(cycles')) = FlatSlots(cycles, op.base, Len(cycles))
    BY <1>1, <1>2 DEF FlatSlots
  <2>3. Flats(cycles, op.base, Len(cycles')) = Flats(cycles, op.base, Len(cycles)) BY <2>2 DEF Flats
  <2>4. /\ Flats(cycles, op.base, Len(cycles')) \in Nat /\ Flats(cycles', op.base, Len(cycles')) \in Nat
        /\ Flats(cycles, op.base, Len(cycles')) <= Flats(cycles', op.base, Len(cycles'))
    BY <1>1, <1>4
  <2>. QED BY <1>1, <2>1, <2>3, <2>4
<1>. QED BY <1>3, <1>5, <1>6 DEF DoubtInv

\* What the types say of the disk, the memory and the task under way.
LEMMA TypedParts ==
    ASSUME TypeInv
    PROVE  /\ mem \in Stores /\ disk \in Stores /\ cycles \in Seq(Slots) /\ closes \in Seq(Slots)
           /\ op.base \in Nat /\ op.step \in 1..MaxSeries /\ op.action \in {"run", "close"}
BY DEF TypeInv, TypeOK

\* A task goes on to its next cycle only over a flat one.
LEMMA DoubtTask ==
    ASSUME TypeInv, TypeInv', ChildInv, PlaceInv, WorldInv, DoubtInv, Task
    PROVE  DoubtInv'
<1>. USE DEF FirstPlaces, SeriesPlaces
<1>0. /\ mem \in Stores /\ disk \in Stores /\ mem.active \in Actives
      /\ Len(cycles) \in Nat /\ Len(closes) \in Nat /\ cycles \in Seq(Slots)
      /\ op.action \in {"run", "close"} /\ op.base \in Nat /\ op.step \in Nat
      /\ mem.active.before \in Nat
  BY TypedParts, BoundsAssumption, ActiveBefore DEF Stores
<1>d. /\ Record \in Actives /\ Record.action = op.action /\ Record.phase = "none"
      /\ Record.before = IF op.action = "run" THEN Len(cycles) ELSE Len(closes)
  BY RecordType
<1>n. [Next]_vars BY DEF Next
<1>e. /\ \A m, n, ds : Refuse(m, n, ds) => pc' \in {"idle", "stopping"}
      /\ \A m, n, ds : Raise(m, n, ds) => pc' \in {"idle", "stopping"}
      /\ \A m, r : StopDone(m, r) => pc' = "idle"
  BY DEF Refuse, Raise, StopDone, Ends
<1>1. CASE op' = op /\ pc' \notin FirstPlaces \union SeriesPlaces \union {"finished"} BY <1>1, <1>n, DoubtKept
<1>2. CASE op' = op /\ op.action = "close" /\ pc' = "launch" BY <1>2, <1>n, DoubtKept
<1>3. CASE Admit \/ AdmitFlat BY <1>3, <1>e, <1>1, <1>n, DoubtKept DEF Admit, AdmitFlat, DoubtInv
<1>4. CASE AdmitHeld \/ AdmitReady
  <2>1. op' = op /\ op.step = 1 BY <1>4 DEF AdmitHeld, AdmitReady, DoubtInv
  <2>2. \/ pc' \notin FirstPlaces \union SeriesPlaces \union {"finished"}
        \/ pc' \in SeriesPlaces /\ mem'.active.before = Len(cycles)
    <3>1. CASE AdmitHeld
      <4>. DEFINE b == [Record EXCEPT !.phase = "AUTO_CLOSE", !.closeBefore = Len(closes)]
      <4>1. b.before = Len(cycles) BY <3>1, <1>0, <1>d DEF Actives, AdmitHeld
      <4>2. [mem EXCEPT !.active = b].active = b BY <1>0 DEF Stores
      <4>. QED BY <3>1, <4>1, <4>2, <1>e DEF AdmitHeld, Save
    <3>2. CASE AdmitReady
      BY <3>2, <1>0, <1>d, <1>e DEF AdmitReady, PlaceInv, Stores, Recorded, Save, LaunchUnlessStopped
    <3>. QED BY <1>4, <3>1, <3>2
  <2>. QED BY <1>1, <1>n, <2>1, <2>2, DoubtKept
<1>5. CASE AdmitClose BY <1>5, <1>e, <1>1, <1>2 DEF AdmitClose, Recorded
<1>6. CASE AdmissionRefused \/ LaunchFails \/ CheckRaises \/ Leave
  BY <1>6, <1>e, <1>1 DEF AdmissionRefused, LaunchFails, CheckRaises, Leave, Ends
<1>7. CASE StopHeld \/ StopFlat \/ StopClosed \/ StopProved \/ StopUnproved \/ StopLaunchFails
  BY <1>7, <1>e, <1>1 DEF StopHeld, StopFlat, StopClosed, StopProved, StopUnproved, StopLaunchFails
<1>8. CASE PreClosed \/ PauseEnds \/ NextFlat \/ ReadyAfterClose \/ NextHeld \/ NextReady
  <2>1. /\ op' = op /\ pc \in SeriesPlaces
        /\ pc' \in SeriesPlaces \union {"leaving", "idle", "stopping"}
    BY <1>8, <1>e DEF PreClosed, PauseEnds, NextFlat, ReadyAfterClose, NextHeld, NextReady,
      LaunchUnlessStopped
  <2>2. pc' \in {"leaving", "idle", "stopping"} \/ mem'.active.before = mem.active.before
    <3>1. CASE PreClosed \/ PauseEnds \/ NextFlat \/ NextReady
      BY <3>1, <1>e DEF PreClosed, PauseEnds, NextFlat, NextReady, Save
    <3>2. CASE ReadyAfterClose
      <4>1. [mem EXCEPT !.active.phase = "RUN"].active.before = mem.active.before BY <1>0 DEF Stores, Actives
      <4>. QED BY <3>2, <4>1, <1>e DEF ReadyAfterClose, Save
    <3>3. CASE NextHeld
      <4>1. [mem EXCEPT !.active.phase = "AUTO_CLOSE",
                        !.active.closeBefore = Len(closes)].active.before = mem.active.before
        BY <1>0 DEF Stores, Actives
      <4>. QED BY <3>3, <4>1, <1>e DEF NextHeld, Save
    <3>. QED BY <1>8, <3>1, <3>2, <3>3
  <2>. QED BY <1>1, <1>n, <2>1, <2>2, DoubtKept
<1>9. CASE Judge
  <2>. DEFINE a == mem.active
              slots == IF a.action = "close" THEN closes ELSE cycles
              none == Len(slots) = a.before
              safe == IF none THEN NothingLeft(a) ELSE AddedFlat(slots, a.before)
              m == Finish(mem, op.step < op.total)
  <2>1. /\ pc = "launch" /\ UNCHANGED cycles /\ a.action = op.action /\ a.action # "none"
    BY <1>9, <1>0 DEF Judge, world, PlaceInv
  <2>2. a.action # "none" /\ m.last = "FINISHED" => safe /\ ~none
    <3>1. (op.step < op.total) \in BOOLEAN OBVIOUS
    <3>. QED BY <1>0, <3>1, FinishResult
  <2>3. op.action = "run" /\ m.last = "FINISHED" => AddedFlat(cycles, a.before) BY <2>1, <2>2
  <2>. HIDE DEF m, safe, none, slots
  <2>4. \/ op' = op /\ pc' \in {"idle", "stopping"}
        \/ /\ pc' = "finished"
           /\ op' = [op EXCEPT !.safe = (op.action = "run" /\ m.last = "FINISHED")]
    BY <1>9, <1>e DEF Judge, m
  <2>5. CASE op' = [op EXCEPT !.safe = (op.action = "run" /\ m.last = "FINISHED")] /\ pc' = "finished"
    <3>1. /\ op'.base = op.base /\ op'.step = op.step
          /\ op'.safe => op.action = "run" /\ m.last = "FINISHED"
      BY <2>5 DEF TypeInv, TypeOK
    <3>2. ASSUME op'.safe PROVE Flats(cycles, op.base, Len(cycles)) >= op.step
      <4>1. Earned(a.before) BY <2>1, <3>1, <3>2 DEF DoubtInv
      <4>2. AddedFlat(cycles, a.before) BY <2>3, <3>1, <3>2
      <4>3. Flats(cycles, op.base, Len(cycles)) = Flats(cycles, op.base, a.before) + 1
            /\ Flats(cycles, op.base, a.before) \in Nat
        BY <1>0, <4>1, <4>2, FlatsAdd DEF Earned
      <4>. QED BY <1>0, <4>1, <4>3 DEF Earned
    <3>. QED BY <2>1, <2>5, <3>1, <3>2 DEF DoubtInv
  <2>. QED BY <1>1, <2>4, <2>5
<1>10. CASE NextStep
  <2>. DEFINE m == [mem EXCEPT !.active.index = @ + 1, !.active.before = Len(cycles),
                               !.active.phase = "none", !.active.closeBefore = 0]
  <2>1. /\ pc = "finished" /\ op.safe /\ UNCHANGED cycles
        /\ op' = [op EXCEPT !.step = @ + 1]
        /\ \/ mem' = m /\ pc' = "pause"
           \/ pc' \in {"idle", "stopping"}
    BY <1>10, <1>e DEF NextStep, world, Save
  <2>2. op'.base = op.base /\ op'.step = op.step + 1 BY <2>1 DEF TypeInv, TypeOK
  <2>3. m.active.before = Len(cycles) BY <1>0 DEF Stores, Actives
  <2>. HIDE DEF m
  <2>4. Flats(cycles, op.base, Len(cycles)) >= op.step /\ op.base <= Len(cycles) BY <2>1 DEF DoubtInv
  <2>5. CASE mem' = m /\ pc' = "pause" BY <1>0, <2>1, <2>2, <2>3, <2>4, <2>5 DEF Earned, DoubtInv
  <2>6. CASE pc' \in {"idle", "stopping"} BY <2>1, <2>2, <2>4, <2>6 DEF DoubtInv
  <2>. QED BY <2>1, <2>5, <2>6
<1>. QED BY <1>3, <1>4, <1>5, <1>6, <1>7, <1>8, <1>9, <1>10 DEF Task

\* No step loses a flat cycle of the series.
LEMMA DoubtStep ==
    ASSUME TypeInv, ChildInv, PlaceInv, WorldInv, DoubtInv, [Next]_vars
    PROVE  DoubtInv'
<1>. USE DEF FirstPlaces, SeriesPlaces
<1>0. TypeInv' BY TypeStep
<1>1. Len(cycles) \in Nat BY DEF TypeInv, TypeOK
<1>2. CASE Handle
  <2>1. PICK c : \/ /\ mem' = Consumed(mem, mem.offset)
                     /\ IF c.action = "stop" THEN RequestStop(mem.offset) ELSE Start(mem.offset, c)
                  \/ /\ pc' = "idle" /\ op' = NoOp
    BY <1>2 DEF Handle
  <2>2. UNCHANGED cycles BY <1>2 DEF Handle
  <2>3. CASE pc' = "idle" /\ op' = NoOp BY <2>3, <1>1, <2>2 DEF NoOp, DoubtInv
  <2>4. CASE op' = op /\ mem' = Consumed(mem, mem.offset) /\ pc' \in {pc, "stopping", "idle"}
    <3>1. mem'.active = mem.active BY <2>4 DEF Consumed, TypeInv, TypeOK, Stores
    <3>2. pc \in FirstPlaces => op.step = 1 BY DEF DoubtInv
    <3>. QED BY <1>0, <2>4, <3>1, <3>2, DoubtKept
  <2>5. CASE pc' = "admit" /\ op' = [action |-> c.action, uid |-> mem.offset, total |-> c.total,
                                     step |-> 1, safe |-> FALSE, base |-> Len(cycles)]
    BY <2>5, <1>1, <2>2 DEF DoubtInv
  <2>. QED BY <2>1, <2>3, <2>4, <2>5 DEF RequestStop, Start
<1>3. CASE Crash BY <1>3, <1>1 DEF Crash, NoOp, world, DoubtInv
<1>4. CASE Restart BY <1>4, <1>0, DoubtKept DEF Restart, ChildInv
<1>5. CASE \/ UNCHANGED vars \/ \E kind \in {"cycle", "close"} : TerminalStarts(kind)
           \/ \E p \in Procs : Works(p) \/ Dies(p)
  <2>1. UNCHANGED <<pc, op, mem>>
    BY <1>5 DEF vars, TerminalStarts, Works, Prepares, Dies, Locks, LauncherRefuses, Claims, CycleRefused,
      Checks, Opens,
      CycleEnds, CloseEnds, controller
  <2>2. pc \in FirstPlaces => op.step = 1 BY DEF DoubtInv
  <2>. QED BY <1>0, <2>1, <2>2, DoubtKept
<1>. QED BY <1>0, <1>2, <1>3, <1>4, <1>5, DoubtTask DEF Next

\* The count of flat cycles is what the property asks for.
LEMMA DoubtHolds == TypeInv /\ DoubtInv => SeriesStopsAtDoubt
<1>. SUFFICES ASSUME TypeInv, DoubtInv, pc = "launch", op.action = "run"
     PROVE  Cardinality({i \in DOMAIN cycles : i > op.base /\ cycles[i].end = "flat"}) >= op.step - 1
  BY DEF SeriesStopsAtDoubt
<1>. DEFINE n == mem.active.before
            T == {i \in DOMAIN cycles : i > op.base /\ cycles[i].end = "flat"}
<1>1. Earned(n) BY DEF DoubtInv, SeriesPlaces
<1>2. cycles \in Seq(Slots) /\ op.step \in Nat BY DEF TypeInv, TypeOK
<1>3. FlatSlots(cycles, op.base, n) \in SUBSET T /\ T \in SUBSET DOMAIN cycles BY DEF FlatSlots
<1>4. IsFiniteSet(T) /\ Cardinality(T) \in Nat /\ Flats(cycles, op.base, n) \in Nat
  BY <1>2, <1>3, SlotsFinite DEF Flats
<1>5. Flats(cycles, op.base, n) <= Cardinality(T) BY <1>3, <1>4, FS_Subset DEF Flats
<1>. QED BY <1>1, <1>2, <1>4, <1>5 DEF Earned

-----------------------------------------------------------------------------
(* What was stopped stays flat. *)

\* No cycle of the controller is under way and nothing is held that it opened.
Quiet == /\ pos = "flat" \/ Foreign(cycles)
         /\ ~(Bot.at # "none" /\ Bot.kind = "cycle")

\* A /stop reported as flat, and a series that is no longer stopped.
RunPlaces == TaskPlaces \ {"admit"}

StopInv ==
    /\ mem.lastStop = "FLAT" \/ disk.lastStop = "FLAT" => Quiet
    /\ pc \in RunPlaces /\ op.action = "run" => mem.lastStop # "FLAT"

\* Without a child at work nothing opens a position.
LEMMA QuietWorks ==
    ASSUME TypeInv, ChildInv, PlaceInv, WorldInv, Quiet, NEW p \in Procs, Works(p) \/ Dies(p)
    PROVE  Quiet'
<1>. USE DEF At, Exits
<1>a. /\ proc \in [Procs -> Ways] /\ "bot" \in Procs /\ cycles \in Seq(Slots)
      /\ p # "bot" => p = "term"
  BY DEF TypeInv, TypeOK, Ways, Procs
<1>1. Foreign(cycles) => Foreign(cycles)' BY SlotsGrow DEF Next, Foreign
<1>2. \/ proc'["bot"] = proc["bot"]
      \/ proc'["bot"].at = "none"
      \/ Bot.at # "none" /\ proc'["bot"].kind = Bot.kind
  BY <1>a DEF Works, Prepares, Dies, Locks, LauncherRefuses, Claims, CycleRefused, Checks, Opens, CycleEnds,
    CloseEnds, Bot,
    Ways, Gone
<1>3. pos' = "flat" \/ UNCHANGED pos \/ proc[p].at = "trading"
  BY DEF Works, Prepares, Dies, Locks, LauncherRefuses, Claims, CycleRefused, Checks, Opens, CycleEnds,
    CloseEnds
<1>4. pos' = "flat" \/ Foreign(cycles)'
  <2>1. CASE proc[p].at = "trading" BY <2>1, <1>a, <1>1 DEF WorldInv, OwnWorld, SlotsOf, Quiet, Bot, Foreign
  <2>. QED BY <1>1, <1>3, <2>1 DEF Quiet
<1>. QED BY <1>2, <1>4 DEF Quiet, Bot

\* What a task step does to the result of the last /stop.
LEMMA SavedStops ==
    ASSUME NEW m, NEW K, mem \in K, m \in K,
           \A x \in K : [x EXCEPT !.last = "BLOCKED"] \in K
    PROVE  /\ Save(m) => mem' \in K /\ disk' \in K
           /\ \A n, ds : Refuse(m, n, ds) /\ ds \subseteq K \union {disk} =>
                 mem' \in K /\ disk' \in K \union {disk} /\ pc' \in {"idle", "stopping"}
           /\ \A n, ds : Raise(m, n, ds) /\ ds \subseteq K \union {disk} =>
                 mem' \in K /\ disk' \in K \union {disk} /\ pc' \in {"idle", "stopping"}
<1>1. Save(m) => mem' \in K /\ disk' \in K BY DEF Save
<1>2. ASSUME NEW n, NEW ds, Refuse(m, n, ds), ds \subseteq K \union {disk}
      PROVE  mem' \in K /\ disk' \in K \union {disk} /\ pc' \in {"idle", "stopping"}
  BY <1>2 DEF Refuse, Ends
<1>3. ASSUME NEW n, NEW ds, Raise(m, n, ds), ds \subseteq K \union {disk}
      PROVE  mem' \in K /\ disk' \in K \union {disk} /\ pc' \in {"idle", "stopping"}
  BY <1>3 DEF Raise, Ends
<1>. QED BY <1>1, <1>2, <1>3

\* The stores a task may write that keep the result of the last /stop.
Keeping == {x \in Stores : x.lastStop = mem.lastStop}

\* What a task writes keeps the result of the last stop.
LEMMA KeepingStores ==
    ASSUME TypeInv
    PROVE  /\ mem \in Keeping
           /\ \A x \in Keeping : [x EXCEPT !.last = "BLOCKED"] \in Keeping
           /\ \A x \in Keeping : \A b \in Actives : [x EXCEPT !.active = b] \in Keeping
           /\ [mem EXCEPT !.active.phase = "RUN"] \in Keeping
           /\ [mem EXCEPT !.active.phase = "AUTO_CLOSE", !.active.closeBefore = Len(closes)] \in Keeping
           /\ [mem EXCEPT !.active.index = @ + 1, !.active.before = Len(cycles),
                          !.active.phase = "none", !.active.closeBefore = 0] \in Keeping
           /\ \A retain \in BOOLEAN : Finish(mem, retain) \in Keeping
<1>1. mem \in Stores /\ Sound(mem) /\ Len(cycles) \in Nat /\ Len(closes) \in Nat BY DEF TypeInv, TypeOK, Sound
<1>2. mem \in Keeping BY <1>1 DEF Keeping
<1>3. \A x \in Keeping : [x EXCEPT !.last = "BLOCKED"] \in Keeping BY DEF Keeping, Stores
<1>4. \A x \in Keeping : \A b \in Actives : [x EXCEPT !.active = b] \in Keeping BY DEF Keeping, Stores
<1>5. [mem EXCEPT !.active.phase = "RUN"] \in Keeping
  <2>1. Sound([mem EXCEPT !.active.phase = "RUN"]) BY <1>1, SoundStores
  <2>2. [mem EXCEPT !.active.phase = "RUN"].lastStop = mem.lastStop BY <1>1 DEF Stores
  <2>. QED BY <2>1, <2>2 DEF Keeping, Sound
<1>6. [mem EXCEPT !.active.phase = "AUTO_CLOSE", !.active.closeBefore = Len(closes)] \in Keeping
  <2>. DEFINE m == [mem EXCEPT !.active.phase = "AUTO_CLOSE", !.active.closeBefore = Len(closes)]
  <2>1. Sound(m) BY <1>1, SoundStores
  <2>2. m.lastStop = mem.lastStop BY <1>1 DEF Stores
  <2>. QED BY <2>1, <2>2 DEF Keeping, Sound
<1>7. [mem EXCEPT !.active.index = @ + 1, !.active.before = Len(cycles),
                  !.active.phase = "none", !.active.closeBefore = 0] \in Keeping
  <2>. DEFINE m == [mem EXCEPT !.active.index = @ + 1, !.active.before = Len(cycles),
                               !.active.phase = "none", !.active.closeBefore = 0]
  <2>1. Sound(m) BY <1>1, SoundStores
  <2>2. m.lastStop = mem.lastStop BY <1>1 DEF Stores
  <2>. QED BY <2>1, <2>2 DEF Keeping, Sound
<1>8. \A retain \in BOOLEAN : Finish(mem, retain) \in Keeping BY <1>1, FinishType DEF Keeping
<1>. QED BY <1>2, <1>3, <1>4, <1>5, <1>6, <1>7, <1>8

\* A stop reports flat only over flat positions and no child.
LEMMA StopTask ==
    ASSUME TypeInv, ChildInv, PlaceInv, WorldInv, StopInv, Task
    PROVE  StopInv'
<1>. USE DEF RunPlaces, TaskPlaces, StopPlaces, Waits
<1>0. /\ mem \in Stores /\ NoActive \in Actives /\ Record \in Actives
      /\ op.action \in {"run", "close"} /\ stop \in Uids \union {NoUid} /\ Len(closes) \in Nat
  BY RecordType DEF TypeInv, TypeOK, NoActive, Actives, NoUid
<1>1. UNCHANGED pos /\ (Foreign(cycles) => Foreign(cycles)') BY SlotsGrow, TaskWorld DEF Next, Foreign, Proved
\* A step that keeps the result and launches no cycle.
<1>2. ASSUME mem'.lastStop \in {mem.lastStop, "none", "NOT_PROVED"},
             disk'.lastStop \in {mem.lastStop, disk.lastStop, "none", "NOT_PROVED"},
             \/ UNCHANGED proc
             \/ GivesUp
             \/ \E uid : Spawn("close", uid)
             \/ mem' = disk' /\ mem'.lastStop # "FLAT",
             pc' \in RunPlaces /\ op'.action = "run" => mem'.lastStop # "FLAT"
      PROVE  StopInv'
  <2>1. \/ Quiet => Quiet'
        \/ mem' = disk' /\ mem'.lastStop # "FLAT"
    BY SpawnedKind, <1>1, <1>2 DEF GivesUp, ChildInv, ProcShape, Procs, Gone, Quiet, Bot
  <2>. QED BY <1>2, <2>1 DEF StopInv
<1>3. ASSUME op'.action = op.action, pc \in RunPlaces \/ pc' \notin RunPlaces \/ op.action # "run",
             mem' \in Keeping, disk' \in Keeping \union {disk},
             \/ UNCHANGED proc
             \/ GivesUp
             \/ \E uid : Spawn("close", uid)
             \/ mem' = disk' /\ mem'.lastStop # "FLAT"
      PROVE  StopInv'
  BY <1>3, <1>2 DEF Keeping, StopInv
<1>4. \A n, ds, m : m \in Keeping /\ ds \subseteq Keeping \union {disk} /\ (Refuse(m, n, ds) \/ Raise(m, n, ds))
         => mem' \in Keeping /\ disk' \in Keeping \union {disk} /\ pc' \notin RunPlaces
  BY SavedStops, KeepingStores
<1>5. \A m : m \in Keeping /\ Save(m) => mem' = disk' /\ mem' \in Keeping BY DEF Save
<1>6. ASSUME NEW m \in Keeping, StopDone(m, "NOT_PROVED"),
             UNCHANGED proc \/ GivesUp
      PROVE  StopInv'
  BY <1>6, <1>2 DEF Keeping, Stores, StopDone
<1>7. CASE AdmissionRefused \/ PreClosed \/ LaunchFails \/ CheckRaises \/ PauseEnds
              \/ AdmitFlat \/ NextFlat \/ StopFlat
  <2>1. mem \in Keeping BY KeepingStores
  <2>2. \/ UNCHANGED <<mem, disk>>
        \/ \E n : Refuse(mem, n, {disk}) \/ Raise(mem, n, {disk})
    BY <1>7 DEF AdmissionRefused, PreClosed, LaunchFails, CheckRaises, PauseEnds, AdmitFlat, NextFlat,
      StopFlat
  <2>3. mem' \in Keeping /\ disk' \in Keeping \union {disk} BY <1>4, <2>1, <2>2
  <2>4. op' = op /\ (UNCHANGED proc \/ GivesUp)
    BY <1>7 DEF AdmissionRefused, PreClosed, LaunchFails, CheckRaises, PauseEnds, AdmitFlat, NextFlat,
      StopFlat, GivesUp, world
  <2>5. pc \in RunPlaces \/ pc' \notin RunPlaces
    BY <1>7 DEF AdmissionRefused, PreClosed, LaunchFails, CheckRaises, PauseEnds, AdmitFlat, NextFlat,
      StopFlat
  <2>. QED BY <1>3, <2>3, <2>4, <2>5
<1>8. CASE Admit
  <2>. DEFINE m == IF op.action = "run" THEN [mem EXCEPT !.lastStop = "none"] ELSE mem
  <2>1. m \in Stores /\ m.lastStop = IF op.action = "run" THEN "none" ELSE mem.lastStop BY <1>0 DEF Stores
  <2>2. /\ op' = op /\ UNCHANGED proc
        /\ \/ Save(m)
           \/ Refuse(m, 1, {disk, m})
    BY <1>8 DEF Admit, world
  <2>. HIDE DEF m
  <2>3. mem' = m /\ disk' \in {disk, m} BY <2>2 DEF Save, Refuse
  <2>4. Refuse(m, 1, {disk, m}) => pc' \notin RunPlaces BY DEF Refuse, Ends
  <2>5. pc' \in RunPlaces /\ op'.action = "run" => mem'.lastStop # "FLAT" BY <2>1, <2>2, <2>3
  <2>. QED BY <1>2, <2>1, <2>2, <2>3, <2>5
<1>9. CASE AdmitClose \/ AdmitReady
  <2>. DEFINE m1 == [mem EXCEPT !.active = NoActive]
              m2 == [mem EXCEPT !.active = Record]
  <2>1. m1 \in Keeping /\ m2 \in Keeping BY <1>0, KeepingStores
  <2>2. op' = op /\ pc \in RunPlaces BY <1>9 DEF AdmitClose, AdmitReady
  <2>3. \/ Save(m2) /\ (UNCHANGED proc \/ (\E uid : Spawn("close", uid)) \/ op.action = "run")
        \/ Refuse(m1, 1, {disk, m1}) /\ UNCHANGED proc
        \/ Refuse(m2, 1, {m1, m2}) /\ UNCHANGED proc
    BY <1>9 DEF AdmitClose, Recorded, AdmitReady, LaunchUnlessStopped, PlaceInv
  <2>. HIDE DEF m1, m2
  <2>4. mem' \in Keeping /\ disk' \in Keeping \union {disk} BY <1>4, <1>5, <2>1, <2>3
  <2>5. op.action = "run" /\ Save(m2) => mem' = disk' /\ mem'.lastStop # "FLAT"
    BY <2>1, <2>2 DEF Save, Keeping, StopInv
  <2>. QED BY <1>3, <2>2, <2>3, <2>4, <2>5
<1>10. CASE AdmitHeld \/ NextHeld
  <2>1. PICK m \in Keeping :
           \/ Save(m) /\ Spawn("close", op.uid)
           \/ (Refuse(m, 1, {disk, m}) \/ Raise(m, 1, {disk, m})) /\ UNCHANGED proc
    <3>1. CASE AdmitHeld BY <1>0, <3>1, KeepingStores DEF Actives, AdmitHeld
    <3>2. CASE NextHeld BY <3>2, KeepingStores DEF NextHeld
    <3>. QED BY <1>10, <3>1, <3>2
  <2>2. op' = op /\ pc \in RunPlaces BY <1>10 DEF AdmitHeld, NextHeld
  <2>3. mem' \in Keeping /\ disk' \in Keeping \union {disk} BY <1>4, <1>5, <2>1
  <2>. QED BY <1>3, <2>1, <2>2, <2>3
<1>11. CASE ReadyAfterClose \/ NextReady
  <2>1. PICK m \in Keeping :
           \/ Save(m)
           \/ Raise(m, 1, {disk, m}) /\ UNCHANGED proc
    BY <1>11, KeepingStores DEF ReadyAfterClose, NextReady
  <2>2. op' = op /\ pc \in RunPlaces /\ op.action = "run" BY <1>11 DEF ReadyAfterClose, NextReady, PlaceInv
  <2>3. mem' \in Keeping /\ disk' \in Keeping \union {disk} BY <1>4, <1>5, <2>1
  <2>4. Save(m) => mem' = disk' /\ mem'.lastStop # "FLAT" BY <2>2 DEF Save, Keeping, StopInv
  <2>. QED BY <1>3, <2>1, <2>2, <2>3, <2>4
<1>12. CASE Judge \/ Leave \/ NextStep
  <2>1. PICK m \in Keeping : \E x \in Keeping :
           \/ Save(m)
           \/ Raise(x, 1, {disk, m})
           \/ UNCHANGED <<mem, disk>>
    <3>1. CASE Judge
      <4>. DEFINE m == Finish(mem, op.step < op.total)
      <4>1. (op.step < op.total) \in BOOLEAN OBVIOUS
      <4>2. m \in Keeping /\ mem.active \in Actives BY <1>0, <4>1, KeepingStores DEF Stores
      <4>3. Save(m) \/ Raise([m EXCEPT !.active = mem.active], 1, {disk, m}) BY <3>1 DEF Judge
      <4>. HIDE DEF m
      <4>. QED BY <4>2, <4>3, KeepingStores
    <3>2. CASE Leave
      <4>. DEFINE m == Finish(mem, FALSE)
      <4>2. m \in Keeping /\ mem.active \in Actives BY <1>0, KeepingStores DEF Stores
      <4>3. Save(m) \/ Raise([m EXCEPT !.active = mem.active], 1, {disk, m}) \/ UNCHANGED <<mem, disk>>
        BY <3>2 DEF Leave
      <4>. HIDE DEF m
      <4>. QED BY <4>2, <4>3, KeepingStores
    <3>3. CASE NextStep BY <3>3, KeepingStores DEF NextStep
    <3>. QED BY <1>12, <3>1, <3>2, <3>3
  <2>2. op'.action = op.action /\ pc \in RunPlaces /\ UNCHANGED proc
    BY <1>12 DEF Judge, Leave, NextStep, world, TypeInv, TypeOK
  <2>3. mem' \in Keeping /\ disk' \in Keeping \union {disk} BY <1>4, <1>5, <2>1, KeepingStores
  <2>. QED BY <1>3, <2>2, <2>3
<1>13. CASE StopHeld
  <2>. DEFINE m == [mem EXCEPT !.active = [NoActive EXCEPT !.action = "close", !.uid = stop,
                                                        !.before = Len(closes)]]
  <2>1. [NoActive EXCEPT !.action = "close", !.uid = stop, !.before = Len(closes)] \in Actives BY <1>0 DEF
    Actives
  <2>2. m \in Keeping BY <2>1, KeepingStores
  <2>3. /\ op' = op
        /\ \/ Save(m) /\ Spawn("close", stop) /\ pc' \notin RunPlaces
           \/ StopDone(m, "NOT_PROVED") /\ UNCHANGED proc
    BY <1>13 DEF StopHeld
  <2>. HIDE DEF m
  <2>4. CASE Save(m) /\ Spawn("close", stop) /\ pc' \notin RunPlaces BY <2>2, <2>4, <1>3, <2>3 DEF Save
  <2>. QED BY <1>6, <2>2, <2>3, <2>4
<1>14. CASE StopClosed \/ StopUnproved \/ StopLaunchFails
  BY KeepingStores, <1>14, <1>3, <1>6 DEF StopClosed, StopUnproved, StopLaunchFails, GivesUp, world
<1>15. CASE StopProved
  BY <1>15, <1>1 DEF StopProved, ProvedFlat, ChildInv, ChildWaits, Bot, StopDone, StopInv, Quiet
<1>. QED BY <1>7, <1>8, <1>9, <1>10, <1>11, <1>12, <1>13, <1>14, <1>15 DEF Task

\* What was reported flat stays so.
LEMMA StopStep ==
    ASSUME TypeInv, ChildInv, PlaceInv, WorldInv, StopInv, [Next]_vars
    PROVE  StopInv'
<1>. USE DEF RunPlaces, TaskPlaces, StopPlaces, Waits
<1>0. mem \in Stores /\ disk \in Stores /\ proc \in [Procs -> Ways] /\ "bot" \in Procs
  BY DEF TypeInv, TypeOK, Ways, Procs
<1>1. ASSUME UNCHANGED pos, proc'["bot"].at = Bot.at, proc'["bot"].kind = Bot.kind, Quiet PROVE Quiet'
  BY SlotsGrow, <1>1 DEF Quiet, Foreign, Bot
<1>2. CASE Handle
  <2>1. PICK c : \/ /\ mem' = Consumed(mem, mem.offset) /\ disk' = mem'
                    /\ IF c.action = "stop" THEN RequestStop(mem.offset) ELSE Start(mem.offset, c)
                 \/ /\ disk' \in {disk, Consumed(mem, mem.offset)} /\ mem' = disk'
                    /\ pc' = "idle" /\ UNCHANGED proc
    BY <1>2 DEF Handle
  <2>2. Consumed(mem, mem.offset).lastStop = mem.lastStop BY <1>0 DEF Consumed, Stores
  <2>3. Told["bot"].at = Bot.at /\ Told["bot"].kind = Bot.kind BY <1>0 DEF Told, Bot, Ways
  <2>4. proc' = Told \/ UNCHANGED proc BY <2>1 DEF RequestStop, Start
  <2>5. UNCHANGED pos BY <1>2 DEF Handle
  <2>6. Quiet => Quiet' BY <1>1, <2>3, <2>4, <2>5 DEF Bot
  <2>7. \/ pc' \notin RunPlaces
        \/ mem'.lastStop = mem.lastStop /\ pc' = pc /\ op' = op
    BY <2>1, <2>2 DEF RequestStop, Start
  <2>. QED BY <2>1, <2>2, <2>6, <2>7 DEF StopInv
<1>3. CASE Crash BY <1>3, <1>1 DEF Crash, world, StopInv, Bot
<1>4. CASE Restart
  <2>1. UNCHANGED <<pos, proc>> /\ pc' = "idle" BY <1>4 DEF Restart, ChildInv, Proved
  <2>2. mem' = disk' /\ mem'.lastStop = disk.lastStop
    <3>1. Finish(disk, FALSE) \in Stores /\ Finish(disk, FALSE).lastStop = disk.lastStop BY <1>0, FinishType
    <3>2. PICK act, off : mem' = [Finish(disk, FALSE) EXCEPT !.active = act, !.offset = off] /\ disk' = mem'
      BY <1>4 DEF Restart, Save
    <3>. QED BY <3>1, <3>2 DEF Stores
  <2>. QED BY <1>1, <2>1, <2>2 DEF StopInv, Bot
<1>5. CASE UNCHANGED vars \/ \E kind \in {"cycle", "close"} : TerminalStarts(kind)
  BY <1>5, <1>0, <1>1 DEF vars, world, others, TerminalStarts, controller, StopInv, Bot
<1>6. ASSUME NEW p \in Procs, Works(p) \/ Dies(p) PROVE StopInv'
  <2>1. UNCHANGED <<pc, op, mem, disk>>
    BY <1>6 DEF Works, Prepares, Dies, Locks, LauncherRefuses, Claims, CycleRefused, Checks, Opens, CycleEnds,
      CloseEnds,
      controller
  <2>. QED BY <1>6, <2>1, QuietWorks DEF StopInv
<1>. QED BY <1>2, <1>3, <1>4, <1>5, <1>6, StopTask DEF Next

\* Doubt and stop at the start.
LEMMA DoubtInit == Init => DoubtInv /\ StopInv
<1>. SUFFICES ASSUME Init PROVE DoubtInv /\ StopInv OBVIOUS
<1>1. op.base = 0 /\ pc = "idle" /\ Len(cycles) = 0 BY DEF Init, NoOp
<1>2. mem.lastStop = "none" /\ disk.lastStop = "none" BY DEF Init, NewStore
<1>. QED BY <1>1, <1>2 DEF DoubtInv, StopInv, FirstPlaces, SeriesPlaces, RunPlaces, TaskPlaces

\* The next cycle of a series is launched only behind as many flat cycles as
\* there were steps, and what /stop reported as flat stays flat.
THEOREM DoubtAndStopCorrect == Spec => []DoubtAndStopHold
<1>. DEFINE I == TypeInv /\ ChildInv /\ PlaceInv /\ WorldInv /\ DoubtInv /\ StopInv
<1>1. Init => I BY TypeInit, ChildInit, WorldInit, DoubtInit
<1>2. I /\ [Next]_vars => I' BY TypeStep, ChildStep, PlaceStep, WorldStep, DoubtStep, StopStep
<1>3. I => DoubtAndStopHold BY DoubtHolds DEF StopInv, StoppedStaysFlat, Quiet, Foreign, DoubtAndStopHold
<1>. QED BY <1>1, <1>2, <1>3, PTL DEF Spec

-----------------------------------------------------------------------------
(* Counting the slots of a command. *)

\* The slots a command has claimed, and the one its child is about to.
Pending(kind, u) ==
    IF Bot.at \in {"spawned", "cleared"} /\ Bot.kind = kind /\ Bot.uid = u THEN 1 ELSE 0
Cycles(u) == Claimed(cycles, u) + Pending("cycle", u)
Closes(u) == Claimed(closes, u) + Pending("close", u)

\* Whose the slots are decides how many a command has claimed.
LEMMA ClaimedSame ==
    ASSUME NEW cs \in Seq(Slots), NEW ct \in Seq(Slots), NEW u, DOMAIN ct = DOMAIN cs,
           \A i \in DOMAIN cs : ct[i].uid = cs[i].uid
    PROVE  Claimed(ct, u) = Claimed(cs, u) /\ Claimed(cs, u) \in Nat
BY SlotsFinite DEF Claimed

\* The end of a slot does not change whose it is.
LEMMA EndedClaimed ==
    ASSUME NEW slots \in Seq(Slots), NEW end \in {"open", "flat", "bad"}, Len(slots) > 0, NEW u
    PROVE  Claimed(EndsSlot(slots, end), u) = Claimed(slots, u)
<1>. DEFINE ct == EndsSlot(slots, end)
<1>1. /\ ct \in Seq(Slots) /\ DOMAIN ct = DOMAIN slots
      /\ \A i \in DOMAIN slots : ct[i].uid = slots[i].uid
  BY EndedSlots
<1>. HIDE DEF ct
<1>. QED BY <1>1, ClaimedSame DEF ct

\* A new slot is counted for its command alone.
LEMMA ClaimedAdded ==
    ASSUME NEW cs \in Seq(Slots), NEW slot \in Slots, NEW u
    PROVE  /\ Claimed(cs, u) \in Nat
           /\ Claimed(Append(cs, slot), u) = IF slot.uid = u THEN Claimed(cs, u) + 1 ELSE Claimed(cs, u)
<1>. DEFINE ct == Append(cs, slot)
            S == {i \in DOMAIN cs : cs[i].uid = u}
            T == {i \in DOMAIN ct : ct[i].uid = u}
            n == Len(cs) + 1
<1>1. /\ DOMAIN ct = DOMAIN cs \union {n} /\ ct[n] = slot /\ n \notin DOMAIN cs
      /\ \A i \in DOMAIN cs : ct[i] = cs[i]
  BY AddedSlots
<1>2. S \in SUBSET DOMAIN cs OBVIOUS
<1>3. IsFiniteSet(S) /\ Cardinality(S) \in Nat BY <1>2, SlotsFinite
<1>. HIDE DEF ct, n
<1>4. T = IF slot.uid = u THEN S \cup {n} ELSE S BY <1>1
<1>5. n \notin S BY <1>1, <1>2
<1>6. Cardinality(S \cup {n}) = Cardinality(S) + 1 BY <1>3, <1>5, FS_AddElement
<1>. QED BY <1>3, <1>4, <1>6 DEF Claimed, ct

\* The counts are numbers.
LEMMA CountTypes ==
    ASSUME TypeInv, NEW u
    PROVE  Cycles(u) \in Nat /\ Closes(u) \in Nat
<1>1. Claimed(cycles, u) \in Nat /\ Claimed(closes, u) \in Nat BY ClaimedSame DEF TypeInv, TypeOK
<1>. QED BY <1>1 DEF Cycles, Closes, Pending

Fewer(u) == Cycles(u)' <= Cycles(u) /\ Closes(u)' <= Closes(u)

\* No step but a launch adds to what a command has claimed or is about to.
LEMMA CountsWorks ==
    ASSUME TypeInv, WorldInv, NEW p \in Procs, Works(p) \/ Dies(p), NEW u \in Nat \ {0}
    PROVE  Fewer(u)
<1>. USE DEF At, Exits
<1>a. /\ cycles \in Seq(Slots) /\ closes \in Seq(Slots) /\ proc \in [Procs -> Ways]
      /\ proc[p] \in Ways /\ "bot" \in Procs /\ (p # "bot" => p = "term")
  BY DEF TypeInv, TypeOK, Ways, Procs
<1>b. Claimed(cycles, u) \in Nat /\ Claimed(closes, u) \in Nat BY <1>a, ClaimedSame
<1>c. \A kind : Pending(kind, u) \in {0, 1} BY DEF Pending
<1>1. CASE ~Claims(p)
  <2>1. Claimed(cycles', u) = Claimed(cycles, u) /\ Claimed(closes', u) = Claimed(closes, u)
    <3>1. CASE Checks(p)
      <4>1. Len(cycles) > 0 BY <3>1 DEF WorldInv, OwnWorld, SlotsOf, Checks
      <4>2. /\ Settled(cycles) \in Seq(Slots) /\ Len(Settled(cycles)) = Len(cycles)
            /\ DOMAIN Settled(cycles) = DOMAIN cycles
            /\ \A i \in DOMAIN cycles : Settled(cycles)[i].uid = cycles[i].uid
        BY <1>a, SettledType, SettledSlots
      <4>3. Claimed(EndsSlot(Settled(cycles), "open"), u) = Claimed(Settled(cycles), u) BY <4>1, <4>2, EndedClaimed
      <4>4. Claimed(Settled(cycles), u) = Claimed(cycles, u) BY <1>a, <4>2, ClaimedSame
      <4>5. Claimed(Settled(closes), u) = Claimed(closes, u) BY <1>a, SettledType, SettledSlots, ClaimedSame
      <4>. QED BY <3>1, <4>3, <4>4, <4>5 DEF Checks
    <3>2. CASE CycleRefused(p) \/ CycleEnds(p)
      <4>1. Len(cycles) > 0 /\ UNCHANGED closes BY <3>2 DEF WorldInv, OwnWorld, SlotsOf, CycleRefused, CycleEnds
      <4>2. PICK end \in {"flat", "bad"} : cycles' = EndsSlot(cycles, end) BY <3>2 DEF CycleRefused, CycleEnds
      <4>3. Claimed(EndsSlot(cycles, end), u) = Claimed(cycles, u) BY <1>a, <4>1, <4>2, EndedClaimed
      <4>. QED BY <4>1, <4>2, <4>3
    <3>3. CASE CloseEnds(p)
      <4>1. Len(closes) > 0 /\ UNCHANGED cycles BY <3>3 DEF WorldInv, OwnWorld, SlotsOf, CloseEnds
      <4>2. PICK end \in {"flat", "bad"} : closes' = EndsSlot(closes, end) BY <3>3 DEF CloseEnds
      <4>3. Claimed(EndsSlot(closes, end), u) = Claimed(closes, u) BY <1>a, <4>1, <4>2, EndedClaimed
      <4>. QED BY <4>1, <4>2, <4>3
    <3>4. CASE UNCHANGED <<cycles, closes>> BY <3>4
    <3>. QED BY <1>1, <3>1, <3>2, <3>3, <3>4 DEF Works, Prepares, Dies, Locks, LauncherRefuses, Opens
  <2>2. \/ proc'["bot"] = proc["bot"]
        \/ proc'["bot"].at \in {"none", "checked", "trading"}
        \/ /\ Bot.at = "spawned" /\ proc'["bot"].at = "cleared"
           /\ proc'["bot"].kind = Bot.kind /\ proc'["bot"].uid = Bot.uid
    BY <1>a, <1>1 DEF Works, Prepares, Dies, Locks, LauncherRefuses, CycleRefused, Checks, Opens, CycleEnds,
      CloseEnds, Bot,
      Ways, Gone
  <2>3. \A kind : Pending(kind, u)' <= Pending(kind, u) BY <2>2 DEF Pending, Bot
  <2>4. \A kind : Pending(kind, u)' \in {0, 1} BY DEF Pending
  <2>. QED BY <1>b, <1>c, <2>1, <2>3, <2>4 DEF Fewer, Cycles, Closes
<1>2. CASE Claims(p)
  <2>. DEFINE slot == [uid |-> proc[p].uid, end |-> "open"]
  <2>1. /\ slot \in Slots /\ slot.uid = proc[p].uid /\ proc[p].at = "cleared"
        /\ proc[p].kind \in {"cycle", "close"}
    BY <1>2, <1>a DEF Slots, Claims, Ways
  <2>2. /\ cycles' = IF proc[p].kind = "cycle" THEN Append(cycles, slot) ELSE cycles
        /\ closes' = IF proc[p].kind = "cycle" THEN closes ELSE Append(closes, slot)
    BY <1>2 DEF Claims
  <2>. HIDE DEF slot
  <2>3. /\ Claimed(cycles', u) = IF proc[p].kind = "cycle" /\ proc[p].uid = u
                                 THEN Claimed(cycles, u) + 1 ELSE Claimed(cycles, u)
        /\ Claimed(closes', u) = IF proc[p].kind = "close" /\ proc[p].uid = u
                                 THEN Claimed(closes, u) + 1 ELSE Claimed(closes, u)
    BY <1>a, <2>1, <2>2, ClaimedAdded
  <2>4. CASE p = "term"
    <3>1. proc[p].uid # u BY <2>1, <2>4 DEF WorldInv, NoUid
    <3>2. proc'["bot"] = proc["bot"] BY <1>2, <1>a, <2>4 DEF Claims
    <3>3. \A kind : Pending(kind, u)' = Pending(kind, u) BY <3>2 DEF Pending, Bot
    <3>. QED BY <1>b, <1>c, <2>3, <3>1, <3>3 DEF Fewer, Cycles, Closes
  <2>5. CASE p = "bot"
    <3>1. proc'["bot"].at = "claimed" /\ Bot = proc[p] BY <1>2, <1>a, <2>5 DEF Claims, Bot, Ways
    <3>2. \A kind : /\ Pending(kind, u)' = 0
                    /\ Pending(kind, u) = IF proc[p].kind = kind /\ proc[p].uid = u THEN 1 ELSE 0
      BY <2>1, <3>1 DEF Pending, Bot
    <3>. QED BY <1>b, <2>1, <2>3, <3>2 DEF Fewer, Cycles, Closes
  <2>. QED BY <1>a, <2>4, <2>5
<1>. QED BY <1>1, <1>2

\* A step of the controller: only a launch adds, one to its own command.
LEMMA CountsKept ==
    ASSUME TypeInv, Proved \/ UNCHANGED <<cycles, closes, lock, pos, terminals>>, NEW u \in Nat \ {0}
    PROVE  /\ \/ proc'["bot"].at = "none"
              \/ /\ proc'["bot"].at = Bot.at /\ proc'["bot"].kind = Bot.kind
                 /\ proc'["bot"].uid = Bot.uid
              => Fewer(u)
           /\ ChildInv /\ Bot.at = "none" => \A kind, v :
                 Spawn(kind, v) =>
                    /\ kind # "cycle" \/ v # u => Cycles(u)' = Cycles(u)
                    /\ kind # "close" \/ v # u => Closes(u)' = Closes(u)
                    /\ Cycles(u)' <= Cycles(u) + 1 /\ Closes(u)' <= Closes(u) + 1
<1>a. cycles \in Seq(Slots) /\ closes \in Seq(Slots) BY DEF TypeInv, TypeOK
<1>1. /\ Claimed(cycles', u) = Claimed(cycles, u) /\ Claimed(closes', u) = Claimed(closes, u)
      /\ Claimed(cycles, u) \in Nat /\ Claimed(closes, u) \in Nat
  <2>1. CASE Proved BY SettledType, SettledSlots, ClaimedSame, <1>a, <2>1 DEF Proved
  <2>2. CASE UNCHANGED <<cycles, closes>> BY <1>a, <2>2, ClaimedSame
  <2>. QED BY <2>1, <2>2
<1>2. \A kind : Pending(kind, u) \in {0, 1} /\ Pending(kind, u)' \in {0, 1} BY DEF Pending
<1>3. ASSUME \/ proc'["bot"].at = "none"
             \/ /\ proc'["bot"].at = Bot.at /\ proc'["bot"].kind = Bot.kind
                /\ proc'["bot"].uid = Bot.uid
      PROVE  Fewer(u)
  BY <1>3, <1>1, <1>2 DEF Pending, Bot, Fewer, Cycles, Closes
<1>4. ASSUME ChildInv, Bot.at = "none", NEW kind, NEW v, Spawn(kind, v)
      PROVE  /\ kind # "cycle" \/ v # u => Cycles(u)' = Cycles(u)
             /\ kind # "close" \/ v # u => Closes(u)' = Closes(u)
             /\ Cycles(u)' <= Cycles(u) + 1 /\ Closes(u)' <= Closes(u) + 1
  <2>1. proc'["bot"].at = "spawned" /\ proc'["bot"].kind = kind /\ proc'["bot"].uid = v
    BY <1>4 DEF Spawn, Gone, Bot, ChildInv, ProcShape, Procs
  <2>2. \A k : /\ Pending(k, u) = 0
               /\ Pending(k, u)' = IF kind = k /\ v = u THEN 1 ELSE 0
    BY <1>4, <2>1 DEF Pending, Bot
  <2>. QED BY <1>1, <2>2 DEF Cycles, Closes
<1>. QED BY <1>3, <1>4

-----------------------------------------------------------------------------
(* A command is executed once. *)

\* What the task of a command may have launched at each of its places.
Launched == {"launch", "finished", "leaving"}
Unclosed == {"admit", "closeReady", "pause", "nextCloseReady"}

Within(at, u, s) ==
    /\ Cycles(u) <= s /\ Closes(u) <= s
    /\ at \notin Launched => Cycles(u) < s
    /\ at \in Unclosed => Closes(u) < s

Asked(u, c) ==
    /\ Cycles(u) <= IF c.action = "run" THEN c.total ELSE 0
    /\ Closes(u) <= c.total

OffsetInv ==
    /\ mem.offset = disk.offset /\ mem.offset \in 1..(Len(log) + 1)
    /\ op.uid < mem.offset /\ stop < mem.offset

\* Nothing is launched for a command before it is consumed, nor beyond what
\* it asked for; a /stop launches its closure once.
OnceInv ==
    /\ OffsetInv
    /\ \A u \in Nat : u >= mem.offset => Cycles(u) = 0 /\ Closes(u) = 0
    /\ \A u \in DOMAIN log : Asked(u, log[u])
    /\ stop # NoUid =>
          /\ log[stop].action = "stop"
          /\ pc \notin {"stopClose", "stopReady"} => Closes(stop) = 0
    /\ pc \in TaskPlaces =>
          /\ log[op.uid].action = op.action /\ log[op.uid].total = op.total
          /\ op.step <= op.total
          /\ Within(pc, op.uid, op.step)

\* The counts bound what is claimed.
LEMMA OnceHolds == TypeInv /\ OnceInv => CommandOnce
<1>. SUFFICES ASSUME TypeInv, OnceInv, NEW u \in DOMAIN log
     PROVE  /\ Claimed(cycles, u) <= IF log[u].action = "run" THEN log[u].total ELSE 0
            /\ Claimed(closes, u) <= log[u].total
  BY DEF CommandOnce
<1>1. Claimed(cycles, u) \in Nat /\ Claimed(closes, u) \in Nat BY ClaimedSame DEF TypeInv, TypeOK
<1>2. \A kind : Pending(kind, u) \in {0, 1} BY DEF Pending
<1>3. log[u].total \in Nat BY BoundsAssumption DEF TypeInv, TypeOK, Commands
<1>4. Asked(u, log[u]) BY DEF OnceInv
<1>. QED BY <1>1, <1>2, <1>3, <1>4 DEF Asked, Cycles, Closes

\* The commands of the log.
LEMMA LogTotals ==
    ASSUME TypeInv, NEW u \in DOMAIN log
    PROVE  log[u] \in Commands /\ log[u].total \in 1..MaxSeries /\ log[u].action \in {"run", "close", "stop"}
BY BoundsAssumption DEF TypeInv, TypeOK, Commands

\* The counts of the next state.
LEMMA CountTypesNext ==
    ASSUME TypeInv', NEW u
    PROVE  Cycles(u)' \in Nat /\ Closes(u)' \in Nat
<1>1. cycles' \in Seq(Slots) /\ closes' \in Seq(Slots) BY DEF TypeInv, TypeOK
<1>2. Claimed(cycles', u) \in Nat /\ Claimed(closes', u) \in Nat BY <1>1, ClaimedSame
<1>3. \A kind : Pending(kind, u)' \in {0, 1} BY DEF Pending
<1>. QED BY <1>2, <1>3 DEF Cycles, Closes

\* A step that launches nothing and goes on in the same command.
LEMMA OnceKept ==
    ASSUME TypeInv, TypeInv', OnceInv, \A u \in Nat \ {0} : Fewer(u),
           log' = log, mem'.offset = disk'.offset, mem'.offset >= mem.offset, mem'.offset <= Len(log) + 1,
           op'.uid = op.uid, stop' \in {stop, NoUid},
           stop' # NoUid => pc \notin {"stopClose", "stopReady"} \/ pc' \in {"stopClose", "stopReady"},
           pc' \in TaskPlaces =>
              /\ pc \in TaskPlaces /\ op.uid # NoUid
              /\ op'.action = op.action /\ op'.total = op.total /\ op'.step <= op.total
              /\ \/ op'.step = op.step /\ (pc' \in Launched \/ pc \notin Launched)
                                       /\ (pc' \in Unclosed => pc \in Unclosed)
                 \/ op'.step = op.step + 1
    PROVE  OnceInv'
<1>0. /\ mem.offset \in Nat \ {0} /\ mem'.offset \in Nat \ {0} /\ Len(log) \in Nat
      /\ op.step \in Nat /\ op'.step \in Nat /\ op.uid \in Nat /\ stop \in Nat
      /\ DOMAIN log = 1..Len(log) /\ NoUid = 0
  <2>1. mem.offset \in Nat \ {0} /\ mem'.offset \in Nat \ {0} BY DEF TypeInv
  <2>2. log \in Seq(Commands) BY DEF TypeInv, TypeOK
  <2>3. op.step \in 1..MaxSeries /\ op'.step \in 1..MaxSeries BY DEF TypeInv, TypeOK
  <2>4. op.uid \in Uids \union {NoUid} /\ stop \in Uids \union {NoUid} BY DEF TypeInv, TypeOK
  <2>. QED BY <2>1, <2>2, <2>3, <2>4, BoundsAssumption DEF Uids, NoUid
<1>1. \A u : Cycles(u) \in Nat /\ Closes(u) \in Nat /\ Cycles(u)' \in Nat /\ Closes(u)' \in Nat
  BY CountTypes, CountTypesNext
<1>2. OffsetInv' BY <1>0 DEF OnceInv, OffsetInv
<1>3. ASSUME NEW u \in Nat, u >= mem'.offset PROVE Cycles(u)' = 0 /\ Closes(u)' = 0
  <2>1. u \in Nat \ {0} /\ u >= mem.offset BY <1>0, <1>3
  <2>2. Cycles(u) = 0 /\ Closes(u) = 0 BY <2>1 DEF OnceInv
  <2>3. Fewer(u) BY <2>1
  <2>. QED BY <1>1, <2>2, <2>3 DEF Fewer
<1>4. ASSUME NEW u \in DOMAIN log PROVE Asked(u, log[u])'
  <2>1. u \in Nat \ {0} BY <1>0, <1>4
  <2>2. Asked(u, log[u]) BY <1>4 DEF OnceInv
  <2>3. Fewer(u) BY <2>1
  <2>4. log[u].total \in Nat BY <1>4, LogTotals
  <2>. QED BY <1>1, <2>2, <2>3, <2>4 DEF Fewer, Asked
<1>5. ASSUME stop' # NoUid
      PROVE  /\ log'[stop'].action = "stop"
             /\ pc' \notin {"stopClose", "stopReady"} => Closes(stop)' = 0
  <2>1. stop' = stop /\ log[stop].action = "stop" /\ stop \in Nat \ {0} BY <1>0, <1>5 DEF OnceInv
  <2>2. pc' \notin {"stopClose", "stopReady"} => Closes(stop) = 0 BY <1>5, <2>1 DEF OnceInv
  <2>3. Fewer(stop) BY <2>1
  <2>4. \A u : u = stop => /\ Closes(u)' <= Closes(u) BY <2>1 DEF Fewer
  <2>5. pc' \notin {"stopClose", "stopReady"} => \A u : u = stop => Closes(u)' = 0 BY <1>1, <2>2, <2>4
  <2>. QED BY <2>1, <2>5
<1>6. ASSUME pc' \in TaskPlaces
      PROVE  /\ log'[op'.uid].action = op'.action /\ log'[op'.uid].total = op'.total
             /\ op'.step <= op'.total
             /\ Within(pc, op.uid, op.step)'
  <2>1. /\ pc \in TaskPlaces /\ op.uid \in Nat \ {0} /\ op'.uid = op.uid
        /\ log'[op'.uid].action = op'.action /\ log'[op'.uid].total = op'.total
        /\ op'.step <= op'.total
    BY <1>0, <1>6 DEF OnceInv
  <2>2. Within(pc, op.uid, op.step) BY <2>1 DEF OnceInv
  <2>3. ASSUME NEW u, u = op.uid PROVE Within(pc, u, op.step)'
    <3>1. /\ Cycles(u) <= op.step /\ Closes(u) <= op.step
          /\ pc \notin Launched => Cycles(u) < op.step
          /\ pc \in Unclosed => Closes(u) < op.step
      BY <2>2, <2>3 DEF Within
    <3>2. Cycles(u)' <= Cycles(u) /\ Closes(u)' <= Closes(u) BY <2>1, <2>3 DEF Fewer
    <3>3. \/ op'.step = op.step /\ (pc' \in Launched \/ pc \notin Launched) /\ (pc' \in Unclosed => pc \in Unclosed)
          \/ op'.step = op.step + 1
      BY <1>6
    <3>4. CASE op'.step = op.step /\ (pc' \in Launched \/ pc \notin Launched) /\ (pc' \in Unclosed => pc \in Unclosed)
      BY <1>0, <1>1, <3>1, <3>2, <3>4 DEF Within
    <3>5. CASE op'.step = op.step + 1 BY <1>0, <1>1, <3>1, <3>2, <3>5 DEF Within
    <3>. QED BY <3>3, <3>4, <3>5
  <2>. QED BY <2>1, <2>3 DEF Within
<1>. QED BY <1>2, <1>3, <1>4, <1>5, <1>6 DEF OnceInv

-----------------------------------------------------------------------------
(* The offset in memory and on the disk. *)

\* The stores of the same offset, which is all a task may write.
Even == {x \in Stores : x.offset = mem.offset}

\* What a task writes keeps the offset.
LEMMA EvenStores ==
    ASSUME TypeInv
    PROVE  /\ mem \in Even
           /\ \A x \in Even : [x EXCEPT !.last = "BLOCKED"] \in Even
           /\ \A x \in Even : \A r \in {"none", "FLAT", "NOT_PROVED"} : [x EXCEPT !.lastStop = r] \in Even
           /\ \A x \in Even : \A b \in Actives : [x EXCEPT !.active = b] \in Even
           /\ [mem EXCEPT !.active.phase = "RUN"] \in Even
           /\ [mem EXCEPT !.active.phase = "AUTO_CLOSE", !.active.closeBefore = Len(closes)] \in Even
           /\ [mem EXCEPT !.active.index = @ + 1, !.active.before = Len(cycles),
                          !.active.phase = "none", !.active.closeBefore = 0] \in Even
           /\ \A retain \in BOOLEAN : Finish(mem, retain) \in Even
<1>1. mem \in Stores /\ Sound(mem) /\ Len(cycles) \in Nat /\ Len(closes) \in Nat BY DEF TypeInv, TypeOK, Sound
<1>2. mem \in Even BY <1>1 DEF Even
<1>3. \A x \in Even : [x EXCEPT !.last = "BLOCKED"] \in Even BY DEF Even, Stores
<1>4. \A x \in Even : \A b \in Actives : [x EXCEPT !.active = b] \in Even BY DEF Even, Stores
<1>9. \A x \in Even : \A r \in {"none", "FLAT", "NOT_PROVED"} : [x EXCEPT !.lastStop = r] \in Even
  BY DEF Even, Stores
<1>5. [mem EXCEPT !.active.phase = "RUN"] \in Even
  <2>1. Sound([mem EXCEPT !.active.phase = "RUN"]) BY <1>1, SoundStores
  <2>2. [mem EXCEPT !.active.phase = "RUN"].offset = mem.offset BY <1>1 DEF Stores
  <2>. QED BY <2>1, <2>2 DEF Even, Sound
<1>6. [mem EXCEPT !.active.phase = "AUTO_CLOSE", !.active.closeBefore = Len(closes)] \in Even
  <2>. DEFINE m == [mem EXCEPT !.active.phase = "AUTO_CLOSE", !.active.closeBefore = Len(closes)]
  <2>1. Sound(m) BY <1>1, SoundStores
  <2>2. m.offset = mem.offset BY <1>1 DEF Stores
  <2>. QED BY <2>1, <2>2 DEF Even, Sound
<1>7. [mem EXCEPT !.active.index = @ + 1, !.active.before = Len(cycles),
                  !.active.phase = "none", !.active.closeBefore = 0] \in Even
  <2>. DEFINE m == [mem EXCEPT !.active.index = @ + 1, !.active.before = Len(cycles),
                               !.active.phase = "none", !.active.closeBefore = 0]
  <2>1. Sound(m) BY <1>1, SoundStores
  <2>2. m.offset = mem.offset BY <1>1 DEF Stores
  <2>. QED BY <2>1, <2>2 DEF Even, Sound
<1>8. \A retain \in BOOLEAN : Finish(mem, retain) \in Even BY <1>1, FinishType DEF Even
<1>. QED BY <1>2, <1>3, <1>4, <1>5, <1>6, <1>7, <1>8, <1>9

\* No task moves the offset.
LEMMA EvenTask ==
    ASSUME TypeInv, mem.offset = disk.offset, Task
    PROVE  mem'.offset = mem.offset /\ disk'.offset = mem.offset
<1>0. /\ disk \in Even /\ NoActive \in Actives /\ Record \in Actives /\ mem.active \in Actives
      /\ op.action \in {"run", "close"} /\ stop \in Uids \union {NoUid} /\ Len(closes) \in Nat
  <2>1. disk \in Stores /\ mem \in Stores /\ op.action \in {"run", "close"} /\ stop \in Uids \union {NoUid}
        /\ Len(closes) \in Nat
    BY DEF TypeInv, TypeOK
  <2>2. NoActive \in Actives /\ Record \in Actives BY RecordType DEF NoActive, Actives, NoUid
  <2>. QED BY <2>1, <2>2 DEF Even, Stores
<1>s. SUFFICES mem' \in Even /\ disk' \in Even BY DEF Even
<1>1. \A m \in Even : Save(m) => mem' \in Even /\ disk' \in Even BY DEF Save
<1>2. \A m \in Even : \A n, ds : ds \subseteq Even /\ (Refuse(m, n, ds) \/ Raise(m, n, ds))
         => mem' \in Even /\ disk' \in Even
  BY EvenStores DEF Refuse, Raise
<1>3. \A m \in Even : \A r \in {"FLAT", "NOT_PROVED"} : StopDone(m, r) => mem' \in Even /\ disk' \in Even
  <2>1. SUFFICES ASSUME NEW m \in Even, NEW r \in {"FLAT", "NOT_PROVED"}, StopDone(m, r)
                 PROVE  mem' \in Even /\ disk' \in Even
    OBVIOUS
  <2>2. mem' = [m EXCEPT !.lastStop = r] /\ disk' \in {disk, mem'} BY <2>1 DEF StopDone
  <2>3. [m EXCEPT !.lastStop = r] \in Even BY EvenStores
  <2>. QED BY <1>0, <2>2, <2>3
<1>4. CASE UNCHANGED <<mem, disk>> BY <1>0, <1>4, EvenStores
<1>5. CASE AdmissionRefused \/ PreClosed \/ LaunchFails \/ CheckRaises \/ PauseEnds
              \/ AdmitFlat \/ NextFlat \/ StopFlat
  <2>1. \/ UNCHANGED <<mem, disk>>
        \/ \E n : Refuse(mem, n, {disk}) \/ Raise(mem, n, {disk})
    BY <1>5 DEF AdmissionRefused, PreClosed, LaunchFails, CheckRaises, PauseEnds, AdmitFlat, NextFlat,
      StopFlat
  <2>. QED BY <1>0, <1>2, <1>4, <2>1, EvenStores
<1>6. CASE Admit
  <2>. DEFINE m == IF op.action = "run" THEN [mem EXCEPT !.lastStop = "none"] ELSE mem
  <2>1. m \in Even BY EvenStores
  <2>2. Save(m) \/ Refuse(m, 1, {disk, m}) BY <1>6 DEF Admit
  <2>. HIDE DEF m
  <2>. QED BY <1>0, <1>1, <1>2, <2>1, <2>2
<1>7. CASE AdmitClose \/ AdmitReady
  <2>. DEFINE m1 == [mem EXCEPT !.active = NoActive]
              m2 == [mem EXCEPT !.active = Record]
  <2>1. m1 \in Even /\ m2 \in Even BY <1>0, EvenStores
  <2>2. Save(m2) \/ Refuse(m1, 1, {disk, m1}) \/ Refuse(m2, 1, {m1, m2})
    BY <1>7 DEF AdmitClose, AdmitReady, Recorded
  <2>. HIDE DEF m1, m2
  <2>. QED BY <1>0, <1>1, <1>2, <2>1, <2>2
<1>8. CASE AdmitHeld \/ NextHeld \/ ReadyAfterClose \/ NextReady \/ NextStep
  <2>1. PICK m \in Even : Save(m) \/ Refuse(m, 1, {disk, m}) \/ Raise(m, 1, {disk, m})
    <3>1. CASE AdmitHeld BY <1>0, <3>1, EvenStores DEF Actives, AdmitHeld
    <3>2. CASE NextHeld BY <3>2, EvenStores DEF NextHeld
    <3>3. CASE ReadyAfterClose BY <3>3, EvenStores DEF ReadyAfterClose
    <3>4. CASE NextReady BY <3>4, EvenStores DEF NextReady
    <3>5. CASE NextStep BY <3>5, EvenStores DEF NextStep
    <3>. QED BY <1>8, <3>1, <3>2, <3>3, <3>4, <3>5
  <2>2. {disk, m} \subseteq Even BY <1>0
  <2>. QED BY <1>1, <1>2, <2>1, <2>2
<1>9. CASE Judge \/ Leave
  <2>1. PICK m \in Even : \E x \in Even :
           Save(m) \/ Raise(x, 1, {disk, m}) \/ UNCHANGED <<mem, disk>>
    <3>1. CASE Judge
      <4>. DEFINE m == Finish(mem, op.step < op.total)
      <4>1. (op.step < op.total) \in BOOLEAN OBVIOUS
      <4>2. m \in Even BY <4>1, EvenStores
      <4>3. Save(m) \/ Raise([m EXCEPT !.active = mem.active], 1, {disk, m}) BY <3>1 DEF Judge
      <4>. HIDE DEF m
      <4>. QED BY <1>0, <4>2, <4>3, EvenStores
    <3>2. CASE Leave
      <4>. DEFINE m == Finish(mem, FALSE)
      <4>2. m \in Even BY EvenStores
      <4>3. Save(m) \/ Raise([m EXCEPT !.active = mem.active], 1, {disk, m}) \/ UNCHANGED <<mem, disk>>
        BY <3>2 DEF Leave
      <4>. HIDE DEF m
      <4>. QED BY <1>0, <4>2, <4>3, EvenStores
    <3>. QED BY <1>9, <3>1, <3>2
  <2>2. {disk, m} \subseteq Even BY <1>0
  <2>. QED BY <1>1, <1>2, <1>4, <2>1, <2>2
<1>10. CASE StopHeld
  <2>. DEFINE m == [mem EXCEPT !.active = [NoActive EXCEPT !.action = "close", !.uid = stop,
                                                        !.before = Len(closes)]]
  <2>1. [NoActive EXCEPT !.action = "close", !.uid = stop, !.before = Len(closes)] \in Actives BY <1>0 DEF
    Actives
  <2>2. m \in Even BY <2>1, EvenStores
  <2>3. Save(m) \/ StopDone(m, "NOT_PROVED") BY <1>10 DEF StopHeld
  <2>. HIDE DEF m
  <2>. QED BY <1>1, <1>3, <2>2, <2>3
<1>11. CASE StopClosed \/ StopUnproved \/ StopLaunchFails
  BY <1>11, <1>3, <1>4, EvenStores DEF StopClosed, StopUnproved, StopLaunchFails
<1>12. CASE StopProved BY <1>0, EvenStores, <1>12, <1>3 DEF StopProved
<1>. QED BY <1>5, <1>6, <1>7, <1>8, <1>9, <1>10, <1>11, <1>12 DEF Task

-----------------------------------------------------------------------------
(* The task launches once. *)

\* A launch is counted for its own command, which asked for it.
LEMMA OnceLaunch ==
    ASSUME TypeInv, TypeInv', ChildInv, OnceInv, Bot.at = "none",
           Proved \/ UNCHANGED <<cycles, closes, lock, pos, terminals>>,
           NEW kind \in {"cycle", "close"}, NEW v \in Nat \ {0}, Spawn(kind, v),
           log' = log, mem'.offset = mem.offset, disk'.offset = mem.offset, op' = op, stop' = stop,
           \/ /\ v = op.uid /\ pc \in TaskPlaces
              /\ kind = "cycle" => op.action = "run" /\ pc \notin Launched /\ pc' \in TaskPlaces /\ pc' \in Launched
              /\ kind = "close" => pc \in Unclosed /\ pc' \in TaskPlaces /\ pc' \notin Unclosed
           \/ v = stop /\ kind = "close" /\ pc = "stopping" /\ pc' = "stopClose"
    PROVE  OnceInv'
<1>. USE DEF Launched, Unclosed
<1>0. /\ mem.offset \in Nat \ {0} /\ Len(log) \in Nat /\ DOMAIN log = 1..Len(log) /\ NoUid = 0
      /\ op.step \in Nat /\ 1 <= op.step /\ op.uid \in Nat /\ stop \in Nat /\ op.action \in {"run", "close"}
  <2>1. mem.offset \in Nat \ {0} BY DEF TypeInv
  <2>2. log \in Seq(Commands) BY DEF TypeInv, TypeOK
  <2>3. op.step \in 1..MaxSeries BY DEF TypeInv, TypeOK
  <2>4. op.uid \in Uids \union {NoUid} /\ stop \in Uids \union {NoUid} /\ op.action \in {"run", "close"}
    BY DEF TypeInv, TypeOK
  <2>. QED BY <2>1, <2>2, <2>3, <2>4, BoundsAssumption DEF Uids, NoUid
<1>1. \A u : Cycles(u) \in Nat /\ Closes(u) \in Nat /\ Cycles(u)' \in Nat /\ Closes(u)' \in Nat
  BY CountTypes, CountTypesNext
<1>2. \A u \in Nat \ {0} : /\ kind # "cycle" \/ v # u => Cycles(u)' = Cycles(u)
                           /\ kind # "close" \/ v # u => Closes(u)' = Closes(u)
                           /\ Cycles(u)' <= Cycles(u) + 1 /\ Closes(u)' <= Closes(u) + 1
  BY CountsKept
<1>3. v < mem.offset /\ v \in DOMAIN log /\ OffsetInv BY <1>0 DEF OnceInv, OffsetInv
<1>4. OffsetInv' BY <1>3 DEF OffsetInv
<1>5. ASSUME NEW u \in Nat, u >= mem'.offset PROVE Cycles(u)' = 0 /\ Closes(u)' = 0
  BY <1>0, <1>3, <1>5, <1>2 DEF OnceInv
<1>6. Asked(v, log[v]) /\ log[v].total \in Nat /\ 1 <= log[v].total
  BY <1>3, LogTotals, BoundsAssumption DEF OnceInv
\* What may still be launched for v, and what is then.
<1>7. /\ kind = "cycle" => log[v].action = "run" /\ Cycles(v) < log[v].total
      /\ kind = "close" => Closes(v) < log[v].total
  <2>1. CASE v = op.uid /\ pc \in TaskPlaces
    <3>1. /\ log[v].action = op.action /\ log[v].total = op.total /\ op.step <= op.total
          /\ Within(pc, v, op.step)
      BY <2>1 DEF OnceInv
    <3>2. pc # "stopping" BY <2>1 DEF TaskPlaces, StopPlaces
    <3>3. CASE kind = "cycle" BY <3>2, <3>3, <1>0, <1>1, <1>6, <3>1 DEF Within
    <3>4. CASE kind = "close" BY <3>2, <3>4, <1>0, <1>1, <1>6, <3>1 DEF Within
    <3>. QED BY <3>3, <3>4
  <2>2. CASE v = stop /\ kind = "close" /\ pc = "stopping" BY <1>0, <2>2, <1>6 DEF OnceInv
  <2>. QED BY <2>1, <2>2
<1>8. ASSUME NEW u \in DOMAIN log PROVE Asked(u, log[u])'
  <2>1. u \in Nat \ {0} /\ Asked(u, log[u]) /\ log[u].total \in 1..MaxSeries BY <1>0, <1>8, LogTotals DEF
    OnceInv
  <2>2. CASE u = v BY <1>1, <1>2, <1>6, <1>7, <2>1, <2>2 DEF Asked
  <2>3. CASE u # v BY <1>2, <2>1, <2>3 DEF Asked
  <2>. QED BY <2>2, <2>3
<1>9. ASSUME stop' # NoUid
      PROVE  /\ log'[stop'].action = "stop"
             /\ pc' \notin {"stopClose", "stopReady"} => Closes(stop)' = 0
  <2>1. stop' = stop /\ log[stop].action = "stop" /\ stop \in Nat \ {0} BY <1>0, <1>9 DEF OnceInv
  <2>2. ASSUME pc' \notin {"stopClose", "stopReady"} PROVE \A u : u = stop => Closes(u)' = 0
    BY <2>2, <1>9, <2>1, <1>0, <1>2 DEF OnceInv, TaskPlaces, StopPlaces
  <2>. QED BY <2>1, <2>2
<1>10. ASSUME pc' \in TaskPlaces
       PROVE  /\ log'[op'.uid].action = op'.action /\ log'[op'.uid].total = op'.total
              /\ op'.step <= op'.total
              /\ Within(pc, op.uid, op.step)'
  <2>1. v = op.uid /\ pc \in TaskPlaces BY <1>10 DEF TaskPlaces, StopPlaces
  <2>2. /\ log[v].action = op.action /\ log[v].total = op.total /\ op.step <= op.total
        /\ Within(pc, v, op.step)
    BY <2>1 DEF OnceInv
  <2>3. pc # "stopping" BY <2>1 DEF TaskPlaces, StopPlaces
  <2>4. Within(pc, v, op.step)'
    <3>1. CASE kind = "cycle"
      <4>1. pc \notin Launched /\ pc' \in Launched BY <2>3, <3>1
      <4>2. Cycles(v) < op.step /\ Closes(v) <= op.step BY <2>2, <4>1 DEF Within
      <4>3. Cycles(v)' <= op.step /\ Closes(v)' <= op.step BY <1>0, <1>1, <1>2, <3>1, <4>2
      <4>. QED BY <4>1, <4>3 DEF Within
    <3>2. CASE kind = "close"
      <4>1. pc \in Unclosed /\ pc' \notin Unclosed BY <1>10, <2>3, <3>2
      <4>2. Cycles(v) < op.step /\ Closes(v) < op.step BY <2>2, <4>1 DEF Within
      <4>3. Cycles(v)' < op.step /\ Closes(v)' <= op.step BY <1>0, <1>1, <1>2, <3>2, <4>2
      <4>. QED BY <1>0, <1>1, <4>1, <4>3 DEF Within
    <3>. QED BY <3>1, <3>2
  <2>. QED BY <2>1, <2>2, <2>4 DEF Within
<1>. QED BY <1>4, <1>5, <1>8, <1>9, <1>10 DEF OnceInv

\* A task launches within what its command asked for.
LEMMA OnceTask ==
    ASSUME TypeInv, TypeInv', ChildInv, PlaceInv, OnceInv, Task
    PROVE  OnceInv'
<1>. USE DEF TaskPlaces, StopPlaces, Waits
<1>0. /\ mem.offset \in Nat /\ op.uid \in Nat /\ stop \in Nat /\ NoUid = 0 /\ mem.offset <= Len(log) + 1
      /\ mem.offset = disk.offset
      /\ op.step \in Nat /\ op.action \in {"run", "close"}
  <2>1. mem.offset \in Nat \ {0} /\ Len(log) \in Nat BY DEF TypeInv, TypeOK
  <2>2. op.uid \in Uids \union {NoUid} /\ stop \in Uids \union {NoUid} /\ op.action \in {"run", "close"} /\ op.step \in 1..MaxSeries
    BY DEF TypeInv, TypeOK
  <2>. QED BY <2>1, <2>2, BoundsAssumption DEF Uids, NoUid, OnceInv, OffsetInv
<1>1. mem'.offset = mem.offset /\ disk'.offset = mem.offset BY <1>0, EvenTask
<1>2. log' = log
  BY DEF Task, Admit, AdmitClose, AdmitFlat, AdmitHeld, AdmitReady, AdmissionRefused, PreClosed,
    ReadyAfterClose, LaunchFails, Judge, NextStep, PauseEnds, NextHeld, NextFlat, NextReady, CheckRaises,
    Leave, StopHeld, StopFlat, StopClosed, StopProved, StopUnproved, StopLaunchFails, others
<1>a. pc \in TaskPlaces => op.uid \in Nat \ {0} BY <1>0 DEF PlaceInv
<1>p. Proved \/ UNCHANGED <<cycles, closes, lock, pos, terminals>> BY TaskWorld
<1>f. UNCHANGED proc \/ GivesUp => \A u \in Nat \ {0} : Fewer(u)
  BY <1>p, CountsKept DEF GivesUp, Bot, ChildInv, ProcShape, Procs, Gone
<1>e. /\ \A m, n, ds : Refuse(m, n, ds) => pc' \in {"idle", "stopping"}
      /\ \A m, n, ds : Raise(m, n, ds) => pc' \in {"idle", "stopping"}
      /\ \A m, r : StopDone(m, r) => pc' = "idle" /\ stop' = NoUid
  BY DEF Refuse, Raise, StopDone, Ends
\* A step that launches nothing.
<1>3. ASSUME UNCHANGED proc \/ GivesUp, op'.uid = op.uid, stop' \in {stop, NoUid},
             stop' # NoUid => pc \notin {"stopClose", "stopReady"} \/ pc' \in {"stopClose", "stopReady"},
             pc' \in TaskPlaces =>
                /\ pc \in TaskPlaces
                /\ op'.action = op.action /\ op'.total = op.total /\ op'.step <= op.total
                /\ \/ op'.step = op.step /\ (pc' \in Launched \/ pc \notin Launched)
                                         /\ (pc' \in Unclosed => pc \in Unclosed)
                   \/ op'.step = op.step + 1
      PROVE  OnceInv'
  BY <1>0, <1>1, <1>2, <1>3, <1>a, <1>f, OnceKept
<1>4. ASSUME op' = op, stop' = stop, UNCHANGED proc \/ GivesUp, pc \in TaskPlaces, pc' \notin TaskPlaces
      PROVE  OnceInv'
  BY <1>3, <1>4
<1>5. ASSUME op' = op, stop' = stop, UNCHANGED proc \/ GivesUp, pc \in TaskPlaces,
             pc' \in Launched \/ pc \notin Launched, pc' \in Unclosed => pc \in Unclosed
      PROVE  OnceInv'
  BY <1>5, <1>3 DEF OnceInv
<1>6. CASE AdmissionRefused \/ LaunchFails \/ CheckRaises \/ Leave
  BY <1>6, <1>e, <1>4 DEF AdmissionRefused, LaunchFails, CheckRaises, Leave, Ends, world, GivesUp
<1>7. CASE Admit \/ PreClosed \/ PauseEnds \/ AdmitFlat \/ NextFlat
  BY <1>7, <1>e, <1>4, <1>5 DEF Admit, PreClosed, PauseEnds, AdmitFlat, NextFlat, world, Launched, Unclosed
<1>8. CASE AdmitClose \/ AdmitHeld \/ NextHeld
  <2>1. /\ op' = op /\ stop' = stop /\ pc \in Unclosed /\ pc \in TaskPlaces
        /\ \/ UNCHANGED proc /\ pc' \notin TaskPlaces
           \/ Spawn("close", op.uid) /\ pc' \in {"launch", "preClose"}
    BY <1>8, <1>e DEF AdmitClose, AdmitHeld, NextHeld, Recorded, Unclosed
  <2>2. Bot.at = "none" BY <2>1, TaskCases DEF ChildInv, ChildWaits, Bot, Unclosed
  <2>3. CASE Spawn("close", op.uid) /\ pc' \in {"launch", "preClose"}
    BY <2>3, <1>1, <1>2, <1>a, <1>p, <2>1, <2>2, OnceLaunch DEF Unclosed
  <2>. QED BY <1>4, <2>1, <2>3
<1>9. CASE AdmitReady \/ ReadyAfterClose \/ NextReady
  <2>1. /\ op' = op /\ stop' = stop /\ pc \notin Launched /\ pc \in TaskPlaces /\ op.action = "run"
        /\ pc \in {"ready", "postClose", "nextReady"}
        /\ \/ UNCHANGED proc /\ pc' \notin TaskPlaces
           \/ UNCHANGED proc /\ pc' = "leaving"
           \/ Spawn("cycle", op.uid) /\ pc' = "launch"
    BY <1>9, <1>e DEF AdmitReady, ReadyAfterClose, NextReady, Recorded, LaunchUnlessStopped, Launched,
      PlaceInv
  <2>2. Bot.at = "none" BY <2>1, TaskCases DEF ChildInv, ChildWaits, Bot
  <2>3. CASE Spawn("cycle", op.uid) /\ pc' = "launch"
    BY <2>3, <1>1, <1>2, <1>a, <1>p, <2>1, <2>2, OnceLaunch DEF Launched
  <2>. QED BY <1>4, <1>5, <2>1, <2>3 DEF Launched, Unclosed
<1>10. CASE Judge
  <2>1. /\ pc = "launch" /\ UNCHANGED <<proc, stop>>
        /\ pc' \in TaskPlaces => pc' = "finished"
        /\ \/ op' = op
           \/ \E b : op' = [op EXCEPT !.safe = b]
    BY <1>10, <1>e DEF Judge, world
  <2>2. op'.uid = op.uid /\ op'.action = op.action /\ op'.total = op.total /\ op'.step = op.step
    BY <2>1 DEF TypeInv, TypeOK
  <2>3. op.step <= op.total BY <2>1 DEF OnceInv
  <2>. QED BY <1>3, <2>1, <2>2, <2>3 DEF Launched, Unclosed
<1>11. CASE NextStep
  <2>1. /\ pc = "finished" /\ UNCHANGED <<proc, stop>> /\ op' = [op EXCEPT !.step = @ + 1]
        /\ op.step < op.total
    BY <1>11 DEF NextStep, world
  <2>2. op'.uid = op.uid /\ op'.action = op.action /\ op'.total = op.total /\ op'.step = op.step + 1
    BY <2>1 DEF TypeInv, TypeOK
  <2>3. op.total \in Nat BY BoundsAssumption DEF TypeInv, TypeOK
  <2>4. op'.step <= op.total BY <1>0, <2>1, <2>2, <2>3
  <2>. QED BY <1>3, <2>1, <2>2, <2>4
<1>12. CASE StopHeld
  <2>1. /\ op' = op /\ pc = "stopping"
        /\ \/ UNCHANGED proc /\ pc' = "idle" /\ stop' = NoUid
           \/ Spawn("close", stop) /\ pc' = "stopClose" /\ stop' = stop
    BY <1>12, <1>e DEF StopHeld
  <2>2. Bot.at = "none" /\ stop \in Nat \ {0} BY <1>0, <2>1, TaskCases DEF ChildInv, ChildWaits, Bot, TypeInv
  <2>3. CASE Spawn("close", stop) /\ pc' = "stopClose" /\ stop' = stop
    BY <1>1, <1>2, <1>p, <2>1, <2>2, <2>3, OnceLaunch
  <2>. QED BY <1>3, <2>1, <2>3
<1>13. CASE StopFlat \/ StopClosed \/ StopProved \/ StopUnproved \/ StopLaunchFails
  BY <1>13, <1>e, <1>3 DEF StopFlat, StopClosed, StopProved, StopUnproved, StopLaunchFails, GivesUp, world
<1>. QED BY <1>6, <1>7, <1>8, <1>9, <1>10, <1>11, <1>12, <1>13 DEF Task

-----------------------------------------------------------------------------
(* Every step launches once. *)

\* Nothing is launched at the start.
LEMMA OnceInit == Init => OnceInv
<1>. SUFFICES ASSUME Init PROVE OnceInv OBVIOUS
<1>1. /\ log = <<>> /\ cycles = <<>> /\ closes = <<>> /\ Bot.at = "none" /\ pc = "idle"
      /\ mem.offset = 1 /\ disk.offset = 1 /\ op.uid = 0 /\ stop = 0 /\ NoUid = 0
  BY DEF Init, NewStore, NoOp, NoUid, Bot, Gone, Procs
<1>2. OffsetInv BY <1>1 DEF OffsetInv
<1>3. ASSUME NEW u \in Nat PROVE Cycles(u) = 0 /\ Closes(u) = 0
  BY <1>1, FS_EmptySet DEF Claimed, Pending, Cycles, Closes
<1>4. DOMAIN log = {} BY <1>1
<1>. QED BY <1>1, <1>2, <1>3, <1>4 DEF OnceInv, TaskPlaces

\* The command of an update: an old one that was not consumed, or a new one.
LEMMA HandleLog ==
    ASSUME TypeInv, OnceInv, Handle
    PROVE  /\ mem.offset \in DOMAIN log' /\ log'[mem.offset] \in Commands
           /\ Len(log') \in Nat /\ DOMAIN log' = 1..Len(log')
           /\ \A u \in DOMAIN log' : u # mem.offset => u \in DOMAIN log /\ log'[u] = log[u]
           /\ \A u \in DOMAIN log : log'[u] = log[u]
           /\ mem'.offset = disk'.offset /\ mem'.offset \in {mem.offset, mem.offset + 1}
           /\ \/ /\ mem'.offset = mem.offset + 1
                 /\ IF log'[mem.offset].action = "stop" THEN RequestStop(mem.offset)
                    ELSE Start(mem.offset, log'[mem.offset])
              \/ pc' = "idle" /\ op' = NoOp /\ stop' = NoUid /\ UNCHANGED proc
<1>. DEFINE uid == mem.offset
<1>0. /\ log \in Seq(Commands) /\ Len(log) \in Nat /\ DOMAIN log = 1..Len(log)
      /\ uid \in 1..(Len(log) + 1) /\ mem \in Stores /\ disk \in Stores /\ disk.offset = uid
  BY DEF TypeInv, TypeOK, OnceInv, OffsetInv
<1>1. /\ Consumed(mem, uid).offset = uid + 1 BY <1>0 DEF Consumed, Stores
<1>2. PICK c \in IF uid <= Len(log) THEN {log[uid]} ELSE Commands :
         /\ log' = IF uid <= Len(log) THEN log ELSE Append(log, c)
         /\ \/ /\ mem' = Consumed(mem, uid) /\ disk' = Consumed(mem, uid)
               /\ IF c.action = "stop" THEN RequestStop(uid) ELSE Start(uid, c)
            \/ /\ disk' \in {disk, Consumed(mem, uid)} /\ mem' = disk'
               /\ pc' = "idle" /\ op' = NoOp /\ stop' = NoUid /\ UNCHANGED proc
  BY DEF Handle
<1>. HIDE DEF uid
<1>3. c \in Commands BY <1>0, <1>2
<1>4. /\ uid \in DOMAIN log' /\ log'[uid] = c /\ Len(log') \in Nat /\ DOMAIN log' = 1..Len(log')
      /\ \A u \in DOMAIN log' : u # uid => u \in DOMAIN log /\ log'[u] = log[u]
      /\ \A u \in DOMAIN log : log'[u] = log[u]
  <2>1. CASE uid <= Len(log) BY <1>0, <1>2, <2>1
  <2>2. CASE ~(uid <= Len(log)) BY <1>0, <1>2, <2>2, <1>3
  <2>. QED BY <2>1, <2>2
<1>5. mem'.offset = disk'.offset /\ mem'.offset \in {uid, uid + 1} BY <1>0, <1>1, <1>2
<1>. QED BY <1>1, <1>2, <1>3, <1>4, <1>5 DEF uid

\* The commands of the log in the next state.
LEMMA LogTotalsNext ==
    ASSUME TypeInv', NEW u \in DOMAIN log'
    PROVE  log'[u].total \in 1..MaxSeries
<1>1. log' \in Seq(Commands) /\ MaxSeries \in Nat \ {0} BY BoundsAssumption DEF TypeInv, TypeOK
<1>2. log'[u] \in Commands BY <1>1
<1>3. \A c \in Commands : c.total \in 1..MaxSeries BY <1>1 DEF Commands
<1>. QED BY <1>2, <1>3

\* An update is consumed before anything is launched for it.
LEMMA OnceHandle ==
    ASSUME TypeInv, TypeInv', ChildInv, PlaceInv, OnceInv, Handle
    PROVE  OnceInv'
<1>. DEFINE uid == mem.offset
<1>0. /\ uid \in Nat \ {0} /\ op.step \in Nat /\ op.uid \in Nat /\ stop \in Nat /\ NoUid = 0
      /\ op.uid < uid /\ stop < uid /\ uid \in Nat /\ Len(log) \in Nat /\ DOMAIN log = 1..Len(log)
      /\ uid <= Len(log) + 1
  <2>1. op.uid \in Uids \union {NoUid} /\ stop \in Uids \union {NoUid} /\ op.step \in 1..MaxSeries
        /\ log \in Seq(Commands)
    BY DEF TypeInv, TypeOK
  <2>2. uid \in Nat \ {0} /\ OffsetInv BY DEF TypeInv, OnceInv
  <2>. QED BY <2>1, <2>2, BoundsAssumption DEF Uids, NoUid, OffsetInv
<1>a. /\ uid \in DOMAIN log' /\ log'[uid] \in Commands
      /\ Len(log') \in Nat /\ DOMAIN log' = 1..Len(log')
      /\ \A u \in DOMAIN log' : u # uid => u \in DOMAIN log /\ log'[u] = log[u]
      /\ \A u \in DOMAIN log : log'[u] = log[u]
      /\ mem'.offset = disk'.offset /\ mem'.offset \in {uid, uid + 1}
      /\ \/ /\ mem'.offset = uid + 1
            /\ IF log'[uid].action = "stop" THEN RequestStop(uid) ELSE Start(uid, log'[uid])
         \/ pc' = "idle" /\ op' = NoOp /\ stop' = NoUid /\ UNCHANGED proc
  BY HandleLog
<1>b. \A u \in Nat \ {0} : Fewer(u)
  BY <1>a, CountsKept DEF RequestStop, Start, Told, Bot, ChildInv, ProcShape, Procs, Handle
<1>c. \A u : Cycles(u) \in Nat /\ Closes(u) \in Nat /\ Cycles(u)' \in Nat /\ Closes(u)' \in Nat
  BY CountTypes, CountTypesNext
<1>. HIDE DEF uid
\* Nothing has been launched for an update before it is handled.
<1>d. ASSUME NEW u \in Nat, u >= uid PROVE Cycles(u)' = 0 /\ Closes(u)' = 0
  <2>1. u \in Nat \ {0} BY <1>0, <1>d
  <2>2. Cycles(u) = 0 /\ Closes(u) = 0 BY <1>d DEF OnceInv, uid
  <2>3. Fewer(u) BY <1>b, <2>1
  <2>. QED BY <1>c, <2>2, <2>3 DEF Fewer
<1>e. /\ op' = op \/ (op'.uid \in {0, uid} /\ mem'.offset = uid + 1) \/ op' = NoOp
      /\ stop' \in {0, stop} \/ (stop' = uid /\ mem'.offset = uid + 1)
  BY <1>0, <1>a DEF RequestStop, Start
<1>1. OffsetInv'
  <2>1. mem'.offset \in 1..(Len(log') + 1) BY <1>0, <1>a
  <2>2. op'.uid < mem'.offset /\ stop' < mem'.offset BY <1>0, <1>a, <1>e DEF NoOp
  <2>. QED BY <1>a, <2>1, <2>2 DEF OffsetInv
<1>2. ASSUME NEW u \in Nat, u >= mem'.offset PROVE Cycles(u)' = 0 /\ Closes(u)' = 0
  <2>1. u >= uid BY <1>0, <1>2, <1>a
  <2>. QED BY <1>d, <2>1
<1>3. ASSUME NEW u \in DOMAIN log' PROVE Asked(u, log[u])'
  <2>1. u \in Nat \ {0} BY <1>3, <1>a
  <2>2. log'[u].total \in 1..MaxSeries BY <1>3, LogTotalsNext
  <2>3. CASE u = uid BY <1>0, <1>d, <2>3, <2>2 DEF Asked
  <2>4. CASE u # uid
    <3>1. Asked(u, log[u]) /\ u \in DOMAIN log /\ log'[u] = log[u] BY <1>3, <1>a, <2>4 DEF OnceInv
    <3>2. Fewer(u) BY <1>b, <2>1
    <3>. QED BY <1>c, <2>2, <3>1, <3>2 DEF Asked, Fewer
  <2>. QED BY <2>3, <2>4
<1>4. ASSUME stop' # NoUid
      PROVE  /\ log'[stop'].action = "stop"
             /\ pc' \notin {"stopClose", "stopReady"} => Closes(stop)' = 0
  <2>1. CASE stop' = stop /\ stop # NoUid
    <3>1. /\ log[stop].action = "stop" /\ stop \in DOMAIN log
          /\ pc \notin {"stopClose", "stopReady"} => Closes(stop) = 0
      BY <1>0, <2>1 DEF OnceInv, NoUid
    <3>2. pc' \notin {"stopClose", "stopReady"} => pc \notin {"stopClose", "stopReady"}
      BY <1>a, <1>4, <2>1 DEF RequestStop, Start
    <3>4. \A u : u = stop => Closes(u)' <= Closes(u) BY <1>0, <1>b, <2>1 DEF Fewer
    <3>5. pc' \notin {"stopClose", "stopReady"} => \A u : u = stop => Closes(u)' = 0 BY <1>c, <3>1, <3>2, <3>4
    <3>. QED BY <1>a, <2>1, <3>1, <3>5
  <2>2. CASE stop' = uid BY <1>0, <1>d, <2>2, <1>a DEF RequestStop, Start
  <2>. QED BY <1>4, <1>e, <1>0, <2>1, <2>2
<1>5. ASSUME pc' \in TaskPlaces
      PROVE  /\ log'[op'.uid].action = op'.action /\ log'[op'.uid].total = op'.total
             /\ op'.step <= op'.total
             /\ Within(pc, op.uid, op.step)'
  <2>. USE DEF TaskPlaces, StopPlaces, Waits
  <2>1. CASE op' = op /\ pc' = pc
    <3>1. /\ log[op.uid].action = op.action /\ log[op.uid].total = op.total
          /\ op.step <= op.total /\ Within(pc, op.uid, op.step)
      BY <1>5, <2>1 DEF OnceInv
    <3>2. op.uid # 0 BY <1>0, <1>5, <2>1 DEF PlaceInv
    <3>3. op.uid \in DOMAIN log BY <1>0, <3>2
    <3>5. \A u : u = op.uid => Cycles(u)' <= Cycles(u) /\ Closes(u)' <= Closes(u) BY <1>0, <1>b, <3>2 DEF Fewer
    <3>6. \A u : u = op.uid => Within(pc, u, op.step)' BY <1>0, <1>c, <2>1, <3>1, <3>5 DEF Within
    <3>. QED BY <1>a, <2>1, <3>1, <3>3, <3>6 DEF Within
  <2>2. CASE ~(op' = op /\ pc' = pc)
    <3>1. /\ pc' = "admit" /\ log'[uid].action # "stop"
          /\ op' = [action |-> log'[uid].action, uid |-> uid, total |-> log'[uid].total,
                    step |-> 1, safe |-> FALSE, base |-> Len(cycles)]
      BY <1>5, <1>a, <2>2 DEF RequestStop, Start
    <3>2. log'[uid].total \in 1..MaxSeries BY <1>a, LogTotalsNext
    <3>3. \A u : u = uid => Cycles(u)' = 0 /\ Closes(u)' = 0 BY <1>0, <1>d
    <3>4. op'.uid = uid /\ op'.step = 1 /\ op'.action = log'[uid].action /\ op'.total = log'[uid].total BY <3>1
    <3>5. Within(pc, op.uid, op.step)' BY <3>3, <3>4 DEF Within
    <3>. QED BY <3>2, <3>4, <3>5, BoundsAssumption
  <2>. QED BY <2>1, <2>2
<1>. QED BY <1>1, <1>2, <1>3, <1>4, <1>5 DEF OnceInv

\* No step launches for a command that is not the task's.
LEMMA OnceStep ==
    ASSUME TypeInv, TypeInv', ChildInv, PlaceInv, WorldInv, OnceInv, [Next]_vars
    PROVE  OnceInv'
<1>0. /\ mem.offset \in Nat \ {0} /\ disk.offset = mem.offset /\ Len(log) \in Nat
      /\ mem.offset <= Len(log) + 1 /\ NoUid = 0
      /\ op.uid \in Nat /\ stop \in Nat /\ op.step \in Nat
  <2>1. op.uid \in Uids \union {NoUid} /\ stop \in Uids \union {NoUid} /\ op.step \in 1..MaxSeries
    BY DEF TypeInv, TypeOK
  <2>2. mem.offset \in Nat \ {0} /\ OffsetInv /\ Len(log) \in Nat BY DEF TypeInv, TypeOK, OnceInv
  <2>. QED BY <2>1, <2>2, BoundsAssumption DEF Uids, NoUid, OffsetInv
<1>a. pc \in TaskPlaces => op.uid # NoUid /\ op.step <= op.total BY DEF PlaceInv, OnceInv
\* The steps that go on in no other command.
<1>k. ASSUME \A u \in Nat \ {0} : Fewer(u), log' = log, UNCHANGED <<mem, disk, pc, op, stop>>
      PROVE  OnceInv'
  BY <1>0, <1>a, <1>k, OnceKept
<1>1. CASE Crash
  <2>1. /\ UNCHANGED <<log, world>> /\ disk' = disk /\ mem' = disk
        /\ pc' = "idle" /\ op' = NoOp /\ stop' = NoUid
    BY <1>1 DEF Crash
  <2>2. OffsetInv' BY <1>0, <2>1 DEF OffsetInv, NoOp, OnceInv
  <2>3. \A u : Cycles(u)' = Cycles(u) /\ Closes(u)' = Closes(u) BY <2>1 DEF world, Cycles, Closes, Pending, Bot
  <2>4. pc' \notin TaskPlaces /\ mem'.offset = mem.offset BY <1>0, <2>1 DEF TaskPlaces
  <2>5. \A u \in DOMAIN log : Asked(u, log[u])' BY <2>1, <2>3 DEF OnceInv, Asked
  <2>. QED BY <2>1, <2>2, <2>3, <2>4, <2>5 DEF OnceInv
<1>2. CASE Restart
  <2>1. /\ pc = "idle" /\ UNCHANGED <<log, pc, op, stop, proc>>
        /\ Proved \/ UNCHANGED <<cycles, closes, lock, pos, terminals>>
    BY <1>2 DEF Restart, ChildInv
  <2>2. \A u \in Nat \ {0} : Fewer(u) BY <2>1, CountsKept DEF Bot
  <2>3. /\ mem'.offset = disk'.offset
        /\ mem'.offset = IF Len(log) >= mem.offset THEN Len(log) + 1 ELSE mem.offset
    <3>. DEFINE m == Finish(disk, FALSE)
    <3>1. m \in Stores /\ m.offset = mem.offset BY <1>0, FinishType DEF TypeInv, TypeOK
    <3>2. PICK a : Save([m EXCEPT !.active = a, !.offset = IF Len(log) >= @ THEN Len(log) + 1 ELSE @])
      <4>1. PICK cleared \in BOOLEAN :
               Save([m EXCEPT !.active = IF cleared THEN NoActive ELSE @,
                              !.offset = IF Len(log) >= @ THEN Len(log) + 1 ELSE @])
        BY <1>2 DEF Restart
      <4>. HIDE DEF m
      <4>. QED BY <4>1
    <3>. HIDE DEF m
    <3>. QED BY <3>1, <3>2 DEF Save, Stores
  <2>4. mem'.offset >= mem.offset /\ mem'.offset <= Len(log) + 1 BY <1>0, <2>3
  <2>5. pc' \notin TaskPlaces BY <2>1 DEF TaskPlaces
  <2>. QED BY <2>1, <2>2, <2>3, <2>4, <2>5, OnceKept
<1>3. CASE \E kind \in {"cycle", "close"} : TerminalStarts(kind)
  <2>1. PICK kind \in {"cycle", "close"} : TerminalStarts(kind) BY <1>3
  <2>2. proc'["bot"] = proc["bot"] BY <2>1 DEF TerminalStarts, ChildInv, ProcShape, Procs
  <2>3. UNCHANGED <<cycles, closes>> /\ UNCHANGED controller BY <2>1 DEF TerminalStarts
  <2>4. \A u \in Nat \ {0} : Cycles(u)' = Cycles(u) /\ Closes(u)' = Closes(u)
    BY <2>2, <2>3 DEF Cycles, Closes, Pending, Bot
  <2>5. \A u \in Nat \ {0} : Fewer(u) BY <2>4, CountTypes DEF Fewer
  <2>. QED BY <1>k, <2>3, <2>5 DEF controller, others
<1>4. ASSUME NEW p \in Procs, Works(p) \/ Dies(p) PROVE OnceInv'
  <2>1. UNCHANGED controller
    BY <1>4 DEF Works, Prepares, Dies, Locks, LauncherRefuses, Claims, CycleRefused, Checks, Opens, CycleEnds,
      CloseEnds
  <2>2. \A u \in Nat \ {0} : Fewer(u) BY <1>4, CountsWorks
  <2>. QED BY <1>k, <2>1, <2>2 DEF controller, others
<1>5. CASE UNCHANGED vars BY <1>5, CountTypes, <1>k DEF vars, Cycles, Closes, Pending, Bot, Fewer
<1>. QED BY <1>1, <1>2, <1>3, <1>4, <1>5, OnceHandle, OnceTask DEF Next

\* No command is executed twice, whatever crashes, restarts and failed saves
\* come between: its children claim at most the slots the owner asked for.
THEOREM CommandOnceCorrect == Spec => []CommandOnce
<1>. DEFINE I == TypeInv /\ ChildInv /\ PlaceInv /\ WorldInv /\ OnceInv
<1>1. Init => I BY TypeInit, ChildInit, WorldInit, OnceInit
<1>2. I /\ [Next]_vars => I' BY TypeStep, ChildStep, PlaceStep, WorldStep, OnceStep
<1>3. I => CommandOnce BY OnceHolds
<1>. QED BY <1>1, <1>2, <1>3, PTL DEF Spec

=============================================================================
