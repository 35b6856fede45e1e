---------------------------- MODULE CycleProofs ----------------------------
(***************************************************************************)
(* Theorems about the cycle kernel, for every target, delay and holding    *)
(* time, every fill model, and any books, trades, repeats and gaps.        *)
(*                                                                         *)
(* The invariant says of every cycle what its fills and its takers made of *)
(* it (Sound): before the hedge it is short what the entry filled and owes *)
(* nothing else; from the hedge on its positions are what the paired and   *)
(* unmatched quantities say (Paired); of the lane, that the cycles it kept *)
(* have ended, each with its own fills, and that doubt is never behind it  *)
(* (LaneIs).                                                               *)
(***************************************************************************)
EXTENDS CycleKernel, TLAPS, WellFoundedInduction

-----------------------------------------------------------------------------
(* The records, and what is so of a cycle between two boundaries.          *)

Phases ==
    Entering \cup Exiting \cup Ended \cup {"UNMATCHED_WAIT", "EXIT_WAIT", "CLOSE_WAIT", "FORCE_WAIT"}
Kinds == {"hedge", "unmatched", "forcedR", "forcedL", "close"}
Acts == [kind : Kinds, qty : Nat, due : Nat, open : BOOLEAN]
Quotes == [q : Nat, rem : Nat, act : Nat, creq : Nat, ceff : Nat]
Sides == {"BUY", "SELL"}
Trades == [id : Nat, side : Sides, n : Nat, at : Nat, touch : BOOLEAN, whole : BOOLEAN]
Records ==
    [phase : Phases, obs : Nat, rem : Nat, act : Nat, sched : Nat, creq : Nat, ceff : Nat,
     hdue : Nat, hold : Nat, pairR : Nat, pairL : Nat, unm : Nat, exit : Quotes,
     acts : Seq(Acts), risex : Int, lighter : Int, fills : SUBSET Nat, seen : SUBSET Trades,
     lastAt : Nat, noEntry : BOOLEAN, noExit : BOOLEAN, spins : BOOLEAN, cur : Nat, ended : Nat]
Venues ==
    [r : [ok : BOOLEAN, asks : Nat, crosses : BOOLEAN],
     l : [ok : BOOLEAN, asks : Nat, bids : Nat], n : Nat]

\* What the hedge has not reached yet, and what it left.
Unhedged(k) ==
    /\ k.acts = <<>> /\ k.exit = NoExit
    /\ k.pairR = 0 /\ k.pairL = 0 /\ k.unm = 0 /\ k.lighter = 0 /\ k.risex = -k.obs
Owes(k) == k.risex = -(k.pairR + k.unm) /\ k.lighter = k.pairL
Paired(k) ==
    /\ Ever(k, "hedge") /\ Owes(k)
    /\ \A i \in Open(k) : k.acts[i].kind # "hedge"

Later == {"EXIT_WAIT", "EXIT_ACTIVE", "EXIT_CANCEL_WAIT", "CLOSE_WAIT", "FORCE_WAIT"}

\* What is so of a cycle between two boundaries.
Sound(k) ==
    /\ k \in Records
    /\ k.phase = "ENTRY_WAIT" => k.obs = 0
    /\ k.phase \in Entering \cup {"ABORTED"} => Unhedged(k)
    /\ k.phase = "ABORTED" => k.obs = 0
    /\ k.phase \in Later \cup {"UNMATCHED_WAIT", "COMPLETE"} => Paired(k)
    /\ k.phase = "UNMATCHED_WAIT" => \A i \in Open(k) : k.acts[i].kind = "unmatched"
    /\ k.phase \in Later => k.unm = 0
    /\ k.phase = "COMPLETE" => PositionsZero(k) /\ Open(k) = {}
    /\ k.phase = "UNRESOLVED" /\ ~Ever(k, "hedge") => k.risex = -k.obs /\ k.lighter = 0

\* What neither a taker nor a boundary changes of a cycle.
Same(h, k) ==
    h.obs = k.obs /\ h.rem = k.rem /\ h.fills = k.fills /\ h.seen = k.seen

\* A nonempty set of numbers has a least element.
LEMMA LeastOne ==
    ASSUME NEW T, T \subseteq Nat, T # {}
    PROVE  \E x \in T : \A y \in T : x <= y
<1>1. \E x \in T : \A y \in T : ~(<<y, x>> \in OpToRel(<, Nat)) BY NatLessThanWellFounded, WFMin
<1>2. PICK x \in T : \A y \in T : ~(<<y, x>> \in OpToRel(<, Nat)) BY <1>1
<1>3. \A y \in T : ~(y < x) BY <1>2 DEF OpToRel
<1>. QED BY <1>3

\* Below the least element of such a set there is none of it.
LEMMA Least ==
    ASSUME NEW T, T \subseteq Nat, T # {}
    PROVE  \E x \in T : x = 0 \/ (x - 1 \in Nat /\ x - 1 \notin T)
<1>1. PICK x \in T : \A y \in T : x <= y BY LeastOne
<1>. QED BY <1>1

\* s is k with one taker more, of that kind and quantity.
Scheduled(s, k, kind, n) ==
    LET m == Len(k.acts) + 1
    IN  /\ s \in Records /\ Same(s, k) /\ s.phase = k.phase /\ s.exit = k.exit
        /\ s.pairR = k.pairR /\ s.pairL = k.pairL /\ s.unm = k.unm
        /\ s.risex = k.risex /\ s.lighter = k.lighter
        /\ Len(s.acts) = m /\ s.acts[m].kind = kind /\ s.acts[m].qty = n /\ s.acts[m].open
        /\ \A i \in 1..Len(k.acts) : s.acts[i] = k.acts[i]

\* What _schedule_taker does is to queue one taker.
LEMMA ScheduleIs ==
    ASSUME NEW k \in Records, NEW kind \in Kinds, NEW n \in Nat, NEW at \in Int,
           at + Lag \in Nat, NEW s, s = Schedule(k, kind, n, at)
    PROVE  Scheduled(s, k, kind, n)
<1>. DEFINE a == [kind |-> kind, qty |-> n, due |-> at + Lag, open |-> TRUE]
<1>1. a \in Acts BY DEF Acts
<1>2. k.acts \in Seq(Acts) /\ Append(k.acts, a) \in Seq(Acts) BY <1>1 DEF Records
<1>3. s = [k EXCEPT !.acts = Append(k.acts, a)] BY DEF Schedule
<1>4. s \in Records /\ s.acts = Append(k.acts, a)
    <2>. HIDE DEF a
    <2>. QED BY <1>2, <1>3 DEF Records
<1>5. /\ Same(s, k) /\ s.phase = k.phase /\ s.exit = k.exit
      /\ s.pairR = k.pairR /\ s.pairL = k.pairL /\ s.unm = k.unm
      /\ s.risex = k.risex /\ s.lighter = k.lighter
    <2>. HIDE DEF a
    <2>. QED BY <1>3 DEF Records, Same
<1>6. /\ Len(s.acts) = Len(k.acts) + 1 /\ s.acts[Len(k.acts) + 1] = a
      /\ \A i \in 1..Len(k.acts) : s.acts[i] = k.acts[i]
  BY <1>2, <1>4
<1>7. a.kind = kind /\ a.qty = n /\ a.open OBVIOUS
<1>. HIDE DEF a
<1>. QED BY <1>4, <1>5, <1>6, <1>7 DEF Scheduled

\* What is open and what ever was, once more is queued.
LEMMA ScheduledOpen ==
    ASSUME NEW k \in Records, NEW s \in Records, NEW kind,
           Len(s.acts) = Len(k.acts) + 1, s.acts[Len(k.acts) + 1].kind = kind,
           s.acts[Len(k.acts) + 1].open,
           \A i \in 1..Len(k.acts) : s.acts[i] = k.acts[i]
    PROVE  /\ Open(s) = Open(k) \cup {Len(k.acts) + 1}
           /\ \A q : Ever(s, q) <=> Ever(k, q) \/ q = kind
<1>1. Len(k.acts) \in Nat BY DEF Records
<1>2. 1..Len(s.acts) = 1..Len(k.acts) \cup {Len(k.acts) + 1} BY <1>1
<1>3. Open(s) = Open(k) \cup {Len(k.acts) + 1} BY <1>2 DEF Open
<1>4. ASSUME NEW q PROVE Ever(s, q) <=> Ever(k, q) \/ q = kind BY <1>2 DEF Ever
<1>. QED BY <1>3, <1>4

\* One taker less is open, and nothing else of the queue is changed.
Closes(h, k, i) ==
    /\ Len(h.acts) = Len(k.acts) /\ h.acts[i].open = FALSE
    /\ \A j \in 1..Len(k.acts) :
          /\ h.acts[j].kind = k.acts[j].kind
          /\ j # i => h.acts[j].open = k.acts[j].open

\* Once a taker is closed the others are open as they were.
LEMMA ClosedIs ==
    ASSUME NEW k \in Records, NEW i \in 1..Len(k.acts), NEW h, Closes(h, k, i)
    PROVE  /\ Open(h) = Open(k) \ {i}
           /\ \A q : Ever(h, q) <=> Ever(k, q)
           /\ \A j \in Open(h) : h.acts[j].kind = k.acts[j].kind
<1>0. 1..Len(h.acts) = 1..Len(k.acts) BY DEF Closes
<1>1. ASSUME NEW j \in 1..Len(k.acts)
      PROVE  /\ h.acts[j].kind = k.acts[j].kind
             /\ h.acts[j].open <=> j # i /\ k.acts[j].open
  BY DEF Closes
<1>2. ASSUME NEW j PROVE j \in Open(h) <=> j \in Open(k) \ {i} BY <1>0, <1>1 DEF Open
<1>3. ASSUME NEW q PROVE Ever(h, q) <=> Ever(k, q) BY <1>0, <1>1 DEF Ever
<1>4. ASSUME NEW j \in Open(h) PROVE h.acts[j].kind = k.acts[j].kind BY <1>0, <1>1 DEF Open
<1>. QED BY <1>2, <1>3, <1>4

\* A taker that was tried is closed, and nothing else is changed.
LEMMA ShutIs ==
    ASSUME NEW k \in Records, NEW i \in 1..Len(k.acts)
    PROVE  LET h == [k EXCEPT !.acts[i].open = FALSE]
           IN  /\ h \in Records /\ Same(h, k) /\ h.phase = k.phase /\ h.exit = k.exit
               /\ h.pairR = k.pairR /\ h.pairL = k.pairL /\ h.unm = k.unm
               /\ h.risex = k.risex /\ h.lighter = k.lighter
               /\ Closes(h, k, i)
<1>0. k.acts \in Seq(Acts) BY DEF Records
<1>1. k.acts \in Seq(Acts) /\ k.acts[i] \in Acts BY <1>0
<1>. DEFINE a == [k.acts[i] EXCEPT !.open = FALSE]
            s == [k.acts EXCEPT ![i] = a]
            h == [k EXCEPT !.acts = s]
<1>2. a \in Acts /\ a.open = FALSE /\ a.kind = k.acts[i].kind BY <1>1 DEF Acts
<1>7. h = [k EXCEPT !.acts[i].open = FALSE] OBVIOUS
<1>. HIDE DEF a
<1>3. /\ Len(s) = Len(k.acts) /\ s[i] = a
      /\ \A j \in 1..Len(k.acts) : j # i => s[j] = k.acts[j]
  BY <1>1
<1>8. s \in Seq(Acts) BY <1>1, <1>2
<1>. HIDE DEF s
<1>4. h \in Records /\ h.acts = s BY <1>8 DEF Records
<1>5. /\ Same(h, k) /\ h.phase = k.phase /\ h.exit = k.exit
      /\ h.pairR = k.pairR /\ h.pairL = k.pairL /\ h.unm = k.unm
      /\ h.risex = k.risex /\ h.lighter = k.lighter
  BY DEF Records, Same
<1>6. Closes(h, k, i) BY <1>2, <1>3, <1>4, <1>8 DEF Closes
<1>. HIDE DEF h
<1>. QED BY <1>4, <1>5, <1>6, <1>7

\* A halt changes the phase alone.
LEMMA HaltedIs ==
    ASSUME NEW k \in Records
    PROVE  /\ Halt(k) \in Records /\ Same(Halt(k), k) /\ Unresolved(Halt(k))
           /\ Halt(k).exit = k.exit /\ Halt(k).acts = k.acts
           /\ Halt(k).risex = k.risex /\ Halt(k).lighter = k.lighter
BY DEF Phases, Ended, Records, Halt, Same, Unresolved

\* What n lots of a taker change.
LEMMA ExecutedIs ==
    ASSUME NEW k \in Records, NEW kind \in Kinds, kind # "hedge", NEW n \in Nat
    PROVE  LET h == Executed(k, kind, n)
           IN  /\ h \in Records /\ Same(h, k) /\ h.phase = k.phase /\ h.exit = k.exit
               /\ h.acts = k.acts
               /\ Owes(k) /\ n <= Bound(k, [kind |-> kind]) /\ (k.unm = 0 \/ kind = "unmatched")
                  => Owes(h) /\ (k.unm = 0 => h.unm = 0)
<1>0. k.unm \in Nat /\ k.pairR \in Nat /\ k.pairL \in Nat /\ k.risex \in Int /\ k.lighter \in Int BY DEF Records
<1>. DEFINE h == Executed(k, kind, n)
<1>1. CASE kind = "unmatched"
    <2>. DEFINE u == Greater(0, k.unm - n)
                r == k.risex + n
    <2>1. u \in Nat /\ r \in Int BY <1>0 DEF Greater
    <2>2. h = [k EXCEPT !.unm = u, !.risex = r] BY <1>1 DEF Executed
    <2>3. Bound(k, [kind |-> kind]) = k.unm BY <1>1 DEF Bound
    <2>4. n <= k.unm => u = k.unm - n BY <1>0 DEF Greater
    <2>. HIDE DEF u, h
    <2>5. /\ h \in Records /\ Same(h, k) /\ h.phase = k.phase /\ h.exit = k.exit /\ h.acts = k.acts
          /\ h.unm = u /\ h.risex = r /\ h.pairR = k.pairR /\ h.pairL = k.pairL
          /\ h.lighter = k.lighter
      BY <2>1, <2>2 DEF Records, Same
    <2>6. Owes(k) /\ n <= k.unm => Owes(h) /\ (k.unm = 0 => h.unm = 0) BY <1>0, <2>4, <2>5 DEF Owes
    <2>. QED BY <2>3, <2>5, <2>6 DEF h
<1>2. CASE kind = "forcedR"
    <2>. DEFINE u == Greater(0, k.pairR - n)
                v == Greater(0, k.unm - n)
                r == k.risex + n
    <2>1. u \in Nat /\ v \in Nat /\ r \in Int BY <1>0 DEF Greater
    <2>2. h = IF k.unm > 0 THEN [k EXCEPT !.unm = v, !.risex = r]
              ELSE [k EXCEPT !.pairR = u, !.risex = r]
      BY <1>2 DEF Executed
    <2>3. Bound(k, [kind |-> kind]) = k.pairR BY <1>2 DEF Bound
    <2>4. n <= k.pairR => u = k.pairR - n BY <1>0 DEF Greater
    <2>. HIDE DEF u, v, h
    <2>5. /\ h \in Records /\ Same(h, k) /\ h.phase = k.phase /\ h.exit = k.exit /\ h.acts = k.acts
          /\ h.risex = r /\ h.pairL = k.pairL /\ h.lighter = k.lighter
      BY <2>1, <2>2 DEF Records, Same
    <2>6. k.unm = 0 => h.pairR = u /\ h.unm = 0 BY <1>0, <2>2 DEF Records
    <2>7. Owes(k) /\ n <= k.pairR /\ k.unm = 0 => Owes(h) /\ (k.unm = 0 => h.unm = 0)
      BY <1>0, <2>4, <2>5, <2>6 DEF Owes
    <2>. QED BY <1>2, <2>3, <2>5, <2>7 DEF h
<1>3. CASE kind \in {"forcedL", "close"}
    <2>. DEFINE u == Greater(0, k.pairL - n)
                r == k.lighter - n
    <2>1. u \in Nat /\ r \in Int BY <1>0 DEF Greater
    <2>2. h = [k EXCEPT !.pairL = u, !.lighter = r] BY <1>3 DEF Executed
    <2>3. Bound(k, [kind |-> kind]) = k.pairL BY <1>3 DEF Bound
    <2>4. n <= k.pairL => u = k.pairL - n BY <1>0 DEF Greater
    <2>. HIDE DEF u, h
    <2>5. /\ h \in Records /\ Same(h, k) /\ h.phase = k.phase /\ h.exit = k.exit /\ h.acts = k.acts
          /\ h.pairL = u /\ h.lighter = r /\ h.pairR = k.pairR /\ h.unm = k.unm
          /\ h.risex = k.risex
      BY <2>1, <2>2 DEF Records, Same
    <2>6. Owes(k) /\ n <= k.pairL => Owes(h) /\ (k.unm = 0 => h.unm = 0) BY <1>0, <2>4, <2>5 DEF Owes
    <2>. QED BY <1>3, <2>3, <2>5, <2>6 DEF h
<1>. QED BY <1>1, <1>2, <1>3 DEF Kinds

\* A step of a cycle within one boundary, in which what is open of S is
\* executed; what is owed stays in order, or the cycle is in doubt.
Tried(h, k, S) ==
    /\ h \in Records /\ Same(h, k) /\ h.exit = k.exit /\ h.phase \in {k.phase, "UNRESOLVED"}
    /\ Len(h.acts) = Len(k.acts) /\ Open(h) = Open(k) \ S
    /\ \A j \in 1..Len(k.acts) : h.acts[j].kind = k.acts[j].kind
    /\ ~Unresolved(h) => Owes(h) /\ (k.unm = 0 => h.unm = 0)

\* An unwinding taker keeps what the paired quantities say of the positions.
LEMMA TakerIs ==
    ASSUME NEW k \in Records, NEW i \in Open(k), NEW b \in Venues, k.acts[i].kind # "hedge",
           ~Unresolved(k) => Owes(k) /\ (k.unm = 0 \/ k.acts[i].kind = "unmatched")
    PROVE  Tried(Taker(k, i, b), k, {i})
<1>. DEFINE a == k.acts[i]
            risex == a.kind \in {"unmatched", "forcedR"}
            shut == [k EXCEPT !.acts[i].open = FALSE]
            wanted == Lesser(a.qty, Bound(k, a))
            paired == ~risex \/ (a.kind = "forcedR" /\ k.pairR > 0 /\ k.pairL > 0)
            usable == IF paired THEN b.r.ok /\ b.l.ok ELSE b.r.ok
            depth == IF risex THEN b.r.asks ELSE IF a.kind = "hedge" THEN b.l.asks ELSE b.l.bids
            most == Lesser(wanted, depth)
            n == IF ~risex /\ most < LighterLeast THEN 0 ELSE most
            h == Taker(k, i, b)
<1>1. i \in 1..Len(k.acts) /\ a \in Acts /\ a.kind \in Kinds /\ a.qty \in Nat
    <2>1. i \in 1..Len(k.acts) BY DEF Open
    <2>2. k.acts \in Seq(Acts) BY DEF Records
    <2>3. k.acts[i] \in Acts BY <2>1, <2>2
    <2>. QED BY <2>1, <2>3 DEF Acts
<1>2. depth \in Nat BY DEF Venues
<1>3. Bound(k, a) \in Nat BY <1>1 DEF Records, Bound, Kinds
<1>4. n \in Nat /\ n <= Bound(k, a) /\ wanted \in Nat
    <2>. HIDE DEF depth
    <2>1. wanted \in Nat /\ wanted <= Bound(k, a) BY <1>1, <1>3 DEF Lesser
    <2>. HIDE DEF wanted
    <2>2. most \in Nat /\ most <= wanted BY <1>2, <2>1 DEF Lesser
    <2>. HIDE DEF most
    <2>. QED BY <1>3, <2>1, <2>2
<1>5. /\ shut \in Records /\ Same(shut, k) /\ shut.phase = k.phase /\ shut.exit = k.exit
      /\ shut.pairR = k.pairR /\ shut.pairL = k.pairL /\ shut.unm = k.unm
      /\ shut.risex = k.risex /\ shut.lighter = k.lighter
      /\ Closes(shut, k, i)
  BY <1>1, ShutIs
<1>6. h = IF wanted = 0 THEN shut
          ELSE IF ~usable THEN Halt(shut)
          ELSE IF n < wanted THEN Halt(Executed(shut, a.kind, n))
          ELSE Executed(shut, a.kind, n)
  BY DEF Taker
<1>7. Bound(shut, [kind |-> a.kind]) = Bound(k, a) BY <1>5, <1>1 DEF Bound, Kinds
<1>. DEFINE e == Executed(shut, a.kind, n)
<1>. HIDE DEF h, shut, wanted, usable, n
<1>8. /\ e \in Records /\ Same(e, shut) /\ e.phase = shut.phase /\ e.exit = shut.exit
      /\ e.acts = shut.acts
      /\ Owes(shut) /\ n <= Bound(shut, [kind |-> a.kind]) /\ (shut.unm = 0 \/ a.kind = "unmatched")
         => Owes(e) /\ (shut.unm = 0 => e.unm = 0)
  BY <1>1, <1>4, <1>5, ExecutedIs
<1>. HIDE DEF e
<1>9. \A x : x.acts = shut.acts => Closes(x, k, i) BY <1>5 DEF Closes
<1>10. ASSUME NEW x \in Records, x.acts = shut.acts, Same(x, k), x.exit = k.exit,
              x.phase \in {k.phase, "UNRESOLVED"},
              ~Unresolved(x) => Owes(x) /\ (k.unm = 0 => x.unm = 0)
       PROVE  Tried(x, k, {i})
    <2>1. Closes(x, k, i) BY <1>9, <1>10
    <2>2. Open(x) = Open(k) \ {i} BY <1>1, <2>1, ClosedIs
    <2>. QED BY <1>10, <2>1, <2>2 DEF Tried, Closes
<1>11. Tried(shut, k, {i}) BY <1>5, <1>10 DEF Owes, Unresolved
<1>12. Tried(Halt(shut), k, {i}) BY <1>5, <1>10, HaltedIs DEF Same, Unresolved
<1>13. Tried(Halt(e), k, {i})
    <2>1. /\ Halt(e) \in Records /\ Same(Halt(e), e) /\ Unresolved(Halt(e))
          /\ Halt(e).exit = e.exit /\ Halt(e).acts = e.acts
      BY <1>8, HaltedIs
    <2>2. Same(Halt(e), k) /\ Halt(e).exit = k.exit /\ Halt(e).acts = shut.acts BY <1>5, <1>8, <2>1 DEF Same
    <2>3. Halt(e).phase = "UNRESOLVED" BY <2>1 DEF Unresolved
    <2>. QED BY <1>10, <2>1, <2>2, <2>3
<1>14. Tried(e, k, {i}) BY <1>5, <1>4, <1>7, <1>8, <1>10 DEF Owes, Unresolved, Same
<1>15. h \in {shut, Halt(shut), Halt(e), e} BY <1>6 DEF e
<1>. QED BY <1>11, <1>12, <1>13, <1>14, <1>15 DEF h

\* Takers tried one after the other are takers tried.
LEMMA TriedAgain ==
    ASSUME NEW k \in Records, NEW x, NEW y, NEW S, NEW T, Tried(x, k, S), Tried(y, x, T)
    PROVE  Tried(y, k, S \cup T)
<1>1. y \in Records /\ y.phase \in {k.phase, "UNRESOLVED"} BY DEF Tried
<1>2. Same(y, k) /\ y.exit = k.exit /\ Len(y.acts) = Len(k.acts) BY DEF Tried, Same
<1>3. Open(y) = Open(k) \ (S \cup T) BY DEF Tried
<1>4. \A j \in 1..Len(k.acts) : y.acts[j].kind = k.acts[j].kind BY DEF Tried
<1>5. ~Unresolved(y) => Owes(y) /\ (k.unm = 0 => y.unm = 0) BY DEF Tried, Unresolved
<1>. QED BY <1>1, <1>2, <1>3, <1>4, <1>5 DEF Tried

\* g holds what is left after each of the first n takers.
TakersOf(k, b, S, g, n) ==
    g = [i \in 0..n |-> IF i = 0 THEN k ELSE IF i \in S THEN Taker(g[i - 1], i, b) ELSE g[i - 1]]

\* The cycle after each of the first m takers, as a function.
LEMMA TakersExist ==
    ASSUME NEW k, NEW b, NEW S, NEW m \in Nat
    PROVE  \E g : TakersOf(k, b, S, g, m)
<1>. DEFINE T == {n \in Nat : ~\E g : TakersOf(k, b, S, g, n)}
<1>1. SUFFICES ASSUME T # {} PROVE FALSE OBVIOUS
<1>2. PICK n \in T : n = 0 \/ (n - 1 \in Nat /\ n - 1 \notin T) BY <1>1, Least
<1>3. CASE n = 0
    <2>1. TakersOf(k, b, S, [i \in 0..0 |-> k], 0) BY DEF TakersOf
    <2>. QED BY <1>3, <2>1
<1>4. CASE n # 0
    <2>1. n - 1 \in Nat /\ n \in Nat BY <1>2, <1>4
    <2>2. PICK g : TakersOf(k, b, S, g, n - 1) BY <1>2, <1>4, <2>1
    <2>. DEFINE last == IF n \in S THEN Taker(g[n - 1], n, b) ELSE g[n - 1]
                h == [i \in 0..n |-> IF i = n THEN last ELSE g[i]]
    <2>. HIDE DEF last
    <2>3. h[n] = last /\ \A i \in 0..(n - 1) : h[i] = g[i] BY <2>1
    <2>4. ASSUME NEW i \in 0..n
          PROVE  h[i] = IF i = 0 THEN k ELSE IF i \in S THEN Taker(h[i - 1], i, b) ELSE h[i - 1]
        <3>1. CASE i = n BY <2>1, <2>3, <1>4, <3>1 DEF last
        <3>2. CASE i # n BY <2>1, <3>2, <2>2, <2>3 DEF TakersOf
        <3>. QED BY <3>1, <3>2
    <2>5. h = [i \in 0..n |-> h[i]] OBVIOUS
    <2>. HIDE DEF h
    <2>6. TakersOf(k, b, S, h, n) BY <2>4, <2>5 DEF TakersOf
    <2>. QED BY <1>2, <2>6
<1>. QED BY <1>3, <1>4

\* Takers is the last value of that function.
LEMMA TakersFold ==
    ASSUME NEW k \in Records, NEW b, NEW S
    PROVE  \E g : /\ TakersOf(k, b, S, g, Len(k.acts))
                  /\ Takers(k, b, S) = g[Len(k.acts)]
<1>. DEFINE done == CHOOSE g : TakersOf(k, b, S, g, Len(k.acts))
<1>1. Len(k.acts) \in Nat BY DEF Records
<1>2. TakersOf(k, b, S, done, Len(k.acts)) BY <1>1, TakersExist
<1>3. Takers(k, b, S) = done[Len(k.acts)] BY DEF Takers, TakersOf
<1>. QED BY <1>2, <1>3

\* The takers of S, one after another.
LEMMA TakersIs ==
    ASSUME NEW k \in Records, NEW b \in Venues, NEW S \in SUBSET Open(k),
           \A i \in S : k.acts[i].kind # "hedge",
           ~Unresolved(k) => Owes(k) /\ (k.unm = 0 \/ \A i \in S : k.acts[i].kind = "unmatched")
    PROVE  Tried(Takers(k, b, S), k, S)
<1>1. PICK g : /\ TakersOf(k, b, S, g, Len(k.acts))
               /\ Takers(k, b, S) = g[Len(k.acts)]
  BY TakersFold
<1>. DEFINE m == Len(k.acts)
            P(i) == Tried(g[i], k, S \cap 1..i)
            T == {i \in 0..m : ~P(i)}
<1>2. m \in Nat BY DEF Records
<1>3. \A i \in 0..m : g[i] = IF i = 0 THEN k ELSE IF i \in S THEN Taker(g[i - 1], i, b) ELSE g[i - 1]
  BY <1>1 DEF TakersOf
<1>4. P(0) BY <1>2, <1>3 DEF Tried, Same
<1>5. ASSUME NEW i \in 1..m, P(i - 1) PROVE P(i)
    <2>. DEFINE x == g[i - 1]
                R == S \cap 1..(i - 1)
    <2>1. Tried(x, k, R) BY <1>5
    <2>2. g[i] = IF i \in S THEN Taker(x, i, b) ELSE x BY <1>3, <1>2
    <2>3. CASE i \notin S
        <3>1. S \cap 1..i = R BY <1>2, <2>3
        <3>. QED BY <2>1, <2>2, <2>3, <3>1
    <2>4. CASE i \in S
        <3>1. i \in Open(x) /\ i \in Open(k) BY <2>1, <2>4, <1>2 DEF Tried
        <3>2. x \in Records /\ x.acts[i].kind = k.acts[i].kind BY <2>1, <1>2 DEF Tried
        <3>3. ~Unresolved(x) => ~Unresolved(k) /\ Owes(x) /\ (k.unm = 0 => x.unm = 0) BY <2>1 DEF Tried, Unresolved
        <3>4. Tried(Taker(x, i, b), x, {i})
            <4>1. x.acts[i].kind # "hedge" BY <2>4, <3>2
            <4>2. ~Unresolved(x) => Owes(x) /\ (x.unm = 0 \/ x.acts[i].kind = "unmatched") BY <2>4, <3>2, <3>3
            <4>. HIDE DEF x
            <4>. QED BY <3>1, <3>2, <4>1, <4>2, TakerIs
        <3>5. Tried(Taker(x, i, b), k, R \cup {i})
            <4>. HIDE DEF x, R
            <4>. QED BY <2>1, <3>4, TriedAgain
        <3>6. S \cap 1..i = R \cup {i} BY <1>2, <2>4
        <3>. QED BY <2>2, <2>4, <3>5, <3>6
    <2>. QED BY <2>3, <2>4
<1>6. T = {}
    <2>1. SUFFICES ASSUME T # {} PROVE FALSE OBVIOUS
    <2>2. T \subseteq Nat BY <1>2
    <2>3. PICK i \in T : i = 0 \/ (i - 1 \in Nat /\ i - 1 \notin T) BY <2>1, <2>2, Least
    <2>4. i # 0 /\ ~P(i) /\ i \in 0..m BY <2>3, <1>4
    <2>5. P(i - 1) /\ i \in 1..m BY <2>3, <2>4, <1>2
    <2>. QED BY <1>5, <2>4, <2>5
<1>7. P(m)
    <2>1. m \in 0..m BY <1>2
    <2>. HIDE DEF P
    <2>. QED BY <1>6, <2>1
<1>8. S \cap 1..m = S BY DEF Open
<1>. QED BY <1>1, <1>7, <1>8

\* Two cycles that hold, owe and queue the same.
Like(h, k) ==
    /\ Same(h, k) /\ h.acts = k.acts /\ h.pairR = k.pairR /\ h.pairL = k.pairL
    /\ h.unm = k.unm /\ h.risex = k.risex /\ h.lighter = k.lighter

\* Cycles with the same takers and quantities are owed the same.
LEMMA LikeIs ==
    ASSUME NEW h, NEW k, Like(h, k)
    PROVE  /\ Open(h) = Open(k) /\ (\A q : Ever(h, q) <=> Ever(k, q))
           /\ Owes(h) <=> Owes(k)
           /\ Paired(h) <=> Paired(k)
           /\ NothingLeft(h) <=> NothingLeft(k)
           /\ PositionsZero(h) <=> PositionsZero(k)
           /\ h.exit = k.exit => (Unhedged(h) <=> Unhedged(k))
<1>1. Open(h) = Open(k) /\ (\A q : Ever(h, q) <=> Ever(k, q)) BY DEF Like, Open, Ever
<1>2. Owes(h) <=> Owes(k) BY DEF Like, Owes
<1>3. Paired(h) <=> Paired(k) BY <1>1, <1>2 DEF Like, Paired
<1>4. NothingLeft(h) <=> NothingLeft(k) BY DEF Like, NothingLeft
<1>5. PositionsZero(h) <=> PositionsZero(k) BY <1>4 DEF Like, PositionsZero
<1>6. h.exit = k.exit => (Unhedged(h) <=> Unhedged(k)) BY DEF Like, Unhedged, Same
<1>. QED BY <1>1, <1>2, <1>3, <1>4, <1>5, <1>6

\* What is so of a cycle in doubt.
Grounded(k) == Ever(k, "hedge") \/ (k.risex = -k.obs /\ k.lighter = 0)

\* A sound cycle has its positions from its fills until it is hedged.
LEMMA SoundGrounded ==
    ASSUME NEW k, Sound(k)
    PROVE  Grounded(k)
<1>1. k.phase \in Phases BY DEF Sound, Records
<1>2. CASE k.phase \in Entering \cup {"ABORTED"} BY <1>2 DEF Sound, Unhedged, Grounded
<1>3. CASE k.phase \in Later \cup {"UNMATCHED_WAIT", "COMPLETE"} BY <1>3 DEF Sound, Paired, Grounded
<1>4. CASE k.phase = "UNRESOLVED" BY <1>4 DEF Sound, Grounded
<1>. QED BY <1>1, <1>2, <1>3, <1>4 DEF Phases, Entering, Exiting, Ended, Later

\* A cycle that is halted is sound, whatever it was doing.
LEMMA HaltSound ==
    ASSUME NEW k \in Records, Grounded(k)
    PROVE  Sound(Halt(k)) /\ Same(Halt(k), k) /\ Unresolved(Halt(k))
<1>1. /\ Halt(k) \in Records /\ Same(Halt(k), k) /\ Halt(k).phase = "UNRESOLVED"
      /\ Like(Halt(k), k)
    <2>1. Halt(k).pairR = k.pairR /\ Halt(k).pairL = k.pairL /\ Halt(k).unm = k.unm BY DEF Records, Halt
    <2>. QED BY <2>1, HaltedIs DEF Like, Unresolved
<1>2. Ever(Halt(k), "hedge") <=> Ever(k, "hedge") BY <1>1, LikeIs
<1>3. Halt(k).risex = k.risex /\ Halt(k).obs = k.obs /\ Halt(k).lighter = k.lighter BY <1>1 DEF Like, Same
<1>. DEFINE h == Halt(k)
<1>. HIDE DEF h
<1>4. h \in Records /\ h.phase = "UNRESOLVED" BY <1>1 DEF h
<1>5. ~Ever(h, "hedge") => h.risex = -h.obs /\ h.lighter = 0 BY <1>2, <1>3 DEF h, Grounded
<1>6. Sound(h) BY <1>4, <1>5 DEF Sound, Entering, Later
<1>. QED BY <1>1, <1>6 DEF h, Unresolved

\* One taker more of an unwinding.
Queued(s, f, kind) ==
    /\ s \in Records /\ Same(s, f) /\ s.phase = f.phase /\ s.exit = f.exit
    /\ s.unm = f.unm /\ s.pairR = f.pairR /\ s.pairL = f.pairL /\ Paired(s)
    /\ Open(s) = Open(f) \cup {Len(f.acts) + 1} /\ s.acts[Len(f.acts) + 1].kind = kind
    /\ \A i \in Open(f) : s.acts[i].kind = f.acts[i].kind

\* A taker that is queued for what is left changes no position.
LEMMA QueuedIs ==
    ASSUME NEW f \in Records, Paired(f), NEW kind \in Kinds, kind # "hedge",
           NEW n \in Nat, NEW at \in Nat, NEW s, s = Schedule(f, kind, n, at)
    PROVE  Queued(s, f, kind)
<1>. DEFINE m == Len(f.acts) + 1
<1>0. at + Lag \in Nat /\ kind \in Kinds /\ kind # "hedge" BY CycleAssumption
<1>1. /\ s \in Records /\ Same(s, f) /\ s.phase = f.phase /\ s.exit = f.exit
      /\ s.pairR = f.pairR /\ s.pairL = f.pairL /\ s.unm = f.unm
      /\ s.risex = f.risex /\ s.lighter = f.lighter
      /\ Len(s.acts) = m /\ s.acts[m].kind = kind /\ s.acts[m].open
      /\ \A i \in 1..Len(f.acts) : s.acts[i] = f.acts[i]
    <2>1. Scheduled(s, f, kind, n) BY <1>0, ScheduleIs
    <2>. QED BY <2>1 DEF Scheduled
<1>2. /\ Open(s) = Open(f) \cup {m}
      /\ \A q : Ever(s, q) <=> Ever(f, q) \/ q = kind
  BY <1>1, ScheduledOpen
<1>3. Open(f) \subseteq 1..Len(f.acts) BY DEF Open
<1>4. Owes(s) /\ Ever(s, "hedge") BY <1>1, <1>2 DEF Owes, Paired
<1>5. \A i \in Open(f) : s.acts[i].kind = f.acts[i].kind BY <1>1, <1>3
<1>6. ASSUME NEW i \in Open(s) PROVE s.acts[i].kind # "hedge"
    <2>1. CASE i = m BY <1>1, <2>1
    <2>2. CASE i \in Open(f) BY <1>5, <2>2 DEF Paired
    <2>. QED BY <1>2, <2>1, <2>2
<1>7. Paired(s) BY <1>4, <1>6 DEF Paired
<1>. QED BY <1>1, <1>2, <1>5, <1>7 DEF Queued

\* A cycle whose phase, flags and instants are others.
LEMMA PhaseIs ==
    ASSUME NEW k \in Records, NEW p \in Phases, NEW e \in Nat
    PROVE  /\ LET h == [k EXCEPT !.phase = p]
              IN  h \in Records /\ Like(h, k) /\ h.exit = k.exit /\ h.phase = p
           /\ LET h == [k EXCEPT !.phase = p, !.ended = e]
              IN  h \in Records /\ Like(h, k) /\ h.exit = k.exit /\ h.phase = p
BY DEF Records, Like, Same

\* A cycle that waits for its unwinding.
LEMMA LaterSound ==
    ASSUME NEW k \in Records, k.phase \in Later, Paired(k), k.unm = 0
    PROVE  Sound(k)
BY DEF Sound, Later, Entering

\* A cycle is completed flat.
LEMMA CompleteSound ==
    ASSUME NEW k \in Records, Paired(k), PositionsZero(k), Open(k) = {}, NEW at \in Nat
    PROVE  Sound(Complete(k, at)) /\ Same(Complete(k, at), k)
<1>1. /\ Complete(k, at) \in Records /\ Like(Complete(k, at), k)
      /\ Complete(k, at).phase = "COMPLETE"
  BY PhaseIs DEF Complete, Phases, Ended
<1>. HIDE DEF Complete
<1>2. Paired(Complete(k, at)) /\ PositionsZero(Complete(k, at)) /\ Open(Complete(k, at)) = {} BY <1>1, LikeIs
<1>. QED BY <1>1, <1>2 DEF Sound, Like, Later, Entering

\* What is left of a cycle is unwound, or the cycle ends, soundly.
LEMMA ForceRemainingIs ==
    ASSUME NEW k \in Records, Paired(k), k.unm = 0, NEW at \in Nat
    PROVE  Sound(ForceRemaining(k, at)) /\ Same(ForceRemaining(k, at), k)
<1>. DEFINE f == [k EXCEPT !.phase = "FORCE_WAIT"]
            Risex(x) ==
                IF x.pairR > 0 /\ ~Ever(x, "forcedR") THEN Schedule(x, "forcedR", x.pairR, at) ELSE x
            Lighter(x) ==
                IF x.pairL > 0 /\ ~Ever(x, "forcedL") THEN Schedule(x, "forcedL", x.pairL, at) ELSE x
            c == [k EXCEPT !.phase = "CLOSE_WAIT"]
            g == Lighter(Risex(f))
<1>1. CASE Open(k) # {}
    <2>1. c \in Records /\ Like(c, k) /\ c.phase = "CLOSE_WAIT" BY PhaseIs DEF Phases
    <2>2. ForceRemaining(k, at) = c BY <1>1 DEF ForceRemaining
    <2>. HIDE DEF c
    <2>3. Paired(c) /\ c.unm = 0 /\ Same(c, k) BY <2>1, LikeIs DEF Like
    <2>4. Sound(c) BY <2>1, <2>3, LaterSound DEF Later
    <2>. QED BY <2>2, <2>3, <2>4
<1>2. CASE Open(k) = {}
    <2>1. f \in Records /\ Like(f, k) /\ f.phase = "FORCE_WAIT" BY PhaseIs DEF Phases
    <2>2. ForceRemaining(k, at) =
              IF Open(g) # {} THEN g ELSE IF PositionsZero(g) THEN Complete(g, at) ELSE Halt(g)
      BY <1>2, <2>1 DEF ForceRemaining, Like
    <2>. HIDE DEF f
    <2>3. Paired(f) /\ f.unm = 0 /\ Same(f, k) BY <2>1, LikeIs DEF Like
    <2>. DEFINE G(x) == x \in Records /\ Paired(x) /\ x.unm = 0 /\ Same(x, k) /\ x.phase = "FORCE_WAIT"
    <2>. HIDE DEF G
    <2>4. ASSUME NEW x, G(x), NEW kind \in Kinds, kind # "hedge", NEW n \in Nat,
                 NEW s, s = Schedule(x, kind, n, at)
          PROVE  G(s)
        <3>1. x \in Records /\ Paired(x) BY <2>4 DEF G
        <3>2. x.unm = 0 /\ Same(x, k) /\ x.phase = "FORCE_WAIT" BY <2>4 DEF G
        <3>3. s \in Records /\ Paired(s) /\ s.unm = x.unm /\ Same(s, x) /\ s.phase = x.phase
            <4>1. Queued(s, x, kind) BY <2>4, <3>1, QueuedIs
            <4>. QED BY <4>1 DEF Queued
        <3>4. Same(s, k) BY <3>2, <3>3 DEF Same
        <3>. QED BY <3>2, <3>3, <3>4 DEF G
    <2>5. ASSUME NEW x, G(x) PROVE G(Risex(x)) /\ G(Lighter(x))
        <3>1. x.pairR \in Nat /\ x.pairL \in Nat BY <2>5 DEF G, Records
        <3>2. "forcedR" \in Kinds /\ "forcedL" \in Kinds BY DEF Kinds
        <3>3. G(Schedule(x, "forcedR", x.pairR, at)) BY <2>4, <2>5, <3>1, <3>2
        <3>4. G(Schedule(x, "forcedL", x.pairL, at)) BY <2>4, <2>5, <3>1, <3>2
        <3>. QED BY <2>5, <3>3, <3>4
    <2>6. G(g)
        <3>1. G(f) BY <2>1, <2>3 DEF G
        <3>. HIDE DEF Risex, Lighter
        <3>. QED BY <2>5, <3>1
    <2>. HIDE DEF g
    <2>7. Sound(g) BY <2>6, LaterSound DEF G, Later
    <2>8. Sound(Halt(g)) /\ Same(Halt(g), g) BY <2>6, <2>7, SoundGrounded, HaltSound DEF G
    <2>9. Open(g) = {} /\ PositionsZero(g) => Sound(Complete(g, at)) /\ Same(Complete(g, at), g)
      BY <2>6, CompleteSound DEF G
    <2>10. Same(g, k) /\ \A h : Same(h, g) => Same(h, k) BY <2>6 DEF G, Same
    <2>. QED BY <2>2, <2>7, <2>8, <2>9, <2>10
<1>. QED BY <1>1, <1>2

\* One that goes on as it is, in another phase.
LEMMA ForcedFlagIs ==
    ASSUME NEW k \in Records, Paired(k), k.unm = 0, NEW at \in Nat
    PROVE  LET h == ForceRemaining([k EXCEPT !.noExit = TRUE], at)
           IN  Sound(h) /\ Same(h, k)
<1>. DEFINE f == [k EXCEPT !.noExit = TRUE]
<1>1. f \in Records /\ Like(f, k) BY DEF Records, Like, Same
<1>. HIDE DEF f
<1>2. Paired(f) /\ f.unm = 0 /\ Same(f, k) BY <1>1, LikeIs DEF Like
<1>3. Sound(ForceRemaining(f, at)) /\ Same(ForceRemaining(f, at), f) BY <1>1, <1>2, ForceRemainingIs
<1>4. Same(ForceRemaining(f, at), k) BY <1>2, <1>3 DEF Same
<1>. QED BY <1>3, <1>4 DEF f

\* The Risex position is what the paired quantities say, as a sum.
LEMMA OwesSum ==
    ASSUME NEW k \in Records, Owes(k)
    PROVE  k.risex + k.pairR + k.unm = 0
<1>1. k.risex \in Int /\ k.pairR \in Int /\ k.unm \in Int BY DEF Records
<1>2. k.risex = -(k.pairR + k.unm) BY DEF Owes
<1>. QED BY <1>1, <1>2

\* The exit quote is a quote.
LEMMA NewExit ==
    ASSUME NEW n \in Nat, NEW at \in Nat
    PROVE  [NoExit EXCEPT !.q = n, !.rem = n, !.act = at] \in Quotes
<1>1. Unset \in Nat BY DEF Unset
<1>. DEFINE u == Unset
            z == 0
<1>2. NoExit = [q |-> z, rem |-> z, act |-> u, creq |-> u, ceff |-> u] BY DEF NoExit
<1>3. z \in Nat /\ u \in Nat BY <1>1
<1>. HIDE DEF u, z
<1>. QED BY <1>2, <1>3 DEF Quotes

\* What is paired with nothing left is flat.
LEMMA NothingOwed ==
    ASSUME NEW k \in Records, Paired(k), NothingLeft(k)
    PROVE  PositionsZero(k)
<1>1. k.risex + k.pairR + k.unm = 0 /\ k.risex \in Int BY OwesSum DEF Paired, Records
<1>2. k.pairR = 0 /\ k.pairL = 0 /\ k.unm = 0 BY DEF NothingLeft
<1>3. k.risex = 0 BY <1>1, <1>2
<1>4. k.lighter = 0 BY <1>2 DEF Paired, Owes
<1>. QED BY <1>3, <1>4 DEF PositionsZero

\* After the hedge an exit quote is scheduled, or what is left is unwound.
LEMMA PrepareExitIs ==
    ASSUME NEW k \in Records, Paired(k), k.unm = 0, Open(k) = {}, NEW b \in Venues,
           NEW at \in Nat
    PROVE  Sound(PrepareExit(k, b, at)) /\ Same(PrepareExit(k, b, at), k)
<1>. DEFINE e == [NoExit EXCEPT !.q = k.pairR, !.rem = k.pairR, !.act = at + Lag]
            w == [k EXCEPT !.phase = "EXIT_WAIT", !.exit = e]
            c == Complete(k, at)
            d == ForceRemaining(k, at)
            f == ForceRemaining([k EXCEPT !.noExit = TRUE], at)
<1>1. PrepareExit(k, b, at) \in {d, Halt(k), f, w} \/ (PositionsZero(k) /\ PrepareExit(k, b, at) = c)
    <2>1. k.pairR = 0 /\ k.pairL = 0 => PositionsZero(k) BY NothingOwed DEF NothingLeft
    <2>. HIDE DEF d, f, c
    <2>. QED BY <2>1 DEF PrepareExit, d, f, c
<1>2. Sound(d) /\ Same(d, k) BY ForceRemainingIs
<1>3. Sound(f) /\ Same(f, k) BY ForcedFlagIs
<1>4. Sound(Halt(k)) /\ Same(Halt(k), k) BY HaltSound DEF Grounded, Paired
<1>5. PositionsZero(k) => Sound(c) /\ Same(c, k) BY CompleteSound
<1>6. Sound(w) /\ Same(w, k)
    <2>1. e \in Quotes
        <3>1. at + Lag \in Nat BY CycleAssumption
        <3>2. k.pairR \in Nat BY DEF Records
        <3>. QED BY <3>1, <3>2, NewExit
    <2>. HIDE DEF e
    <2>2. w \in Records /\ Like(w, k) /\ w.phase = "EXIT_WAIT" BY <2>1 DEF Records, Like, Same, Phases
    <2>. HIDE DEF w
    <2>3. Paired(w) /\ w.unm = 0 /\ Same(w, k) BY <2>2, LikeIs DEF Like
    <2>. QED BY <2>2, <2>3, LaterSound DEF Later
<1>. HIDE DEF c, d, f, w
<1>. QED BY <1>1, <1>2, <1>3, <1>4, <1>5, <1>6

\* The least of a set of instants.
LEMMA MinIs ==
    ASSUME NEW T, T \subseteq Nat, T # {}
    PROVE  Min(T) \in T /\ \A x \in T : Min(T) <= x
BY LeastOne DEF Min

\* The next taker is due at an instant.
LEMMA FirstDueIs ==
    ASSUME NEW k \in Records
    PROVE  FirstDue(k) \in Nat
<1>1. {Unset} \cup {k.acts[i].due : i \in Open(k)} \subseteq Nat
    <2>1. k.acts \in Seq(Acts) BY DEF Records
    <2>2. ASSUME NEW i \in Open(k) PROVE k.acts[i].due \in Nat
        <3>1. i \in 1..Len(k.acts) BY DEF Open
        <3>2. k.acts[i] \in Acts BY <2>1, <3>1
        <3>. QED BY <3>2 DEF Acts
    <2>3. Unset \in Nat BY DEF Unset
    <2>. QED BY <2>2, <2>3
<1>. QED BY <1>1, MinIs DEF FirstDue

\* The next boundary is at an instant, and so is the end of the exit quote.
LEMMA NextDueIs ==
    ASSUME NEW k \in Records
    PROVE  NextDue(k) \in Nat /\ ExitCutoff(k) \in Nat
<1>1. /\ k.act \in Nat /\ k.sched \in Nat /\ k.creq \in Nat /\ k.hdue \in Nat /\ k.hold \in Nat
      /\ k.cur \in Nat /\ k.exit.act \in Nat /\ k.exit.creq \in Nat /\ k.exit.ceff \in Nat
      /\ Lag \in Nat /\ Unset \in Nat /\ FirstDue(k) \in Nat
    <2>1. k.act \in Nat /\ k.sched \in Nat /\ k.creq \in Nat /\ k.hdue \in Nat /\ k.hold \in Nat
          /\ k.cur \in Nat /\ k.exit \in Quotes
      BY DEF Records
    <2>2. k.exit.act \in Nat /\ k.exit.creq \in Nat /\ k.exit.ceff \in Nat BY <2>1 DEF Quotes
    <2>3. Unset \in Nat BY DEF Unset
    <2>4. Lag \in Nat BY CycleAssumption
    <2>. QED BY <2>1, <2>2, <2>3, <2>4, FirstDueIs
<1>2. ExitCutoff(k) \in Nat BY <1>1 DEF ExitCutoff
<1>3. Lesser(FirstDue(k), ExitCutoff(k)) \in Nat BY <1>1, <1>2 DEF Lesser
<1>4. k.creq + Lag \in Nat /\ k.cur + Lag \in Nat BY <1>1
<1>. HIDE DEF Lesser, FirstDue
<1>5. NextDue(k) \in Nat BY <1>1, <1>3, <1>4 DEF NextDue
<1>. QED BY <1>2, <1>5

\* A cycle whose entry is not hedged yet.
LEMMA EarlySound ==
    ASSUME NEW h \in Records, Unhedged(h),
           \/ h.phase \in {"ENTRY_ACTIVE", "ENTRY_HEDGE_WAIT"}
           \/ h.phase \in {"ENTRY_WAIT", "ABORTED"} /\ h.obs = 0
    PROVE  Sound(h)
BY DEF Sound, Entering, Later

\* A halt leaves a sound cycle sound.
LEMMA SoundHalt ==
    ASSUME NEW k, Sound(k)
    PROVE  Sound(Halt(k)) /\ Same(Halt(k), k)
BY SoundGrounded, HaltSound DEF Sound

\* The entry quote becomes active, or is not placed.
LEMMA AtEntryWaitIs ==
    ASSUME NEW k, Sound(k), k.phase = "ENTRY_WAIT", NEW b, NEW at \in Nat
    PROVE  Sound(AtEntryWait(k, b, at)) /\ Same(AtEntryWait(k, b, at), k)
<1>. DEFINE a == Abort([k EXCEPT !.noEntry = TRUE], at)
            e == [k EXCEPT !.phase = "ENTRY_ACTIVE"]
<1>1. k \in Records /\ Unhedged(k) /\ k.obs = 0 BY DEF Sound, Entering
<1>2. AtEntryWait(k, b, at) \in {Halt(k), a, e} BY DEF AtEntryWait
<1>3. Sound(Halt(k)) /\ Same(Halt(k), k) BY SoundHalt
<1>4. a \in Records /\ Like(a, k) /\ a.exit = k.exit /\ a.phase = "ABORTED"
  BY <1>1 DEF Abort, Records, Like, Same, Phases, Ended
<1>5. e \in Records /\ Like(e, k) /\ e.exit = k.exit /\ e.phase = "ENTRY_ACTIVE"
  BY <1>1 DEF Records, Like, Same, Phases, Entering
<1>. HIDE DEF a, e
<1>6. Unhedged(a) /\ a.obs = 0 /\ Same(a, k) BY <1>1, <1>4, LikeIs DEF Like, Same
<1>7. Unhedged(e) /\ Same(e, k) BY <1>1, <1>5, LikeIs DEF Like
<1>8. Sound(a) /\ Sound(e) BY <1>4, <1>5, <1>6, <1>7, EarlySound
<1>. QED BY <1>2, <1>3, <1>6, <1>7, <1>8

\* The entry quote is canceled; nothing of it may have filled.
LEMMA AtEntryActiveIs ==
    ASSUME NEW k, Sound(k), k.phase = "ENTRY_ACTIVE", NEW b, NEW at \in Nat
    PROVE  Sound(AtEntryActive(k, b, at)) /\ Same(AtEntryActive(k, b, at), k)
<1>. DEFINE c == [k EXCEPT !.creq = at]
            a == Abort([k EXCEPT !.ceff = at], at)
            due == at + Lag
            e == [k EXCEPT !.ceff = at, !.hdue = due, !.phase = "ENTRY_HEDGE_WAIT"]
<1>1. k \in Records /\ Unhedged(k) BY DEF Sound, Entering
<1>2. AtEntryActive(k, b, at) \in {c, e} \/ (k.obs = 0 /\ AtEntryActive(k, b, at) = a) BY DEF AtEntryActive
<1>3. c \in Records /\ Like(c, k) /\ c.exit = k.exit /\ c.phase = "ENTRY_ACTIVE" BY <1>1 DEF Records, Like, Same
<1>4. a \in Records /\ Like(a, k) /\ a.exit = k.exit /\ a.phase = "ABORTED"
  BY <1>1 DEF Abort, Records, Like, Same, Phases, Ended
<1>5. e \in Records /\ Like(e, k) /\ e.exit = k.exit /\ e.phase = "ENTRY_HEDGE_WAIT"
    <2>1. due \in Nat BY CycleAssumption
    <2>. HIDE DEF due
    <2>. QED BY <1>1, <2>1 DEF Records, Like, Same, Phases, Entering
<1>. HIDE DEF a, c, e
<1>6. Unhedged(a) /\ Unhedged(c) /\ Unhedged(e) BY <1>1, <1>3, <1>4, <1>5, LikeIs
<1>7. Same(a, k) /\ Same(c, k) /\ Same(e, k) /\ a.obs = k.obs BY <1>3, <1>4, <1>5 DEF Like, Same
<1>8. Sound(c) /\ Sound(e) /\ (k.obs = 0 => Sound(a)) BY <1>3, <1>4, <1>5, <1>6, <1>7, EarlySound
<1>. QED BY <1>2, <1>7, <1>8

\* The hedge of the entry: what LIGHTER gave is paired, the rest is owed.
LEMMA HedgeIs ==
    ASSUME NEW k \in Records, Unhedged(k), NEW b \in Venues, NEW at \in Nat,
           NEW s, s = Schedule(k, "hedge", k.obs, at - Lag)
    PROVE  LET h == Taker(s, Len(s.acts), b)
           IN  /\ h \in Records /\ Same(h, k) /\ h.phase \in {k.phase, "UNRESOLVED"}
               /\ Open(h) = {} /\ Ever(h, "hedge")
               /\ ~Unresolved(h) => Owes(h)
<1>. DEFINE h == Taker(s, Len(s.acts), b)
            shut == [s EXCEPT !.acts[1].open = FALSE]
            most == Lesser(Lesser(k.obs, k.obs), b.l.asks)
            n == IF most < LighterLeast THEN 0 ELSE most
            d == Hedged(shut, n)
<1>1. /\ k.obs \in Nat /\ "hedge" \in Kinds /\ (at - Lag) + Lag \in Nat
      /\ Len(k.acts) = 0 /\ k.lighter = 0 /\ k.risex = -k.obs
    <2>1. k.obs \in Nat BY DEF Records
    <2>2. "hedge" \in Kinds BY DEF Kinds
    <2>3. (at - Lag) + Lag \in Nat BY CycleAssumption
    <2>4. k.lighter = 0 /\ k.risex = -k.obs BY DEF Unhedged
    <2>5. Len(k.acts) = 0 BY DEF Unhedged
    <2>. QED BY <2>1, <2>2, <2>3, <2>4, <2>5
<1>2. /\ s \in Records /\ Same(s, k) /\ s.phase = k.phase
      /\ s.risex = k.risex /\ s.lighter = k.lighter
      /\ Len(s.acts) = 1 /\ s.acts[1].kind = "hedge" /\ s.acts[1].qty = k.obs /\ s.acts[1].open
    <2>. DEFINE t == at - Lag
                m == Len(k.acts) + 1
                q == k.obs
    <2>1. m = 1 BY <1>1
    <2>2. s = Schedule(k, "hedge", q, t) /\ t \in Int /\ t + Lag \in Nat /\ q \in Nat BY <1>1, CycleAssumption
    <2>3. m = Len(k.acts) + 1 OBVIOUS
    <2>. HIDE DEF t, m, q
    <2>4. /\ s \in Records /\ Same(s, k) /\ s.phase = k.phase
          /\ s.risex = k.risex /\ s.lighter = k.lighter
          /\ Len(s.acts) = m /\ s.acts[m].kind = "hedge" /\ s.acts[m].qty = q /\ s.acts[m].open
        <3>1. Scheduled(s, k, "hedge", q) BY <1>1, <2>2, ScheduleIs
        <3>. QED BY <2>3, <3>1 DEF Scheduled
    <2>. QED BY <2>1, <2>4 DEF q
<1>3. n \in Nat /\ n <= k.obs
    <2>1. b.l.asks \in Nat BY DEF Venues
    <2>2. most \in Nat /\ most <= k.obs BY <1>1, <2>1 DEF Lesser
    <2>. HIDE DEF most
    <2>. QED BY <1>1, <2>2
<1>. HIDE DEF h, shut, d, n
<1>4. /\ shut \in Records /\ Same(shut, s) /\ shut.phase = s.phase
      /\ shut.risex = s.risex /\ shut.lighter = s.lighter /\ Closes(shut, s, 1)
    <2>1. 1 \in 1..Len(s.acts) BY <1>2
    <2>2. s \in Records BY <1>2
    <2>. QED BY <2>1, <2>2, ShutIs, Zenon DEF shut
<1>5. h \in {Halt(shut), d}
    <2>1. h = IF ~(b.r.ok /\ b.l.ok) THEN Halt(shut) ELSE d
        <3>1. "hedge" \notin {"unmatched", "forcedR"} OBVIOUS
        <3>. QED BY <1>2, <3>1 DEF h, shut, d, n, Taker, Bound, Executed
    <2>. QED BY <2>1
<1>6. /\ d \in Records /\ Same(d, shut) /\ d.phase = shut.phase /\ d.acts = shut.acts /\ Owes(d)
    <2>. DEFINE g == Greater(0, k.obs - n)
                l == shut.lighter + n
    <2>1. shut.obs = k.obs /\ shut.lighter = 0 /\ shut.risex = -k.obs BY <1>1, <1>2, <1>4 DEF Same
    <2>2. g = k.obs - n /\ g \in Nat BY <1>1, <1>3 DEF Greater
    <2>3. d = [shut EXCEPT !.pairR = n, !.pairL = n, !.unm = g, !.lighter = l] BY <2>1 DEF d, Hedged
    <2>4. l = n /\ l \in Int BY <1>3, <2>1
    <2>. HIDE DEF g, l
    <2>5. /\ d \in Records /\ Same(d, shut) /\ d.phase = shut.phase /\ d.acts = shut.acts
          /\ d.pairR = n /\ d.pairL = n /\ d.unm = g /\ d.lighter = l /\ d.risex = shut.risex
      BY <1>3, <1>4, <2>2, <2>3, <2>4 DEF Records, Same
    <2>6. n + g = k.obs BY <1>1, <1>3, <2>2
    <2>7. Owes(d) BY <2>1, <2>4, <2>5, <2>6 DEF Owes
    <2>. QED BY <2>5, <2>7
<1>7. /\ Halt(shut) \in Records /\ Same(Halt(shut), shut) /\ Unresolved(Halt(shut))
      /\ Halt(shut).acts = shut.acts
  BY <1>4, HaltedIs
<1>8. h \in Records /\ Same(h, k) /\ h.phase \in {k.phase, "UNRESOLVED"} /\ h.acts = shut.acts
  BY <1>2, <1>4, <1>6, <1>7, <1>5 DEF Same, Unresolved
<1>9. Open(h) = {} /\ Ever(h, "hedge") BY <1>4, <1>8, <1>2, ClosedIs DEF Closes, Open, Ever
<1>10. ~Unresolved(h) => Owes(h) BY <1>5, <1>6, <1>7
<1>. QED BY <1>8, <1>9, <1>10 DEF h

\* What takers leave of a cycle whose hedge was done.
LEMMA TriedPaired ==
    ASSUME NEW k \in Records, Paired(k), NEW S \in SUBSET Open(k), NEW h, Tried(h, k, S)
    PROVE  /\ h \in Records /\ Same(h, k) /\ (~Unresolved(h) => Paired(h))
           /\ (Unresolved(h) => Sound(h)) /\ Grounded(h)
<1>1. h \in Records /\ Same(h, k) /\ Len(h.acts) = Len(k.acts) /\ Open(h) = Open(k) \ S BY DEF Tried
<1>2. \A j \in 1..Len(k.acts) : h.acts[j].kind = k.acts[j].kind BY DEF Tried
<1>3. Ever(h, "hedge") BY <1>1, <1>2 DEF Paired, Ever
<1>4. Open(k) \subseteq 1..Len(k.acts) BY DEF Open
<1>5. \A i \in Open(h) : h.acts[i].kind # "hedge" BY <1>1, <1>2, <1>4 DEF Paired
<1>6. ~Unresolved(h) => Paired(h) BY <1>3, <1>5 DEF Tried, Paired
<1>7. Unresolved(h) => Sound(h) BY <1>1, <1>3 DEF Sound, Unresolved, Entering, Later
<1>8. Grounded(h) BY <1>3 DEF Grounded
<1>. QED BY <1>1, <1>6, <1>7, <1>8

\* The same of those that are due.
LEMMA DueTakersIs ==
    ASSUME NEW k, Sound(k), k.phase \in Later, NEW b \in Venues, NEW at
    PROVE  LET h == DueTakers(k, b, at)
           IN  /\ h \in Records /\ Same(h, k) /\ h.phase \in {k.phase, "UNRESOLVED"}
               /\ Grounded(h)
               /\ (Unresolved(h) => Sound(h))
               /\ (~Unresolved(h) => Paired(h) /\ h.unm = 0 /\ Sound(h))
<1>. DEFINE S == {i \in Open(k) : k.acts[i].due = at}
            h == Takers(k, b, S)
<1>1. k \in Records /\ Paired(k) /\ k.unm = 0 /\ S \subseteq Open(k) BY DEF Sound
<1>. HIDE DEF S
<1>2. Tried(h, k, S) BY <1>1, TakersIs DEF Paired
<1>. HIDE DEF h
<1>3. /\ h \in Records /\ Same(h, k) /\ Grounded(h)
      /\ (Unresolved(h) => Sound(h)) /\ (~Unresolved(h) => Paired(h))
  BY <1>1, <1>2, TriedPaired
<1>4. h.phase \in {k.phase, "UNRESOLVED"} /\ (~Unresolved(h) => h.unm = 0) BY <1>1, <1>2 DEF Tried
<1>5. ~Unresolved(h) => Sound(h) BY <1>3, <1>4, LaterSound DEF Unresolved
<1>. QED BY <1>3, <1>4, <1>5 DEF DueTakers, S, h

\* What the entry filled is hedged.
LEMMA AtEntryHedgeIs ==
    ASSUME NEW k, Sound(k), k.phase = "ENTRY_HEDGE_WAIT", NEW b \in Venues, NEW at \in Nat
    PROVE  Sound(AtEntryHedge(k, b, at)) /\ Same(AtEntryHedge(k, b, at), k)
<1>. DEFINE s == Schedule(k, "hedge", k.obs, at - Lag)
            h == Taker(s, Len(s.acts), b)
            u == Schedule(h, "unmatched", h.unm, at)
            w == [u EXCEPT !.phase = "UNMATCHED_WAIT"]
            p == PrepareExit(h, b, at)
<1>1. k \in Records /\ Unhedged(k) BY DEF Sound, Entering
<1>2. /\ h \in Records /\ Same(h, k) /\ h.phase \in {k.phase, "UNRESOLVED"}
      /\ Open(h) = {} /\ Ever(h, "hedge") /\ (~Unresolved(h) => Owes(h))
    <2>1. s = Schedule(k, "hedge", k.obs, at - Lag) OBVIOUS
    <2>. HIDE DEF s
    <2>. QED BY <1>1, <2>1, HedgeIs
<1>3. AtEntryHedge(k, b, at) = IF Unresolved(h) THEN h ELSE IF h.unm > 0 THEN w ELSE p BY DEF AtEntryHedge
<1>. HIDE DEF h
<1>4. CASE Unresolved(h) BY <1>2, <1>4, <1>3 DEF Sound, Unresolved, Entering, Later
<1>5. ASSUME ~Unresolved(h)
      PROVE  Paired(h) /\ h.unm \in Nat
  BY <1>2, <1>5 DEF Records, Paired
<1>6. CASE ~Unresolved(h) /\ h.unm > 0
    <2>1. "unmatched" \in Kinds /\ "unmatched" # "hedge" BY DEF Kinds
    <2>2. Queued(u, h, "unmatched") BY <1>2, <1>5, <1>6, <2>1, QueuedIs
    <2>. HIDE DEF u
    <2>3. u \in Records /\ Same(u, h) /\ Paired(u) BY <2>2 DEF Queued
    <2>4. \A i \in Open(u) : u.acts[i].kind = "unmatched" BY <1>2, <2>2 DEF Queued
    <2>5. w \in Records /\ Like(w, u) /\ w.phase = "UNMATCHED_WAIT" BY <2>3, PhaseIs DEF Phases
    <2>. HIDE DEF w
    <2>6. Paired(w) /\ Open(w) = Open(u) /\ w.acts = u.acts /\ Same(w, u) BY <2>3, <2>5, LikeIs DEF Like
    <2>7. Sound(w) BY <2>4, <2>5, <2>6 DEF Sound, Entering, Later
    <2>8. Same(w, k) BY <1>2, <2>3, <2>6 DEF Same
    <2>. QED BY <1>3, <1>6, <2>7, <2>8
<1>7. CASE ~Unresolved(h) /\ ~(h.unm > 0)
    <2>1. h.unm = 0 /\ Paired(h) BY <1>5, <1>7
    <2>2. Sound(p) /\ Same(p, h) BY <1>2, <2>1, PrepareExitIs
    <2>3. Same(p, k) BY <1>2, <2>2 DEF Same
    <2>. HIDE DEF p
    <2>. QED BY <1>3, <1>7, <2>2, <2>3
<1>. QED BY <1>4, <1>6, <1>7

\* What the hedge did not reach is bought back.
LEMMA AtUnmatchedIs ==
    ASSUME NEW k, Sound(k), k.phase = "UNMATCHED_WAIT", NEW b \in Venues, NEW at \in Nat
    PROVE  Sound(AtUnmatched(k, b, at)) /\ Same(AtUnmatched(k, b, at), k)
<1>. DEFINE h == Takers(k, b, Open(k))
            p == PrepareExit(h, b, at)
<1>1. k \in Records /\ Paired(k) /\ \A i \in Open(k) : k.acts[i].kind = "unmatched" BY DEF Sound
<1>2. Tried(h, k, Open(k)) BY <1>1, TakersIs DEF Paired
<1>3. AtUnmatched(k, b, at) = IF Unresolved(h) THEN h ELSE IF h.unm > 0 THEN Halt(h) ELSE p BY DEF AtUnmatched
<1>. HIDE DEF h
<1>4. /\ h \in Records /\ Same(h, k) /\ Grounded(h)
      /\ (Unresolved(h) => Sound(h)) /\ (~Unresolved(h) => Paired(h))
  BY <1>1, <1>2, TriedPaired
<1>5. Open(h) = {} /\ h.unm \in Nat BY <1>2, <1>4 DEF Tried, Records
<1>6. Sound(Halt(h)) /\ Same(Halt(h), h) BY <1>4, HaltSound
<1>7. ~Unresolved(h) /\ ~(h.unm > 0) => Sound(p) /\ Same(p, h) BY <1>4, <1>5, PrepareExitIs
<1>8. ASSUME NEW x, Same(x, h) PROVE Same(x, k) BY <1>4, <1>8 DEF Same
<1>. HIDE DEF p
<1>. QED BY <1>3, <1>4, <1>6, <1>7, <1>8

\* The exit quote becomes active, or is not placed.
LEMMA AtExitWaitIs ==
    ASSUME NEW k, Sound(k), k.phase = "EXIT_WAIT", NEW b, NEW at \in Nat
    PROVE  Sound(AtExitWait(k, b, at)) /\ Same(AtExitWait(k, b, at), k)
<1>. DEFINE f == ForceRemaining([k EXCEPT !.noExit = TRUE], at)
            e == [k EXCEPT !.phase = "EXIT_ACTIVE"]
<1>1. k \in Records /\ Paired(k) /\ k.unm = 0 BY DEF Sound, Later
<1>2. AtExitWait(k, b, at) \in {Halt(k), f, e} BY DEF AtExitWait
<1>3. Sound(Halt(k)) /\ Same(Halt(k), k) BY SoundHalt
<1>4. Sound(f) /\ Same(f, k) BY <1>1, ForcedFlagIs
<1>5. e \in Records /\ Like(e, k) /\ e.phase = "EXIT_ACTIVE" BY <1>1, PhaseIs DEF Phases, Exiting
<1>. HIDE DEF e, f
<1>6. Paired(e) /\ e.unm = 0 /\ Same(e, k) BY <1>1, <1>5, LikeIs DEF Like
<1>7. Sound(e) BY <1>5, <1>6, LaterSound DEF Later
<1>. QED BY <1>2, <1>3, <1>4, <1>6, <1>7

\* A cycle whose exit is another, in one of the phases of the unwinding.
LEMMA ExitChanged ==
    ASSUME NEW k \in Records, Paired(k), k.unm = 0, NEW x \in Quotes, NEW p \in Later
    PROVE  /\ LET h == [k EXCEPT !.exit = x, !.phase = p] IN Sound(h) /\ Same(h, k)
           /\ LET h == [k EXCEPT !.exit = x]
              IN  h \in Records /\ Paired(h) /\ h.unm = 0 /\ Same(h, k)
<1>. DEFINE h == [k EXCEPT !.exit = x, !.phase = p]
            g == [k EXCEPT !.exit = x]
<1>1. p \in Phases BY DEF Later, Phases, Exiting
<1>2. h \in Records /\ Like(h, k) /\ h.phase = p BY <1>1 DEF Records, Like, Same
<1>3. g \in Records /\ Like(g, k) BY DEF Records, Like, Same
<1>. HIDE DEF h, g
<1>4. Paired(h) /\ h.unm = 0 /\ Same(h, k) BY <1>2, LikeIs DEF Like
<1>5. Paired(g) /\ g.unm = 0 /\ Same(g, k) BY <1>3, LikeIs DEF Like
<1>6. Sound(h) BY <1>2, <1>4, LaterSound
<1>. QED BY <1>3, <1>4, <1>5, <1>6 DEF h, g

\* The exit quote is canceled at the end of the holding time.
LEMMA AtExitActiveIs ==
    ASSUME NEW k, Sound(k), k.phase = "EXIT_ACTIVE", NEW b, NEW at \in Nat
    PROVE  Sound(AtExitActive(k, b, at)) /\ Same(AtExitActive(k, b, at), k)
<1>. DEFINE e == at + Lag
            x == [k.exit EXCEPT !.creq = at, !.ceff = e]
            h == [k EXCEPT !.exit = x, !.phase = "EXIT_CANCEL_WAIT"]
<1>1. k \in Records /\ Paired(k) /\ k.unm = 0 BY DEF Sound, Later
<1>2. e \in Nat /\ k.exit \in Quotes
    <2>1. e \in Nat BY CycleAssumption
    <2>2. k.exit \in Quotes BY <1>1 DEF Records
    <2>. QED BY <2>1, <2>2
<1>. HIDE DEF e
<1>3. x \in Quotes BY <1>2 DEF Quotes
<1>4. AtExitActive(k, b, at) = h BY Zenon DEF AtExitActive, e
<1>. HIDE DEF x
<1>5. Sound(h) /\ Same(h, k) BY <1>1, <1>3, ExitChanged DEF Later
<1>. QED BY <1>4, <1>5

\* Closes that are due until the cancellation holds, then what is left.
LEMMA AtExitCancelIs ==
    ASSUME NEW k, Sound(k), k.phase = "EXIT_CANCEL_WAIT", NEW b \in Venues, NEW at \in Nat
    PROVE  Sound(AtExitCancel(k, b, at)) /\ Same(AtExitCancel(k, b, at), k)
<1>. DEFINE h == DueTakers(k, b, at)
            x == [h.exit EXCEPT !.ceff = ExitCutoff(h)]
            g == [h EXCEPT !.exit = x]
            f == ForceRemaining(g, at)
<1>1. /\ h \in Records /\ Same(h, k)
      /\ (Unresolved(h) => Sound(h))
      /\ (~Unresolved(h) => Paired(h) /\ h.unm = 0 /\ Sound(h))
  BY DueTakersIs DEF Later
<1>2. AtExitCancel(k, b, at) = IF Unresolved(h) \/ at < ExitCutoff(h) THEN h ELSE f BY DEF AtExitCancel
<1>. HIDE DEF h
<1>3. ASSUME ~Unresolved(h) PROVE Sound(f) /\ Same(f, h)
    <2>1. x \in Quotes BY <1>1, NextDueIs DEF Records, Quotes
    <2>. HIDE DEF x
    <2>2. g \in Records /\ Paired(g) /\ g.unm = 0 /\ Same(g, h) BY <1>1, <1>3, <2>1, ExitChanged DEF Later
    <2>. HIDE DEF g
    <2>3. Sound(f) /\ Same(f, g) BY <2>2, ForceRemainingIs
    <2>. QED BY <2>2, <2>3 DEF Same
<1>4. ASSUME NEW y, Same(y, h) PROVE Same(y, k) BY <1>1, <1>4 DEF Same
<1>. HIDE DEF f
<1>. QED BY <1>1, <1>2, <1>3, <1>4

\* The closes that are due, then the end or what is left.
LEMMA AtCloseWaitIs ==
    ASSUME NEW k, Sound(k), k.phase = "CLOSE_WAIT", NEW b \in Venues, NEW at \in Nat
    PROVE  Sound(AtCloseWait(k, b, at)) /\ Same(AtCloseWait(k, b, at), k)
<1>. DEFINE h == DueTakers(k, b, at)
            c == Complete(h, at)
            f == ForceRemaining(h, at)
<1>1. /\ h \in Records /\ Same(h, k)
      /\ (Unresolved(h) => Sound(h))
      /\ (~Unresolved(h) => Paired(h) /\ h.unm = 0 /\ Sound(h))
  BY DueTakersIs DEF Later
<1>2. AtCloseWait(k, b, at) =
          IF Unresolved(h) THEN h
          ELSE IF NothingLeft(h) /\ Open(h) = {} THEN c ELSE IF Open(h) # {} THEN h ELSE f
  BY DEF AtCloseWait
<1>. HIDE DEF h
<1>3. ~Unresolved(h) => Sound(f) /\ Same(f, h) BY <1>1, ForceRemainingIs
<1>4. ~Unresolved(h) /\ NothingLeft(h) /\ Open(h) = {} => Sound(c) /\ Same(c, h) BY <1>1, NothingOwed, CompleteSound
<1>5. ASSUME NEW y, Same(y, h) PROVE Same(y, k) BY <1>1, <1>5 DEF Same
<1>. HIDE DEF f, c
<1>. QED BY <1>1, <1>2, <1>3, <1>4, <1>5

\* What is forced leaves a flat cycle, or halts it.
LEMMA AtForceWaitIs ==
    ASSUME NEW k, Sound(k), k.phase = "FORCE_WAIT", NEW b \in Venues, NEW at \in Nat
    PROVE  Sound(AtForceWait(k, b, at)) /\ Same(AtForceWait(k, b, at), k)
<1>. DEFINE h == DueTakers(k, b, at)
            c == Complete(h, at)
<1>1. /\ h \in Records /\ Same(h, k) /\ Grounded(h)
      /\ (Unresolved(h) => Sound(h)) /\ (~Unresolved(h) => Paired(h))
  BY DueTakersIs DEF Later
<1>2. AtForceWait(k, b, at) =
          IF Unresolved(h) THEN h
          ELSE IF NothingLeft(h) /\ Open(h) = {} THEN c ELSE Halt(h)
  BY DEF AtForceWait
<1>. HIDE DEF h
<1>3. Sound(Halt(h)) /\ Same(Halt(h), h) BY <1>1, HaltSound
<1>4. ~Unresolved(h) /\ NothingLeft(h) /\ Open(h) = {} => Sound(c) /\ Same(c, h) BY <1>1, NothingOwed, CompleteSound
<1>5. ASSUME NEW y, Same(y, h) PROVE Same(y, k) BY <1>1, <1>5 DEF Same
<1>. HIDE DEF c
<1>. QED BY <1>1, <1>2, <1>3, <1>4, <1>5

\* _handle_boundary keeps a cycle sound, in every phase.
LEMMA BoundaryIs ==
    ASSUME NEW k, Sound(k), ~IsOver(k), NEW b \in Venues, NEW at \in Nat
    PROVE  Sound(Boundary(k, b, at)) /\ Same(Boundary(k, b, at), k)
<1>1. k.phase \in {"ENTRY_WAIT", "ENTRY_ACTIVE", "ENTRY_HEDGE_WAIT", "UNMATCHED_WAIT", "EXIT_WAIT",
                   "EXIT_ACTIVE", "EXIT_CANCEL_WAIT", "CLOSE_WAIT", "FORCE_WAIT"}
  BY DEF Sound, Records, Phases, Entering, Exiting, Ended, IsOver
<1>2. CASE k.phase = "ENTRY_WAIT" BY <1>2, AtEntryWaitIs DEF Boundary
<1>3. CASE k.phase = "ENTRY_ACTIVE" BY <1>3, AtEntryActiveIs DEF Boundary
<1>4. CASE k.phase = "ENTRY_HEDGE_WAIT" BY <1>4, AtEntryHedgeIs DEF Boundary
<1>5. CASE k.phase = "UNMATCHED_WAIT" BY <1>5, AtUnmatchedIs DEF Boundary
<1>6. CASE k.phase = "EXIT_WAIT" BY <1>6, AtExitWaitIs DEF Boundary
<1>7. CASE k.phase = "EXIT_ACTIVE" BY <1>7, AtExitActiveIs DEF Boundary
<1>8. CASE k.phase = "EXIT_CANCEL_WAIT" BY <1>8, AtExitCancelIs DEF Boundary
<1>9. CASE k.phase = "CLOSE_WAIT" BY <1>9, AtCloseWaitIs DEF Boundary
<1>10. CASE k.phase = "FORCE_WAIT" BY <1>10, AtForceWaitIs DEF Boundary
<1>. QED BY <1>1, <1>2, <1>3, <1>4, <1>5, <1>6, <1>7, <1>8, <1>9, <1>10

\* A cycle that differs from a sound one in what neither takers nor
\* boundaries look at.
LEMMA AlikeSound ==
    ASSUME NEW k, Sound(k), NEW h \in Records, h.phase = k.phase, h.exit = k.exit,
           h.acts = k.acts, h.pairR = k.pairR, h.pairL = k.pairL, h.unm = k.unm,
           h.risex = k.risex, h.lighter = k.lighter, h.obs = k.obs
    PROVE  Sound(h)
<1>1. Open(h) = Open(k) /\ (\A q : Ever(h, q) <=> Ever(k, q)) BY DEF Open, Ever
<1>2. Owes(h) <=> Owes(k) BY DEF Owes
<1>3. Paired(h) <=> Paired(k) BY <1>1, <1>2 DEF Paired
<1>4. PositionsZero(h) <=> PositionsZero(k) BY DEF PositionsZero, NothingLeft
<1>5. Unhedged(h) <=> Unhedged(k) BY DEF Unhedged
<1>. QED BY <1>1, <1>3, <1>4, <1>5 DEF Sound

\* Soundness depends on takers, quantities, exit and phase alone.
LEMMA LikeSound ==
    ASSUME NEW k, Sound(k), NEW h \in Records, Like(h, k), h.exit = k.exit, h.phase = k.phase
    PROVE  Sound(h)
BY AlikeSound DEF Like, Same

\* One round of _run_due_until keeps a cycle sound.
LEMMA TurnedIs ==
    ASSUME NEW k, Sound(k), NEW b \in Venues, NEW target \in Int
    PROVE  Sound(Turned(k, b, target)) /\ Same(Turned(k, b, target), k)
<1>. DEFINE at == Greater(NextDue(k), k.cur)
            f == [k EXCEPT !.cur = at]
            h == Boundary(f, b, at)
<1>1. k \in Records BY DEF Sound
<1>2. at \in Nat BY <1>1, NextDueIs DEF Greater, Records
<1>3. Turned(k, b, target) = IF Settled(k, target) THEN k ELSE h BY DEF Turned
<1>. HIDE DEF at
<1>4. f \in Records /\ Like(f, k) /\ f.exit = k.exit /\ f.phase = k.phase BY <1>1, <1>2 DEF Records, Like, Same
<1>. HIDE DEF f
<1>5. Sound(f) /\ Same(f, k) BY <1>4, LikeSound DEF Like
<1>6. ~Settled(k, target) => Sound(h) /\ Same(h, f) BY <1>4, <1>2, <1>5, BoundaryIs DEF Settled, IsOver
<1>7. ASSUME NEW y, Same(y, f) PROVE Same(y, k) BY <1>5, <1>7 DEF Same
<1>8. Same(k, k) BY DEF Same
<1>. HIDE DEF h
<1>. QED BY <1>3, <1>6, <1>7, <1>8

\* g holds what is left after each of the first n boundaries.
TurnsOf(k, b, target, g, n) ==
    g = [i \in 0..n |-> IF i = 0 THEN k ELSE Turned(g[i - 1], b, target)]

\* The cycle after each of the first m rounds, as a function.
LEMMA TurnsExist ==
    ASSUME NEW k, NEW b, NEW target, NEW m \in Nat
    PROVE  \E g : TurnsOf(k, b, target, g, m)
<1>. DEFINE T == {n \in Nat : ~\E g : TurnsOf(k, b, target, g, n)}
<1>1. SUFFICES ASSUME T # {} PROVE FALSE OBVIOUS
<1>2. PICK n \in T : n = 0 \/ (n - 1 \in Nat /\ n - 1 \notin T) BY <1>1, Least
<1>3. CASE n = 0
    <2>1. TurnsOf(k, b, target, [i \in 0..0 |-> k], 0) BY DEF TurnsOf
    <2>. QED BY <1>3, <2>1
<1>4. CASE n # 0
    <2>1. n - 1 \in Nat /\ n \in Nat BY <1>2, <1>4
    <2>2. PICK g : TurnsOf(k, b, target, g, n - 1) BY <1>2, <1>4, <2>1
    <2>. DEFINE last == Turned(g[n - 1], b, target)
                h == [i \in 0..n |-> IF i = n THEN last ELSE g[i]]
    <2>. HIDE DEF last
    <2>3. h[n] = last /\ \A i \in 0..(n - 1) : h[i] = g[i] BY <2>1
    <2>4. ASSUME NEW i \in 0..n
          PROVE  h[i] = IF i = 0 THEN k ELSE Turned(h[i - 1], b, target)
        <3>1. CASE i = n BY <2>1, <2>3, <1>4, <3>1 DEF last
        <3>2. CASE i # n BY <2>1, <3>2, <2>2, <2>3 DEF TurnsOf
        <3>. QED BY <3>1, <3>2
    <2>5. h = [i \in 0..n |-> h[i]] OBVIOUS
    <2>. HIDE DEF h
    <2>6. TurnsOf(k, b, target, h, n) BY <2>4, <2>5 DEF TurnsOf
    <2>. QED BY <1>2, <2>6
<1>. QED BY <1>3, <1>4

\* The boundaries up to an instant keep what is so of a cycle.
LEMMA RunUntilIs ==
    ASSUME NEW k, Sound(k), NEW b \in Venues, NEW target \in Int
    PROVE  Sound(RunUntil(k, b, target)) /\ Same(RunUntil(k, b, target), k)
<1>. DEFINE g == CHOOSE g : TurnsOf(k, b, target, g, Rounds)
            h == g[Rounds]
            x == [h EXCEPT !.cur = Greater(@, target)]
            y == [k EXCEPT !.spins = TRUE]
            P(i) == Sound(g[i]) /\ Same(g[i], k)
            T == {i \in 0..Rounds : ~P(i)}
<1>1. Rounds \in Nat BY CycleAssumption
<1>2. TurnsOf(k, b, target, g, Rounds) BY <1>1, TurnsExist
<1>3. RunUntil(k, b, target) \in {k, x, y} BY DEF RunUntil, TurnsOf
<1>4. \A i \in 0..Rounds : g[i] = IF i = 0 THEN k ELSE Turned(g[i - 1], b, target) BY <1>2 DEF TurnsOf
<1>. HIDE DEF g
<1>5. P(0) BY <1>1, <1>4 DEF Same
<1>6. ASSUME NEW i \in 1..Rounds, P(i - 1) PROVE P(i)
    <2>. DEFINE f == g[i - 1]
    <2>1. Sound(f) /\ Same(f, k) /\ g[i] = Turned(f, b, target) BY <1>1, <1>4, <1>6
    <2>. HIDE DEF f
    <2>2. Sound(g[i]) /\ Same(g[i], f) BY <2>1, TurnedIs
    <2>. QED BY <2>1, <2>2 DEF Same
<1>7. P(Rounds)
    <2>1. Rounds \in 0..Rounds BY <1>1
    <2>2. T = {}
        <3>1. SUFFICES ASSUME T # {} PROVE FALSE OBVIOUS
        <3>2. T \subseteq Nat BY <1>1
        <3>3. PICK i \in T : i = 0 \/ (i - 1 \in Nat /\ i - 1 \notin T) BY <3>1, <3>2, Least
        <3>4. i # 0 /\ ~P(i) /\ i \in 0..Rounds BY <3>3, <1>5
        <3>5. P(i - 1) /\ i \in 1..Rounds BY <3>3, <3>4, <1>1
        <3>. QED BY <1>6, <3>4, <3>5
    <2>. HIDE DEF P
    <2>. QED BY <2>1, <2>2
<1>8. Sound(h) /\ Same(h, k) BY <1>7
<1>. HIDE DEF h, P, T
<1>9. Sound(x) /\ Same(x, k)
    <2>. DEFINE c == Greater(h.cur, target)
                z == [h EXCEPT !.cur = c]
    <2>1. h \in Records BY <1>8 DEF Sound
    <2>2. c \in Nat
        <3>1. h.cur \in Nat BY <2>1 DEF Records
        <3>. QED BY <3>1 DEF Greater
    <2>3. x = z OBVIOUS
    <2>. HIDE DEF x, c
    <2>4. z \in Records /\ Like(z, h) /\ z.exit = h.exit /\ z.phase = h.phase BY <2>1, <2>2 DEF Records, Like, Same
    <2>. HIDE DEF z
    <2>5. Sound(z) /\ Same(z, h) BY <1>8, <2>4, LikeSound DEF Like
    <2>. QED BY <1>8, <2>3, <2>5 DEF Same
<1>10. Sound(y) /\ Same(y, k)
    <2>1. y \in Records /\ Like(y, k) /\ y.exit = k.exit /\ y.phase = k.phase BY DEF Sound, Records, Like, Same
    <2>. HIDE DEF y
    <2>. QED BY <2>1, LikeSound DEF Like
<1>11. Same(k, k) BY DEF Same
<1>. HIDE DEF x, y
<1>. QED BY <1>3, <1>9, <1>10, <1>11

\* What a trade may make of a cycle.
Filled(h, k, t) ==
    /\ Sound(h) /\ h.seen = k.seen
    /\ h.fills \subseteq k.fills \cup {t.id}
    /\ (~t.whole => h.fills = k.fills)

\* A fill of the entry, before its phase is told.
LEMMA EntryFillIs ==
    ASSUME NEW k, Sound(k), k.phase \in Entering, NEW t \in Trades, t.whole, NEW ready \in Nat
    PROVE  Filled(EntryFill(k, t, ready), k, t)
<1>. DEFINE n == Lesser(t.n, k.rem)
            o == k.obs + n
            m == k.rem - n
            r == k.risex - n
            hold == IF k.hold = Unset THEN t.at + MaxHold ELSE k.hold
            creq == IF k.rem > n /\ k.creq = Unset THEN ready ELSE k.creq
            fills == k.fills \cup {t.id}
            due == Greater(ready, k.cur) + Lag
            f == [k EXCEPT !.obs = o, !.rem = m, !.risex = r, !.fills = fills, !.hold = hold,
                           !.creq = creq]
            a == [f EXCEPT !.hdue = due, !.phase = "ENTRY_HEDGE_WAIT"]
            b == [f EXCEPT !.phase = "ENTRY_HEDGE_WAIT"]
            c == [f EXCEPT !.phase = "ENTRY_ACTIVE"]
            e == EntryFill(k, t, ready)
<1>1. k \in Records /\ Unhedged(k) BY DEF Sound
<1>2. t.n \in Nat /\ t.id \in Nat /\ t.at \in Nat BY DEF Trades
<1>3. k.rem \in Nat /\ k.obs \in Nat /\ k.risex \in Int /\ k.hold \in Nat /\ k.creq \in Nat
      /\ k.cur \in Nat /\ k.fills \subseteq Nat
  BY <1>1 DEF Records
<1>4. n \in Nat /\ n <= k.rem BY <1>2, <1>3 DEF Lesser
<1>5. k.risex = -k.obs BY <1>1 DEF Unhedged
<1>. HIDE DEF n
<1>6. o \in Nat /\ m \in Nat /\ r \in Int /\ r = -o BY <1>3, <1>4, <1>5
<1>7. hold \in Nat /\ creq \in Nat /\ due \in Nat BY CycleAssumption, <1>2, <1>3 DEF Greater
<1>8. fills \subseteq Nat BY <1>2, <1>3
<1>9. e \in {a, b, c} BY DEF EntryFill, n
<1>. HIDE DEF e, o, m, r, hold, creq, due, fills
<1>10. f \in Records BY <1>1, <1>6, <1>7, <1>8 DEF Records
<1>11. /\ f.acts = k.acts /\ f.exit = k.exit /\ f.pairR = k.pairR /\ f.pairL = k.pairL
       /\ f.unm = k.unm /\ f.lighter = k.lighter /\ f.risex = r /\ f.obs = o
       /\ f.fills = fills /\ f.seen = k.seen
  BY <1>1 DEF Records
<1>. HIDE DEF f
<1>12. Unhedged(f) BY <1>6, <1>11, <1>1 DEF Unhedged
<1>13. ASSUME NEW x \in Records, Like(x, f), x.exit = f.exit,
              x.phase \in {"ENTRY_ACTIVE", "ENTRY_HEDGE_WAIT"}
       PROVE  Filled(x, k, t)
  BY <1>12, <1>13, LikeIs, EarlySound, <1>11 DEF Like, Same, Filled, fills
<1>14. {"ENTRY_ACTIVE", "ENTRY_HEDGE_WAIT"} \subseteq Phases BY DEF Phases, Entering
<1>15. a \in Records /\ Like(a, f) /\ a.exit = f.exit /\ a.phase = "ENTRY_HEDGE_WAIT"
  BY <1>7, <1>10, <1>14 DEF Records, Like, Same
<1>16. b \in Records /\ Like(b, f) /\ b.exit = f.exit /\ b.phase = "ENTRY_HEDGE_WAIT"
  BY <1>10, <1>14 DEF Records, Like, Same
<1>17. c \in Records /\ Like(c, f) /\ c.exit = f.exit /\ c.phase = "ENTRY_ACTIVE"
  BY <1>10, <1>14 DEF Records, Like, Same
<1>. HIDE DEF a, b, c
<1>18. Filled(a, k, t) /\ Filled(b, k, t) /\ Filled(c, k, t) BY <1>13, <1>15, <1>16, <1>17
<1>19. Filled(e, k, t) BY <1>9, <1>18
<1>. QED BY <1>19 DEF e

\* A fill of the exit queues its close.
LEMMA ExitFillIs ==
    ASSUME NEW k, Sound(k), k.phase \in Exiting, NEW t \in Trades, t.whole, NEW ready \in Nat
    PROVE  Filled(ExitFill(k, t, ready), k, t)
<1>. DEFINE n == Lesser(t.n, Lesser(k.exit.rem, k.pairR))
            left == k.exit.rem - n
            q == [k.exit EXCEPT !.rem = left]
            p == k.pairR - n
            r == k.risex + n
            fills == k.fills \cup {t.id}
            f == [k EXCEPT !.exit = q, !.pairR = p, !.risex = r, !.fills = fills]
            h == Schedule(f, "close", n, ready)
            x == [h.exit EXCEPT !.creq = ready]
            a == [h EXCEPT !.phase = "CLOSE_WAIT"]
            b == [h EXCEPT !.exit = x, !.phase = "EXIT_CANCEL_WAIT"]
            e == ExitFill(k, t, ready)
<1>1. k \in Records /\ Paired(k) /\ k.unm = 0 /\ k.phase \in Later BY DEF Sound, Later, Exiting
<1>2. t.n \in Nat /\ t.id \in Nat BY DEF Trades
<1>3. k.pairR \in Nat /\ k.risex \in Int /\ k.fills \subseteq Nat /\ k.exit \in Quotes BY <1>1 DEF Records
<1>4. k.exit.rem \in Nat BY <1>3 DEF Quotes
<1>5. n \in Nat /\ n <= k.pairR /\ n <= k.exit.rem BY <1>2, <1>3, <1>4 DEF Lesser
<1>6. e \in {k, a, b, h} BY DEF ExitFill
<1>. HIDE DEF e, h
<1>. HIDE DEF n
<1>7. left \in Nat /\ p \in Nat /\ r \in Int /\ fills \subseteq Nat BY <1>2, <1>3, <1>4, <1>5
<1>8. r = -(p + k.unm) BY <1>1, <1>3, <1>5 DEF Paired, Owes
<1>9. q \in Quotes
    <2>. HIDE DEF left
    <2>. QED BY <1>3, <1>7 DEF Quotes
<1>. HIDE DEF left, q, p, r, fills
<1>10. f \in Records BY <1>1, <1>7, <1>9 DEF Records
<1>11. /\ f.acts = k.acts /\ f.pairR = p /\ f.pairL = k.pairL /\ f.phase = k.phase
       /\ f.unm = k.unm /\ f.lighter = k.lighter /\ f.risex = r
       /\ f.fills = fills /\ f.seen = k.seen
  BY <1>1 DEF Records
<1>12. h = Schedule(f, "close", n, ready) BY DEF h
<1>. HIDE DEF f
<1>13. Paired(f) /\ f.unm = 0 BY <1>11, <1>1, <1>8 DEF Open, Ever, Paired, Owes
<1>14. Queued(h, f, "close") BY <1>5, <1>10, <1>12, <1>13, QueuedIs DEF Kinds
<1>15. /\ h \in Records /\ Paired(h) /\ h.unm = 0 /\ h.phase \in Later
       /\ h.fills = fills /\ h.seen = k.seen
  BY <1>1, <1>11, <1>13, <1>14 DEF Queued, Same
<1>16. h.exit \in Quotes BY <1>15 DEF Records
<1>17. x \in Quotes BY <1>16, Zenon DEF Quotes
<1>. HIDE DEF x
<1>18. Sound(h) BY <1>15, LaterSound
<1>19. Sound(b) /\ Same(b, h) BY <1>15, <1>17, ExitChanged DEF Later
<1>20. Sound(a) /\ Same(a, h)
    <2>1. a \in Records /\ Like(a, h) /\ a.phase = "CLOSE_WAIT" BY <1>15, PhaseIs DEF Phases
    <2>. HIDE DEF a
    <2>2. Paired(a) BY <1>15, <2>1, LikeIs
    <2>3. a.unm = 0 /\ Same(a, h) BY <1>15, <2>1 DEF Like
    <2>. QED BY <2>1, <2>2, <2>3, LaterSound DEF Later
<1>. HIDE DEF a, b
<1>21. ASSUME NEW y, Sound(y), Same(y, h) PROVE Filled(y, k, t) BY <1>15, <1>21 DEF Same, Filled, fills
<1>22. Same(h, h) BY DEF Same
<1>23. Filled(k, k, t) BY DEF Filled
<1>24. Filled(e, k, t) BY <1>6, <1>18, <1>19, <1>20, <1>21, <1>22, <1>23
<1>. QED BY <1>24 DEF e

\* _handle_trade keeps a cycle sound, and its fills are trades it has seen.
LEMMA HandleTradeIs ==
    ASSUME NEW k, Sound(k), NEW t \in Trades, NEW ready \in Nat
    PROVE  Filled(HandleTrade(k, t, ready), k, t)
<1>1. Filled(k, k, t) BY DEF Filled
<1>2. Filled(Halt(k), k, t) BY SoundHalt DEF Filled, Same
<1>3. ASSUME NEW h, Filled(h, k, t) PROVE Filled(Touched(k, h), k, t) BY <1>1, <1>2, <1>3 DEF Touched
<1>4. ASSUME t.whole, k.phase \in Entering PROVE Filled(OnEntry(k, t, ready), k, t)
    <2>1. Filled(EntryFill(k, t, ready), k, t) BY <1>4, EntryFillIs
    <2>. DEFINE h == IF k.rem = 0 THEN k ELSE EntryFill(k, t, ready)
    <2>2. Filled(h, k, t) BY <1>1, <2>1
    <2>. HIDE DEF h
    <2>3. OnEntry(k, t, ready) \in {k, Touched(k, h), h} BY DEF OnEntry, h
    <2>. QED BY <1>1, <1>3, <2>2, <2>3
<1>5. ASSUME t.whole, k.phase \in Exiting PROVE Filled(OnExit(k, t, ready), k, t)
    <2>1. Filled(ExitFill(k, t, ready), k, t) BY <1>5, ExitFillIs
    <2>. DEFINE h == IF k.exit.rem = 0 THEN k ELSE ExitFill(k, t, ready)
    <2>2. Filled(h, k, t) BY <1>1, <2>1
    <2>. HIDE DEF h
    <2>3. OnExit(k, t, ready) \in {k, Touched(k, h), h} BY DEF OnExit, h
    <2>. QED BY <1>1, <1>3, <2>2, <2>3
<1>. QED BY <1>1, <1>2, <1>4, <1>5 DEF HandleTrade

-----------------------------------------------------------------------------
(* The lane.                                                               *)

\* Every fill is of a trade that the cycle has seen.
Proper(k) == \A f \in k.fills : \E s \in k.seen : s.id = f

Lanes ==
    [active : Records \cup {NoCycle}, kept : Seq(Records), halted : BOOLEAN,
     lastTerminal : Nat, lastDecision : Int]

Apart(k, ln) == \A i \in 1..Len(ln.kept) : k.fills \cap ln.kept[i].fills = {}

\* What is so of the cycles that ended.
KeptIs(ln) ==
    /\ ln \in Lanes
    /\ \A i \in 1..Len(ln.kept) :
          /\ Sound(ln.kept[i]) /\ IsOver(ln.kept[i]) /\ Proper(ln.kept[i])
          /\ Unresolved(ln.kept[i]) => ln.halted /\ Unresolved(ln.kept[Len(ln.kept)])
          /\ \A j \in 1..Len(ln.kept) : i # j => ln.kept[i].fills \cap ln.kept[j].fills = {}

\* And of the one that runs.
LaneIs(ln) ==
    /\ KeptIs(ln)
    /\ ln.active # NoCycle =>
          /\ ~ln.halted /\ Sound(ln.active) /\ ~IsOver(ln.active)
          /\ Proper(ln.active) /\ Apart(ln.active, ln)

\* _latch_terminal keeps what is so of the lane.
LEMMA LatchedIs ==
    ASSUME NEW ln, KeptIs(ln), NEW k, Sound(k), Proper(k), Apart(k, ln),
           ln.halted => Unresolved(k)
    PROVE  LaneIs(Latched(ln, k))
<1>1. k \in Records /\ ln \in Lanes BY DEF Sound, KeptIs
<1>2. ln.kept \in Seq(Records) /\ Len(ln.kept) \in Nat /\ ln.halted \in BOOLEAN BY <1>1 DEF Lanes
<1>3. CASE ~IsOver(k)
    <2>. DEFINE x == [ln EXCEPT !.active = k]
    <2>1. Latched(ln, k) = x BY <1>3 DEF Latched
    <2>2. x \in Lanes /\ x.active = k /\ x.kept = ln.kept /\ x.halted = ln.halted BY <1>1 DEF Lanes
    <2>3. ~ln.halted BY <1>3 DEF IsOver, Unresolved, Ended
    <2>. HIDE DEF x
    <2>4. KeptIs(x) BY <2>2 DEF KeptIs
    <2>5. Apart(x.active, x) BY <2>2 DEF Apart
    <2>6. LaneIs(x) BY <1>3, <2>2, <2>3, <2>4, <2>5 DEF LaneIs
    <2>. QED BY <2>1, <2>6
<1>4. CASE IsOver(k)
    <2>. DEFINE m == Len(ln.kept) + 1
                kept == Append(ln.kept, k)
                doubt == ln.halted \/ Unresolved(k) \/ ~PositionsZero(k)
                at == k.ended
                x == [ln EXCEPT !.active = NoCycle, !.kept = kept, !.lastTerminal = at, !.halted = doubt]
    <2>1. Latched(ln, k) = x BY <1>4 DEF Latched
    <2>2. /\ kept \in Seq(Records) /\ Len(kept) = m /\ kept[m] = k
          /\ \A i \in 1..Len(ln.kept) : kept[i] = ln.kept[i]
      BY <1>1, <1>2
    <2>3. at \in Nat /\ doubt \in BOOLEAN BY <1>1 DEF Records
    <2>4. (ln.halted => doubt) /\ (Unresolved(k) => doubt) OBVIOUS
    <2>. HIDE DEF kept, at, doubt
    <2>5. x \in Lanes /\ x.active = NoCycle /\ x.kept = kept /\ x.halted = doubt BY <1>1, <2>2, <2>3 DEF Lanes
    <2>6. 1..Len(kept) = 1..Len(ln.kept) \cup {m} BY <1>2, <2>2
    <2>. HIDE DEF x
    <2>7. ASSUME NEW i \in 1..Len(x.kept)
          PROVE  /\ Sound(x.kept[i]) /\ IsOver(x.kept[i]) /\ Proper(x.kept[i])
                 /\ Unresolved(x.kept[i]) => x.halted /\ Unresolved(x.kept[Len(x.kept)])
        <3>1. CASE i = m BY <1>4, <2>2, <2>4, <2>5, <3>1
        <3>2. CASE i \in 1..Len(ln.kept) BY <3>2, <2>2, <2>5, <2>4 DEF KeptIs
        <3>. QED BY <2>5, <2>6, <3>1, <3>2
    <2>8. ASSUME NEW i \in 1..Len(x.kept), NEW j \in 1..Len(x.kept), i # j
          PROVE  x.kept[i].fills \cap x.kept[j].fills = {}
        <3>1. CASE i = m BY <2>5, <2>6, <2>8, <3>1, <2>2 DEF Apart
        <3>2. CASE j = m
            <4>1. i \in 1..Len(ln.kept) BY <2>5, <2>6, <2>8, <3>2
            <4>. QED BY <2>2, <2>5, <3>2, <4>1 DEF Apart
        <3>3. CASE i # m /\ j # m BY <2>5, <2>6, <3>3, <2>8, <2>2 DEF KeptIs
        <3>. QED BY <3>1, <3>2, <3>3
    <2>9. KeptIs(x) BY <2>5, <2>7, <2>8 DEF KeptIs
    <2>10. LaneIs(x) BY <2>5, <2>9 DEF LaneIs
    <2>. QED BY <2>1, <2>10
<1>. QED BY <1>3, <1>4

\* A cycle in doubt, in its own words or by what is found later.
LEMMA HaltProper ==
    ASSUME NEW k, Sound(k), Proper(k)
    PROVE  /\ Sound(Halt(k)) /\ Proper(Halt(k)) /\ Unresolved(Halt(k)) /\ IsOver(Halt(k))
           /\ Halt(k).fills = k.fills
BY HaltedIs, SoundHalt DEF Sound, Proper, Same, Unresolved, IsOver, Ended

\* A cycle that ended is confirmed or halted by a late trade, nothing else.
LEMMA AuditedIs ==
    ASSUME NEW k, Sound(k), IsOver(k), Proper(k), NEW t \in Trades
    PROVE  LET h == Audited(k, t)
           IN  /\ Sound(h) /\ IsOver(h) /\ Proper(h) /\ h.fills = k.fills
               /\ Unresolved(k) => Unresolved(h)
<1>. DEFINE seen == IF t.whole THEN k.seen \cup {t} ELSE k.seen
            f == [k EXCEPT !.seen = seen]
<1>1. k \in Records BY DEF Sound
<1>2. seen \subseteq Trades /\ k.seen \subseteq seen BY <1>1 DEF Records
<1>3. Audited(k, t) \in {k, Halt(k), Halt(f)} BY DEF Audited
<1>. HIDE DEF seen
<1>4. /\ f \in Records /\ f.fills = k.fills /\ f.seen = seen /\ f.acts = k.acts
      /\ f.risex = k.risex /\ f.obs = k.obs /\ f.lighter = k.lighter
  BY <1>1, <1>2 DEF Records
<1>. HIDE DEF f
<1>5. Grounded(f) BY <1>4, SoundGrounded DEF Grounded, Ever
<1>6. Sound(Halt(f)) /\ Same(Halt(f), f) /\ Unresolved(Halt(f)) BY <1>4, <1>5, HaltSound
<1>7. Proper(Halt(f)) /\ Halt(f).fills = k.fills /\ IsOver(Halt(f))
  BY <1>2, <1>4, <1>6 DEF Proper, Same, Unresolved, IsOver, Ended
<1>8. /\ Sound(Halt(k)) /\ Proper(Halt(k)) /\ Unresolved(Halt(k)) /\ IsOver(Halt(k))
      /\ Halt(k).fills = k.fills
  BY HaltProper
<1>. QED BY <1>3, <1>6, <1>7, <1>8

\* A function on 1..n is a sequence.
LEMMA SeqOf ==
    ASSUME NEW n \in Nat, NEW S, NEW f, f = [i \in 1..n |-> f[i]], \A i \in 1..n : f[i] \in S
    PROVE  f \in Seq(S) /\ Len(f) = n
<1>1. f \in [1..n -> S] OBVIOUS
<1>. QED BY <1>1

\* A cycle in doubt is sound.
LEMMA DoubtSound ==
    ASSUME NEW k \in Records, Grounded(k), NEW h \in Records, Like(h, k), h.phase = "UNRESOLVED"
    PROVE  Sound(h)
BY LikeIs DEF Like, Same, Grounded, Sound, Entering, Later

\* The audit of the cycles that ended changes what is known of them, never
\* what they filled.
LEMMA AuditIs ==
    ASSUME LaneIs(lane), NEW t \in Trades
    PROVE  LET ln == Audit(t)
           IN  /\ KeptIs(ln) /\ ln.active = lane.active /\ Len(ln.kept) = Len(lane.kept)
               /\ \A i \in 1..Len(lane.kept) : ln.kept[i].fills = lane.kept[i].fills
               /\ ~ln.halted => ~lane.halted
<1>. DEFINE n == Len(lane.kept)
            after == [i \in 1..n |-> IF i \in Matching(t) THEN Audited(lane.kept[i], t) ELSE lane.kept[i]]
            bad == \E i \in Matching(t) : Unresolved(after[i])
            latest == [after[n] EXCEPT !.phase = "UNRESOLVED"]
            last == [after EXCEPT ![n] = latest]
            x == [lane EXCEPT !.kept = last, !.halted = TRUE]
            y == [lane EXCEPT !.kept = after]
            Good(s) == /\ s \in Seq(Records) /\ Len(s) = n
                       /\ \A i \in 1..n : /\ Sound(s[i]) /\ IsOver(s[i]) /\ Proper(s[i])
                                          /\ s[i].fills = lane.kept[i].fills
<1>1. KeptIs(lane) /\ lane \in Lanes BY DEF LaneIs, KeptIs
<1>2. n \in Nat /\ lane.kept \in Seq(Records) BY <1>1 DEF Lanes
<1>3. Matching(t) \subseteq 1..n BY DEF Matching
<1>4. ASSUME NEW i \in 1..n
      PROVE  /\ Sound(lane.kept[i]) /\ IsOver(lane.kept[i]) /\ Proper(lane.kept[i])
             /\ Unresolved(lane.kept[i]) => lane.halted /\ Unresolved(lane.kept[n])
             /\ \A j \in 1..n : i # j => lane.kept[i].fills \cap lane.kept[j].fills = {}
  BY <1>1 DEF KeptIs
<1>5. ASSUME NEW i \in 1..n
      PROVE  /\ Sound(after[i]) /\ IsOver(after[i]) /\ Proper(after[i])
             /\ after[i].fills = lane.kept[i].fills
             /\ Unresolved(lane.kept[i]) => Unresolved(after[i])
             /\ i \notin Matching(t) => after[i] = lane.kept[i]
    <2>1. after[i] \in {lane.kept[i], Audited(lane.kept[i], t)} OBVIOUS
    <2>. HIDE DEF after
    <2>. QED BY <1>4, <2>1, AuditedIs DEF after
<1>6. Good(after)
    <2>1. after = [i \in 1..n |-> after[i]] OBVIOUS
    <2>2. \A i \in 1..n : after[i] \in Records BY <1>5 DEF Sound
    <2>. HIDE DEF after
    <2>3. after \in Seq(Records) /\ Len(after) = n BY <1>2, <2>1, <2>2, SeqOf
    <2>. QED BY <1>5, <2>3
<1>7. Audit(t) = IF bad THEN x ELSE y
    <2>1. Len(after) = n BY <1>6
    <2>. QED BY <2>1 DEF Audit
<1>. HIDE DEF after
<1>8. CASE bad
    <2>1. n \in 1..n BY <1>2, <1>3, <1>8
    <2>2. after[n] \in Records /\ Grounded(after[n]) /\ Proper(after[n]) BY <1>5, <2>1, SoundGrounded DEF Sound
    <2>3. "UNRESOLVED" \in Phases BY DEF Phases, Ended
    <2>4. latest \in Records /\ Like(latest, after[n]) /\ latest.phase = "UNRESOLVED" BY <2>2, <2>3, PhaseIs
    <2>. HIDE DEF latest
    <2>5. /\ Sound(latest) /\ IsOver(latest) /\ Proper(latest) /\ Unresolved(latest)
          /\ latest.fills = lane.kept[n].fills
      BY <2>2, <2>4, DoubtSound, <1>5, <2>1 DEF Proper, Like, Same, IsOver, Unresolved, Ended
    <2>6. /\ last \in Seq(Records) /\ Len(last) = n /\ last[n] = latest
          /\ \A i \in 1..n : i # n => last[i] = after[i]
      BY <1>6, <2>1, <2>4
    <2>. HIDE DEF last
    <2>7. Good(last) BY <1>6, <2>5, <2>6
    <2>8. x \in Lanes /\ x.kept = last /\ x.halted = TRUE /\ x.active = lane.active BY <1>1, <2>6 DEF Lanes
    <2>. HIDE DEF x
    <2>9. ASSUME NEW i \in 1..n, NEW j \in 1..n, i # j
          PROVE  last[i].fills \cap last[j].fills = {}
      BY <1>4, <2>7, <2>9
    <2>10. KeptIs(x) BY <2>5, <2>6, <2>7, <2>8, <2>9 DEF KeptIs
    <2>. HIDE DEF bad
    <2>. QED BY <1>7, <1>8, <2>7, <2>8, <2>10
<1>9. CASE ~bad
    <2>1. y \in Lanes /\ y.kept = after /\ y.halted = lane.halted /\ y.active = lane.active BY <1>1, <1>6 DEF Lanes
    <2>2. ASSUME NEW i \in 1..n, NEW j \in 1..n, i # j
          PROVE  after[i].fills \cap after[j].fills = {}
      BY <1>4, <1>5, <2>2
    <2>3. ASSUME NEW i \in 1..n, Unresolved(after[i])
          PROVE  lane.halted /\ Unresolved(after[n])
      BY <1>9, <2>3, <1>5, <1>2, <1>4
    <2>. HIDE DEF y, bad
    <2>4. KeptIs(y) BY <1>6, <2>1, <2>2, <2>3 DEF KeptIs
    <2>. QED BY <1>6, <1>7, <1>9, <2>1, <2>4
<1>. QED BY <1>8, <1>9

\* A trade taken by the cycle that runs is a fill of it only as one seen.
LEMMA AcceptTradeIs ==
    ASSUME NEW k, Sound(k), Proper(k), NEW t \in Trades, NEW b \in Venues, now \in Nat
    PROVE  LET h == AcceptTrade(k, t, b)
           IN  /\ Sound(h) /\ Proper(h)
               /\ h.fills \subseteq k.fills \cup {t.id}
               /\ ~t.whole => h.fills = k.fills
<1>. DEFINE seen == IF t.whole THEN k.seen \cup {t} ELSE k.seen
            at == t.at
            f == [k EXCEPT !.seen = seen, !.lastAt = at]
            f1 == RunUntil(f, b, t.at)
            f2 == HandleTrade(f1, t, now)
            f3 == RunUntil(f2, b, now)
            h == AcceptTrade(k, t, b)
<1>1. k \in Records BY DEF Sound
<1>2. at \in Nat /\ t.at \in Int /\ now \in Int BY DEF Trades
<1>3. seen \subseteq Trades /\ k.seen \subseteq seen /\ (t.whole => t \in seen) BY <1>1 DEF Records
<1>4. h = IF t.at < k.lastAt THEN Halt(k) ELSE f3 BY DEF AcceptTrade
<1>. HIDE DEF h, f3, seen, at
<1>5. f \in Records /\ f.seen = seen /\ f.fills = k.fills /\ f.phase = k.phase /\ f.exit = k.exit
      /\ f.acts = k.acts /\ f.pairR = k.pairR /\ f.pairL = k.pairL /\ f.unm = k.unm
      /\ f.risex = k.risex /\ f.lighter = k.lighter /\ f.obs = k.obs
  BY <1>1, <1>2, <1>3 DEF Records
<1>. HIDE DEF f, f1, f2
<1>6. Sound(f) BY <1>5, AlikeSound
<1>7. Sound(f1) /\ Same(f1, f) BY <1>2, <1>6, RunUntilIs DEF f1
<1>8. Filled(f2, f1, t) BY <1>7, HandleTradeIs DEF f2
<1>9. Sound(f3) /\ Same(f3, f2) BY <1>2, <1>8, RunUntilIs DEF f3, Filled
<1>10. /\ f3.seen = seen /\ f3.fills \subseteq k.fills \cup {t.id}
       /\ ~t.whole => f3.fills = k.fills
  BY <1>5, <1>7, <1>8, <1>9 DEF Same, Filled
<1>11. Proper(f3) BY <1>3, <1>10 DEF Proper
<1>12. Sound(Halt(k)) /\ Proper(Halt(k)) /\ Halt(k).fills = k.fills BY HaltProper
<1>13. /\ Sound(h) /\ Proper(h) /\ h.fills \subseteq k.fills \cup {t.id}
       /\ ~t.whole => h.fills = k.fills
  BY <1>4, <1>9, <1>10, <1>11, <1>12
<1>. QED BY <1>13 DEF h

\* advance keeps what is so of the lane.
LEMMA AdvanceIs ==
    ASSUME LaneIs(lane), NEW t \in Trades, venue \in Venues, now \in Nat
    PROVE  LaneIs(Advance(t))
<1>. DEFINE ln == Audit(t)
            k == lane.active
            n == Len(lane.kept)
            h == AcceptTrade(k, t, venue)
            x == Advance(t)
<1>1. /\ KeptIs(ln) /\ ln.active = k /\ Len(ln.kept) = n
      /\ \A i \in 1..n : ln.kept[i].fills = lane.kept[i].fills
      /\ ~ln.halted => ~lane.halted
  BY AuditIs
<1>2. x = IF k = NoCycle THEN ln
          ELSE IF ln.halted THEN Latched(ln, Halt(k))
          ELSE IF \E i \in Matching(t) : Known(lane.kept[i], t) THEN ln
          ELSE IF Known(k, t) THEN IF t \in k.seen THEN ln ELSE Latched(ln, Halt(k))
          ELSE Latched(ln, h)
  BY DEF Advance
<1>. HIDE DEF ln, h, x
<1>3. CASE k = NoCycle BY <1>1, <1>2, <1>3 DEF LaneIs, x
<1>4. CASE k # NoCycle
    <2>1. ~lane.halted /\ Sound(k) /\ ~IsOver(k) /\ Proper(k) /\ Apart(k, lane) BY <1>4 DEF LaneIs
    <2>. HIDE DEF k
    <2>2. Apart(k, ln) BY <1>1, <2>1 DEF Apart
    <2>3. ~ln.halted => LaneIs(ln) BY <1>1, <2>1, <2>2 DEF LaneIs
    <2>4. LaneIs(Latched(ln, Halt(k))) BY <2>1, HaltProper, <2>2, <1>1, LatchedIs DEF Apart
    <2>5. ASSUME ~ln.halted, ~\E i \in Matching(t) : Known(lane.kept[i], t), ~Known(k, t)
          PROVE  LaneIs(Latched(ln, h))
        <3>1. /\ Sound(h) /\ Proper(h)
              /\ h.fills \subseteq k.fills \cup {t.id}
              /\ ~t.whole => h.fills = k.fills
          BY <2>1, AcceptTradeIs DEF h
        <3>2. ASSUME NEW i \in 1..n PROVE h.fills \cap ln.kept[i].fills = {}
            <4>1. k.fills \cap ln.kept[i].fills = {} BY <1>1, <2>2 DEF Apart
            <4>2. ASSUME t.whole PROVE t.id \notin ln.kept[i].fills
                <5>1. ~Unresolved(lane.kept[i]) /\ Proper(lane.kept[i]) BY <2>1 DEF LaneIs, KeptIs
                <5>2. ~Known(lane.kept[i], t) BY <2>5, <5>1 DEF Matching
                <5>3. t.id \notin lane.kept[i].fills BY <4>2, <5>1, <5>2 DEF Known, Proper
                <5>. QED BY <1>1, <5>3
            <4>. QED BY <3>1, <4>1, <4>2
        <3>3. Apart(h, ln) BY <1>1, <3>2 DEF Apart
        <3>. QED BY <1>1, <2>5, <3>1, <3>3, LatchedIs
    <2>6. LaneIs(x) BY <1>2, <1>4, <2>3, <2>4, <2>5
    <2>. QED BY <2>6 DEF x
<1>. QED BY <1>3, <1>4

-----------------------------------------------------------------------------
(* The invariant.                                                          *)

FeedIs == venue \in Venues /\ now \in Nat /\ given \in Seq(Trades)

Inv == FeedIs /\ LaneIs(lane)

\* The invariant holds of an empty lane.
LEMMA CycleInit == ASSUME Init PROVE Inv
<1>1. Target \in Nat BY CycleAssumption
<1>2. venue \in Venues BY <1>1 DEF Init, Venues
<1>3. now \in Nat /\ given \in Seq(Trades) BY DEF Init
<1>4. lane \in Lanes /\ lane.kept = <<>> /\ lane.active = NoCycle BY DEF Init, Lanes
<1>5. LaneIs(lane) BY <1>4 DEF LaneIs, KeptIs
<1>. QED BY <1>2, <1>3, <1>5 DEF Inv, FeedIs

\* A cycle that is admitted is sound: it holds nothing.
LEMMA AdmittedIs ==
    ASSUME NEW at \in Nat
    PROVE  Sound(Admitted(at)) /\ Proper(Admitted(at)) /\ Admitted(at).fills = {}
           /\ ~IsOver(Admitted(at))
<1>. DEFINE act == at + Lag
            sched == at + Lag + CancelAfter
            rem == Target
            u == Unset
            z == 0
            x == NoExit
            none == <<>>
            k == [phase |-> "ENTRY_WAIT", obs |-> z, rem |-> rem, act |-> act,
                  sched |-> sched, creq |-> u, ceff |-> u, hdue |-> u,
                  hold |-> u, pairR |-> z, pairL |-> z, unm |-> z, exit |-> x, acts |-> none,
                  risex |-> z, lighter |-> z, fills |-> {}, seen |-> {}, lastAt |-> z,
                  noEntry |-> FALSE, noExit |-> FALSE, spins |-> FALSE, cur |-> at, ended |-> u]
<1>1. Admitted(at) = k BY DEF Admitted
<1>2. act \in Nat /\ sched \in Nat /\ rem \in Nat /\ z \in Nat /\ z \in Int BY CycleAssumption
<1>3. u \in Nat BY DEF Unset
<1>4. x \in Quotes BY <1>3 DEF NoExit, Quotes
<1>5. none \in Seq(Acts) OBVIOUS
<1>6. z = 0 /\ none = <<>> /\ x = NoExit OBVIOUS
<1>7. "ENTRY_WAIT" \in Phases BY DEF Phases, Entering
<1>. HIDE DEF act, sched, rem, u, z, x, none
<1>8. k \in Records BY <1>2, <1>3, <1>4, <1>5, <1>7 DEF Records
<1>9. /\ k.phase = "ENTRY_WAIT" /\ k.obs = z /\ k.exit = x /\ k.acts = none /\ k.pairR = z
      /\ k.pairL = z /\ k.unm = z /\ k.risex = z /\ k.lighter = z /\ k.fills = {}
    OBVIOUS
<1>. HIDE DEF k
<1>10. Unhedged(k)
    <2>1. k.risex = -k.obs
        <3>1. z = 0 - z BY <1>6
        <3>2. -k.obs = 0 - z BY <1>2, <1>9
        <3>. QED BY <1>9, <3>1, <3>2
    <2>. QED BY <1>6, <1>9, <2>1 DEF Unhedged
<1>11. Sound(k) BY <1>6, <1>8, <1>9, <1>10, EarlySound
<1>12. ~IsOver(k) /\ Proper(k) BY <1>9 DEF IsOver, Ended, Proper
<1>. QED BY <1>1, <1>9, <1>11, <1>12

\* A lane that stops keeps what it knows.
LEMMA HaltedLane ==
    ASSUME NEW ln, KeptIs(ln), ln.active = NoCycle
    PROVE  LaneIs([ln EXCEPT !.halted = TRUE])
<1>. DEFINE x == [ln EXCEPT !.halted = TRUE]
<1>1. x \in Lanes /\ x.kept = ln.kept /\ x.active = NoCycle /\ x.halted = TRUE BY DEF KeptIs, Lanes
<1>. HIDE DEF x
<1>2. KeptIs(x) BY <1>1 DEF KeptIs
<1>3. LaneIs(x) BY <1>1, <1>2 DEF LaneIs
<1>. QED BY <1>3 DEF x

\* admit keeps the invariant.
LEMMA AdmitIs == ASSUME Inv, Admit PROVE Inv'
<1>. DEFINE k == Admitted(now)
            at == now
            x == [lane EXCEPT !.active = k, !.lastDecision = at]
            y == [lane EXCEPT !.halted = TRUE]
<1>1. KeptIs(lane) /\ lane \in Lanes /\ lane.active = NoCycle /\ ~lane.halted /\ now \in Nat
  BY DEF Inv, FeedIs, LaneIs, KeptIs, Admit
<1>2. lane' \in {x, y} BY DEF Admit
<1>3. Sound(k) /\ Proper(k) /\ k.fills = {} /\ ~IsOver(k) BY <1>1, AdmittedIs
<1>. HIDE DEF k
<1>4. k \in Records /\ at \in Int BY <1>1, <1>3 DEF Sound
<1>. HIDE DEF at
<1>5. x \in Lanes /\ x.active = k /\ x.kept = lane.kept /\ x.halted = lane.halted BY <1>1, <1>4 DEF Lanes
<1>6. LaneIs(y) BY <1>1, HaltedLane
<1>. HIDE DEF x, y
<1>7. LaneIs(x) BY <1>1, <1>5, <1>3 DEF KeptIs, Apart, LaneIs
<1>8. LaneIs(lane') BY <1>2, <1>6, <1>7
<1>9. FeedIs' BY DEF Inv, FeedIs, Admit
<1>. QED BY <1>8, <1>9 DEF Inv

\* A new trade keeps the invariant.
LEMMA TradeIs == ASSUME Inv, Trade PROVE Inv'
<1>1. PICK side \in {"BUY", "SELL"}, n \in 1..Target, at \in {now, now - 1},
           touch \in BOOLEAN, whole \in BOOLEAN :
              LET t == [id |-> Len(given) + 1, side |-> side, n |-> n, at |-> at,
                        touch |-> touch, whole |-> whole]
              IN  /\ at >= 0 /\ lane' = Advance(t) /\ given' = Append(given, t)
  BY DEF Trade
<1>. DEFINE id == Len(given) + 1
            t == [id |-> id, side |-> side, n |-> n, at |-> at, touch |-> touch, whole |-> whole]
<1>2. given \in Seq(Trades) /\ now \in Nat /\ venue \in Venues /\ LaneIs(lane) BY DEF Inv, FeedIs
<1>3. id \in Nat /\ n \in Nat /\ at \in Nat BY CycleAssumption, <1>1, <1>2
<1>4. lane' = Advance(t) /\ given' = Append(given, t) BY <1>1
<1>. HIDE DEF id
<1>5. t \in Trades BY <1>3 DEF Trades, Sides
<1>. HIDE DEF t
<1>6. LaneIs(lane') BY <1>2, <1>4, <1>5, AdvanceIs
<1>7. given' \in Seq(Trades) BY <1>2, <1>4, <1>5
<1>8. venue' = venue /\ now' = now BY DEF Trade
<1>. QED BY <1>2, <1>6, <1>7, <1>8 DEF Inv, FeedIs

\* A trade that comes again keeps the invariant.
LEMMA RepeatIs == ASSUME Inv, Repeat PROVE Inv'
<1>1. PICK i \in 1..Len(given), n \in 1..Target : lane' = Advance([given[i] EXCEPT !.n = n]) BY DEF Repeat
<1>. DEFINE s == given[i]
            t == [s EXCEPT !.n = n]
<1>2. given \in Seq(Trades) /\ now \in Nat /\ venue \in Venues /\ LaneIs(lane) BY DEF Inv, FeedIs
<1>3. n \in Nat /\ s \in Trades BY CycleAssumption, <1>2
<1>4. lane' = Advance(t) BY <1>1
<1>. HIDE DEF s
<1>5. t \in Trades BY <1>3 DEF Trades
<1>. HIDE DEF t
<1>6. LaneIs(lane') BY <1>2, <1>4, <1>5, AdvanceIs
<1>7. venue' = venue /\ now' = now /\ given' = given BY DEF Repeat
<1>. QED BY <1>2, <1>6, <1>7 DEF Inv, FeedIs

\* What time alone makes of the cycle that runs.
LEMMA LatchedRun ==
    ASSUME LaneIs(lane), lane.active # NoCycle, NEW h, Sound(h), Same(h, lane.active)
    PROVE  LaneIs(Latched(lane, h))
BY LatchedIs DEF LaneIs, Same, Proper, Apart

\* advance_clock keeps the invariant.
LEMMA ClockIs == ASSUME Inv, Clock PROVE Inv'
<1>. DEFINE h == RunUntil(lane.active, venue, now)
<1>1. lane' = Latched(lane, h) /\ lane.active # NoCycle /\ UNCHANGED <<venue, now, given>> BY DEF Clock
<1>2. LaneIs(lane) /\ venue \in Venues /\ now \in Nat BY DEF Inv, FeedIs
<1>3. Sound(lane.active) BY <1>1, <1>2 DEF LaneIs
<1>4. now \in Int BY <1>2
<1>5. Sound(h) /\ Same(h, lane.active) BY <1>2, <1>3, <1>4, RunUntilIs
<1>. HIDE DEF h
<1>6. LaneIs(lane') BY <1>1, <1>2, <1>5, LatchedRun
<1>. QED BY <1>1, <1>6 DEF Inv, FeedIs

\* What is due before a new book keeps what is so of the lane.
LEMMA RebookedIs ==
    ASSUME Inv, NEW b \in Venues
    PROVE  LaneIs(Rebooked(b))
<1>. DEFINE f == RunUntil(lane.active, venue, now - 1)
            h == RunUntil(f, b, now)
<1>1. LaneIs(lane) /\ venue \in Venues /\ now \in Nat BY DEF Inv, FeedIs
<1>2. CASE lane.active = NoCycle BY <1>1, <1>2 DEF Rebooked
<1>3. CASE lane.active # NoCycle
    <2>1. Rebooked(b) = Latched(lane, h) BY <1>3 DEF Rebooked
    <2>2. now - 1 \in Int /\ now \in Int /\ Sound(lane.active) BY <1>1, <1>3 DEF LaneIs
    <2>3. Sound(f) /\ Same(f, lane.active) BY <1>1, <2>2, RunUntilIs
    <2>. HIDE DEF f
    <2>4. Sound(h) /\ Same(h, f) BY <2>2, <2>3, RunUntilIs
    <2>. HIDE DEF h
    <2>5. Same(h, lane.active) BY <2>3, <2>4 DEF Same
    <2>. QED BY <1>1, <1>3, <2>1, <2>4, <2>5, LatchedRun
<1>. QED BY <1>2, <1>3

\* The books that an event may leave.
RisexBooks == [ok : BOOLEAN, asks : Nat, crosses : BOOLEAN]
LighterBooks == [ok : BOOLEAN, asks : Nat, bids : Nat]

\* Either book may be replaced.
LEMMA VenueChanged ==
    ASSUME venue \in Venues
    PROVE  /\ venue.r \in RisexBooks /\ venue.l \in LighterBooks
           /\ \A r \in RisexBooks : [venue EXCEPT !.r = r] \in Venues
           /\ \A l \in LighterBooks : [venue EXCEPT !.l = l] \in Venues
           /\ \A x : [venue EXCEPT !.r = x].r = x /\ [venue EXCEPT !.l = x].l = x
BY DEF Venues, RisexBooks, LighterBooks

\* A book that is counted is a book.
LEMMA CountedIs ==
    ASSUME NEW b \in Venues
    PROVE  [b EXCEPT !.n = @ + 1] \in Venues
<1>. DEFINE n == b.n + 1
<1>1. n \in Nat BY DEF Venues
<1>. HIDE DEF n
<1>2. [b EXCEPT !.n = n] \in Venues BY <1>1 DEF Venues
<1>. QED BY <1>2 DEF n

\* The books that may come are books.
LEMMA BooksAre ==
    ASSUME venue \in Venues, NEW b, b.r.asks >= 0, b.l.asks >= 0, b.l.bids >= 0,
           b \in {[venue EXCEPT !.r.ok = FALSE], [venue EXCEPT !.l.ok = FALSE],
                  [venue EXCEPT !.r.crosses = TRUE], [venue EXCEPT !.r.asks = @ - 1],
                  [venue EXCEPT !.l.asks = @ - 1], [venue EXCEPT !.l.bids = @ - 1]}
    PROVE  b \in Venues
<1>. DEFINE a == venue.r.asks - 1
            c == venue.l.asks - 1
            d == venue.l.bids - 1
            r1 == [venue.r EXCEPT !.ok = FALSE]
            r2 == [venue.r EXCEPT !.crosses = TRUE]
            r3 == [venue.r EXCEPT !.asks = a]
            l1 == [venue.l EXCEPT !.ok = FALSE]
            l2 == [venue.l EXCEPT !.asks = c]
            l3 == [venue.l EXCEPT !.bids = d]
<1>1. venue.r \in RisexBooks /\ venue.l \in LighterBooks BY VenueChanged
<1>2. a \in Int /\ c \in Int /\ d \in Int BY <1>1 DEF RisexBooks, LighterBooks
<1>3. \/ b = [venue EXCEPT !.r = r1] \/ b = [venue EXCEPT !.r = r2] \/ b = [venue EXCEPT !.r = r3]
      \/ b = [venue EXCEPT !.l = l1] \/ b = [venue EXCEPT !.l = l2] \/ b = [venue EXCEPT !.l = l3]
    OBVIOUS
<1>. HIDE DEF a, c, d
<1>4. r1 \in RisexBooks /\ r2 \in RisexBooks /\ l1 \in LighterBooks BY <1>1 DEF RisexBooks, LighterBooks
<1>5. r3.asks = a /\ l2.asks = c /\ l3.bids = d BY <1>1 DEF RisexBooks, LighterBooks
<1>6. (a >= 0 => r3 \in RisexBooks) /\ (c >= 0 => l2 \in LighterBooks) /\ (d >= 0 => l3 \in LighterBooks)
  BY <1>2, <1>1 DEF RisexBooks, LighterBooks
<1>. HIDE DEF r1, r2, r3, l1, l2, l3
<1>7. CASE b = [venue EXCEPT !.r = r1] \/ b = [venue EXCEPT !.r = r2] BY <1>4, <1>7, VenueChanged
<1>8. CASE b = [venue EXCEPT !.r = r3] BY <1>8, VenueChanged, <1>5, <1>6
<1>9. CASE b = [venue EXCEPT !.l = l1] BY <1>4, <1>9, VenueChanged
<1>10. CASE b = [venue EXCEPT !.l = l2] BY <1>10, VenueChanged, <1>5, <1>6
<1>11. CASE b = [venue EXCEPT !.l = l3] BY <1>11, VenueChanged, <1>5, <1>6
<1>. QED BY <1>3, <1>7, <1>8, <1>9, <1>10, <1>11

\* A book keeps the invariant.
LEMMA BookIs == ASSUME Inv, Book PROVE Inv'
<1>1. PICK b \in {[venue EXCEPT !.r.ok = FALSE], [venue EXCEPT !.l.ok = FALSE],
                  [venue EXCEPT !.r.crosses = TRUE], [venue EXCEPT !.r.asks = @ - 1],
                  [venue EXCEPT !.l.asks = @ - 1], [venue EXCEPT !.l.bids = @ - 1]} :
              /\ b.r.asks >= 0 /\ b.l.asks >= 0 /\ b.l.bids >= 0
              /\ venue' = [b EXCEPT !.n = @ + 1] /\ lane' = Rebooked(b)
  BY DEF Book
<1>2. venue \in Venues BY DEF Inv, FeedIs
<1>3. b \in Venues BY <1>1, <1>2, BooksAre
<1>6. venue' \in Venues BY <1>1, <1>3, CountedIs
<1>4. LaneIs(lane') BY <1>1, <1>3, RebookedIs
<1>5. now' = now /\ given' = given BY DEF Book
<1>. QED BY <1>4, <1>5, <1>6 DEF Inv, FeedIs

\* A gap keeps the invariant.
LEMMA GapIs == ASSUME Inv, Gap PROVE Inv'
<1>1. PICK b \in {[venue EXCEPT !.r.ok = FALSE], [venue EXCEPT !.l.ok = FALSE]} :
              /\ venue' = [b EXCEPT !.n = @ + 1]
              /\ lane' = IF lane.active # NoCycle /\ GapOverlaps(lane.active)
                         THEN Latched(lane, Halt(lane.active)) ELSE Rebooked(b)
  BY DEF Gap
<1>2. venue \in Venues /\ LaneIs(lane) BY DEF Inv, FeedIs
<1>3. b \in Venues
    <2>. DEFINE r == [venue.r EXCEPT !.ok = FALSE]
                l == [venue.l EXCEPT !.ok = FALSE]
    <2>1. b = [venue EXCEPT !.r = r] \/ b = [venue EXCEPT !.l = l] BY <1>1
    <2>2. r \in RisexBooks /\ l \in LighterBooks BY <1>2, VenueChanged DEF RisexBooks, LighterBooks
    <2>. HIDE DEF r, l
    <2>. QED BY <1>2, <2>1, <2>2, VenueChanged
<1>4. venue' \in Venues BY <1>1, <1>3, CountedIs
<1>5. LaneIs(Rebooked(b)) BY <1>3, RebookedIs
<1>6. lane.active # NoCycle => LaneIs(Latched(lane, Halt(lane.active)))
  BY <1>2, SoundHalt, LatchedRun DEF LaneIs
<1>7. LaneIs(lane') BY <1>1, <1>5, <1>6
<1>8. now' = now /\ given' = given BY DEF Gap
<1>. QED BY <1>4, <1>7, <1>8 DEF Inv, FeedIs

\* The invariant is inductive.
LEMMA CycleStep == ASSUME Inv, [Next]_vars PROVE Inv'
<1>1. CASE Admit BY <1>1, AdmitIs
<1>2. CASE Trade BY <1>2, TradeIs
<1>3. CASE Repeat BY <1>3, RepeatIs
<1>4. CASE Clock BY <1>4, ClockIs
<1>5. CASE Book BY <1>5, BookIs
<1>6. CASE Gap BY <1>6, GapIs
<1>7. CASE Tick BY <1>7 DEF Tick, Inv, FeedIs
<1>8. CASE UNCHANGED vars BY <1>8 DEF vars, Inv, FeedIs
<1>. QED BY <1>1, <1>2, <1>3, <1>4, <1>5, <1>6, <1>7, <1>8 DEF Next

-----------------------------------------------------------------------------
(* What the kernel says of its cycles.                                     *)

\* The cycles of the lane are sound: one runs, the others have ended.
LEMMA CyclesAre ==
    ASSUME Inv, NEW k \in Cycles
    PROVE  /\ Sound(k) /\ Proper(k)
           /\ IsOver(k) => \E i \in 1..Len(lane.kept) : k = lane.kept[i]
           /\ k = lane.active => ~IsOver(k)
           /\ k = lane.active \/ \E i \in 1..Len(lane.kept) : k = lane.kept[i]
<1>1. LaneIs(lane) /\ KeptIs(lane) BY DEF Inv, LaneIs
<1>2. CASE k = lane.active /\ k # NoCycle BY <1>1, <1>2 DEF LaneIs
<1>3. ASSUME NEW i \in 1..Len(lane.kept), k = lane.kept[i]
      PROVE  Sound(k) /\ Proper(k) /\ IsOver(k) /\ k # lane.active
  BY <1>1, <1>3 DEF KeptIs, IsOver, Ended, NoCycle, LaneIs
<1>. QED BY <1>2, <1>3 DEF Cycles

\* The invariant has it that a cycle that ended without doubt is flat.
LEMMA FlatFollows == ASSUME Inv PROVE FlatIsFlat
<1>1. SUFFICES ASSUME NEW k \in Cycles, IsOver(k), ~Unresolved(k)
               PROVE  PositionsZero(k) /\ Open(k) = {}
  BY DEF FlatIsFlat
<1>2. Sound(k) BY CyclesAre
<1>3. CASE k.phase = "COMPLETE" BY <1>2, <1>3 DEF Sound
<1>4. CASE k.phase = "ABORTED"
    <2>1. Unhedged(k) /\ k.obs = 0 /\ k \in Records BY <1>2, <1>4 DEF Sound
    <2>2. k.risex = 0
        <3>1. k.risex = 0 - k.obs
            <4>1. k.obs \in Int BY <2>1
            <4>2. k.risex = -k.obs BY <2>1 DEF Unhedged
            <4>. HIDE <2>1
            <4>. QED BY <4>1, <4>2
        <3>. QED BY <2>1, <3>1
    <2>3. Open(k) = {} BY <2>1 DEF Unhedged, Open
    <2>. QED BY <2>1, <2>2, <2>3 DEF Unhedged, PositionsZero, NothingLeft
<1>. QED BY <1>1, <1>3, <1>4 DEF IsOver, Ended, Unresolved

\* The invariant has it that the quantities are the positions.
LEMMA BalanceFollows == ASSUME Inv PROVE Balanced
<1>1. SUFFICES ASSUME NEW k \in Cycles
               PROVE  IF Ever(k, "hedge")
                      THEN Unresolved(k) \/ (k.risex = -(k.pairR + k.unm) /\ k.lighter = k.pairL)
                      ELSE k.risex = -k.obs /\ k.lighter = 0
  BY DEF Balanced
<1>2. Sound(k) BY CyclesAre
<1>3. k.phase \in Phases BY <1>2 DEF Sound, Records
<1>4. CASE k.phase \in Entering \cup {"ABORTED"} BY <1>2, <1>4 DEF Sound, Unhedged, Ever
<1>5. CASE k.phase \in Later \cup {"UNMATCHED_WAIT", "COMPLETE"} BY <1>2, <1>5 DEF Sound, Paired, Owes
<1>6. CASE k.phase = "UNRESOLVED" BY <1>2, <1>6 DEF Sound, Unresolved
<1>. QED BY <1>3, <1>4, <1>5, <1>6 DEF Phases, Entering, Exiting, Ended, Later

\* The invariant has it that no trade is a fill of two cycles.
LEMMA FillsFollow == ASSUME Inv PROVE FillsOnce
<1>1. SUFFICES ASSUME NEW i \in 1..Len(lane.kept), NEW k \in Cycles \ {lane.kept[i]}
               PROVE  k.fills \cap lane.kept[i].fills = {}
  BY DEF FillsOnce
<1>2. LaneIs(lane) /\ KeptIs(lane) BY DEF Inv, LaneIs
<1>3. CASE k = lane.active /\ k # NoCycle BY <1>2, <1>3 DEF LaneIs, Apart
<1>4. CASE \E j \in 1..Len(lane.kept) : k = lane.kept[j]
    <2>1. PICK j \in 1..Len(lane.kept) : k = lane.kept[j] BY <1>4
    <2>2. i # j BY <1>1, <2>1
    <2>. QED BY <1>2, <2>1, <2>2 DEF KeptIs
<1>. QED BY <1>3, <1>4 DEF Cycles

\* The invariant has it that doubt about one cycle halts the lane.
LEMMA DoubtFollows == ASSUME Inv PROVE DoubtHalts
<1>1. SUFFICES ASSUME NEW k \in Cycles, Unresolved(k)
               PROVE  /\ lane.halted /\ lane.active = NoCycle
                      /\ Unresolved(lane.kept[Len(lane.kept)])
  BY DEF DoubtHalts
<1>2. IsOver(k) BY <1>1 DEF IsOver, Ended, Unresolved
<1>3. PICK i \in 1..Len(lane.kept) : k = lane.kept[i] BY <1>2, CyclesAre
<1>4. lane.halted /\ Unresolved(lane.kept[Len(lane.kept)]) BY <1>1, <1>3 DEF Inv, LaneIs, KeptIs
<1>. QED BY <1>4 DEF Inv, LaneIs

-----------------------------------------------------------------------------
(* The theorems.                                                           *)

\* Whatever the feed brings, and whenever, the positions of every cycle are
\* those that its fills and its takers made, in every phase (_MutableCycle).
THEOREM CyclesAreSound == Spec => []Inv
<1>. QED BY CycleInit, CycleStep, PTL DEF Spec

\* A result without doubt is flat and has nothing queued, the quantities that
\* decide what is unwound are the positions, no trade is a fill of two cycles,
\* and doubt about one halts the lane (_latch_terminal, _apply_taker_residue,
\* _propagate_terminal_uncertainty).
THEOREM CyclesSayTheTruth == Spec => []CyclesAreTrue
<1>1. Inv => CyclesAreTrue BY FlatFollows, BalanceFollows, FillsFollow, DoubtFollows DEF CyclesAreTrue
<1>. QED BY <1>1, CyclesAreSound, PTL
=============================================================================
