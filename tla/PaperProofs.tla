---------------------------- MODULE PaperProofs ----------------------------
(***************************************************************************)
(* Theorems about Paper, for every set of trades and every bound: stored   *)
(* fills are earned, and what is stored implements PaperPosition.          *)
(***************************************************************************)
EXTENDS Paper, TLAPS, WellFoundedInduction, NaturalsInduction

-----------------------------------------------------------------------------
(* What the trades of a proof add up to.                                   *)

\* Every set of numbers has a least one.
LEMMA NatMin ==
    ASSUME NEW T \in SUBSET Nat, T # {}
    PROVE  \E x \in T : \A y \in T : x <= y
<1>. DEFINE R == OpToRel(<, Nat)
<1>1. IsWellFoundedOn(R, Nat) BY NatLessThanWellFounded
<1>2. \E x \in T : \A y \in T : ~(<<y, x>> \in R)
  <2>. HIDE DEF R
  <2>. QED BY <1>1, WFMin, Zenon
<1>3. \A x, y \in Nat : x < y => <<x, y>> \in R BY DEF OpToRel
<1>. QED
  <2>1. PICK x \in T : \A y \in T : ~(<<y, x>> \in R) BY <1>2
  <2>2. ASSUME NEW y \in T PROVE x <= y
    <3>1. ~(y < x) BY <1>3, <2>1
    <3>. QED BY <3>1
  <2>. QED BY <2>2

Versions == Attempts \X {"entry", "exit"} \X Nat
Counts   == [trade : Trades, on : Versions]

\* The trades of q add up to n, as a running sum shows.
AddsUp(q, n) ==
    \E g \in [0..Len(q) -> Nat] :
        /\ g[0] = 0 /\ g[Len(q)] = n
        /\ \A i \in 1..Len(q) : g[i] = g[i - 1] + q[i].trade.quantity

\* A running sum is the total: the recursive function that Total defines has no other value.
LEMMA AddsTotal ==
    ASSUME NEW q \in Seq(Counts), NEW n, AddsUp(q, n)
    PROVE  Total(q) = n
<1>1. PICK g \in [0..Len(q) -> Nat] :
        /\ g[0] = 0 /\ g[Len(q)] = n
        /\ \A i \in 1..Len(q) : g[i] = g[i - 1] + q[i].trade.quantity
  BY DEF AddsUp
<1>. DEFINE Sum(f) == f = [i \in 0..Len(q) |-> IF i = 0 THEN 0 ELSE f[i - 1] + q[i].trade.quantity]
            h == CHOOSE f : Sum(f)
<1>2. Len(q) \in Nat /\ Total(q) = h[Len(q)] BY DEF Total
<1>3. Sum(g) BY <1>1, <1>2
<1>4. Sum(h) BY <1>3
<1>. HIDE DEF h
<1>5. \A i \in 0..Len(q) : h[i] = IF i = 0 THEN 0 ELSE h[i - 1] + q[i].trade.quantity BY <1>4
<1>. DEFINE T == {i \in 0..Len(q) : h[i] # g[i]}
<1>6. T = {}
  <2>. SUFFICES ASSUME T # {} PROVE FALSE OBVIOUS
  <2>1. T \in SUBSET Nat BY <1>2
  <2>2. PICK i \in T : \A y \in T : i <= y BY <2>1, NatMin
  <2>3. i \in 0..Len(q) /\ h[i] # g[i] OBVIOUS
  <2>4. i # 0 BY <1>1, <1>2, <1>5, <2>3
  <2>5. i - 1 \in 0..Len(q) /\ ~(i <= i - 1) BY <1>2, <2>3, <2>4
  <2>6. h[i - 1] = g[i - 1] BY <2>2, <2>5
  <2>. QED BY <1>1, <1>2, <1>5, <2>3, <2>4, <2>6
<1>. QED BY <1>1, <1>2, <1>6

\* No trades add up to nothing.
LEMMA AddsNone == AddsUp(<<>>, 0)
<1>1. PICK g \in [0..0 -> Nat] : g[0] = 0
  <2>1. [i \in 0..0 |-> 0] \in [0..0 -> Nat] /\ [i \in 0..0 |-> 0][0] = 0 OBVIOUS
  <2>. QED BY <2>1
<1>2. Len(<<>>) = 0 /\ 1..0 = {} OBVIOUS
<1>. QED BY <1>1, <1>2 DEF AddsUp

\* One trade more.
LEMMA AddsOne ==
    ASSUME NEW q \in Seq(Counts), NEW n \in Nat, NEW c \in Counts, AddsUp(q, n)
    PROVE  AddsUp(Append(q, c), n + c.trade.quantity)
<1>1. PICK g \in [0..Len(q) -> Nat] :
        /\ g[0] = 0 /\ g[Len(q)] = n
        /\ \A i \in 1..Len(q) : g[i] = g[i - 1] + q[i].trade.quantity
  BY DEF AddsUp
<1>2. PICK m \in Nat : m = Len(q) OBVIOUS
<1>3. c.trade.quantity \in Nat BY TradesAssumption DEF Counts
<1>. DEFINE p == Append(q, c)
            h == [i \in 0..(m + 1) |-> IF i = m + 1 THEN n + c.trade.quantity ELSE g[i]]
<1>4. Len(p) = m + 1 /\ p[m + 1] = c /\ \A i \in 1..m : p[i] = q[i] BY <1>2
<1>5. h \in [0..Len(p) -> Nat] /\ h[0] = 0 /\ h[Len(p)] = n + c.trade.quantity
  <2>1. n + c.trade.quantity \in Nat BY <1>3
  <2>2. \A i \in 0..(m + 1) : i # m + 1 => i \in 0..m BY <1>2
  <2>3. \A i \in 0..m : g[i] \in Nat BY <1>2
  <2>4. h \in [0..(m + 1) -> Nat] BY <2>1, <2>2, <2>3
  <2>5. 0 \in 0..(m + 1) /\ 0 # m + 1 /\ m + 1 \in 0..(m + 1) BY <1>2
  <2>. QED BY <1>1, <1>4, <2>4, <2>5
<1>6. ASSUME NEW i \in 1..Len(p) PROVE h[i] = h[i - 1] + p[i].trade.quantity
  <2>1. CASE i = m + 1 BY <1>1, <1>2, <1>4, <2>1
  <2>2. CASE i # m + 1 BY <1>2, <1>4, <1>6, <2>2, <1>1
  <2>. QED BY <2>1, <2>2
<1>. HIDE DEF h, p
<1>. QED BY <1>5, <1>6 DEF AddsUp, p

-----------------------------------------------------------------------------
(* Orders.                                                                 *)

Entries == [kind : {"entry"}, attempt : Attempts, cutoff : Nat,
            status : {"OPEN", "FILLED", "CANCELLED"}, version : Nat, cumulative : Nat,
            qualifying : Seq(Counts), keys : SUBSET Trades]

Lives == [kind : {"exit"}, attempt : Attempts, state : Held \cup {"FLAT"}, gap : BOOLEAN,
          active : BOOLEAN, version : Nat, mode : Held \cup {"FLAT"}, cumulative : Nat,
          qualifying : Seq(Counts), keys : SUBSET Trades]

\* An order for which nothing counts, and one for which what counted for o counts.
Empty(o)        == o.qualifying = <<>> /\ o.cumulative = 0
SameCount(p, o) == /\ p.qualifying = o.qualifying /\ p.cumulative = o.cumulative
                   /\ Version(p) = Version(o) /\ o.keys \subseteq p.keys

\* What counts for an order was delivered to its version, is known to it, and is
\* counted once.
Good(o) ==
    /\ AddsUp(o.qualifying, o.cumulative)
    /\ \A i \in DOMAIN o.qualifying : /\ o.qualifying[i].on = Version(o)
                                      /\ o.qualifying[i].trade \in o.keys
    /\ \A i, j \in DOMAIN o.qualifying : o.qualifying[i].trade = o.qualifying[j].trade => i = j

\* An entry, a position and nothing are told apart.
LEMMA Kinds ==
    /\ \A b \in Entries : b # None /\ b.kind = "entry"
    /\ \A l \in Lives : l # None /\ l.kind = "exit" /\ ~EntryOpen(l)
    /\ ~EntryOpen(None) /\ None.kind = "none"
BY DEF Entries, Lives, None, EntryOpen

\* Nothing counted is counted well.
LEMMA EmptyGood == \A o : Empty(o) => Good(o)
BY AddsNone DEF Empty, Good

\* What counts for an order counts for one that keeps it.
LEMMA SameGood == \A o, p : Good(o) /\ SameCount(p, o) => Good(p)
BY DEF Good, SameCount

\* Forgetting changes what counts for an entry, and nothing else.
LEMMA EntryForgets ==
    ASSUME NEW b \in Entries
    PROVE  /\ Forget(b) \in Entries /\ Empty(Forget(b))
           /\ Forget(b).attempt = b.attempt /\ Forget(b).cutoff = b.cutoff
           /\ Forget(b).status = b.status /\ Forget(b).version = b.version
           /\ Forget(b).keys = b.keys
<1>0. <<>> \in Seq(Counts) /\ 0 \in Nat OBVIOUS
<1>1. PICK q \in Seq(Counts), n \in Nat : q = <<>> /\ n = 0 BY <1>0
<1>2. Forget(b) = [b EXCEPT !.cumulative = n, !.qualifying = q] BY <1>1 DEF Forget
<1>. QED BY <1>1, <1>2 DEF Entries, Empty

\* The same of a position.
LEMMA LifeForgets ==
    ASSUME NEW l \in Lives
    PROVE  /\ Forget(l) \in Lives /\ Empty(Forget(l))
           /\ Forget(l).attempt = l.attempt /\ Forget(l).state = l.state
           /\ Forget(l).gap = l.gap /\ Forget(l).active = l.active
           /\ Forget(l).version = l.version /\ Forget(l).keys = l.keys
<1>0. <<>> \in Seq(Counts) /\ 0 \in Nat OBVIOUS
<1>1. PICK q \in Seq(Counts), n \in Nat : q = <<>> /\ n = 0 BY <1>0
<1>2. Forget(l) = [l EXCEPT !.cumulative = n, !.qualifying = q] BY <1>1 DEF Forget
<1>. QED BY <1>1, <1>2 DEF Lives, Empty

\* A cancelled entry counts nothing.
LEMMA EntryCancels ==
    ASSUME NEW b \in Entries
    PROVE  /\ CancelEntry(b) \in Entries /\ Empty(CancelEntry(b))
           /\ CancelEntry(b).attempt = b.attempt /\ CancelEntry(b).status = "CANCELLED"
<1>1. PICK o \in Entries : o = Forget(b) /\ Empty(o) /\ o.attempt = b.attempt BY EntryForgets
<1>2. CancelEntry(b) = [o EXCEPT !.status = "CANCELLED"] BY <1>1 DEF CancelEntry
<1>. QED BY <1>1, <1>2 DEF Entries, Empty

\* A new version counts nothing.
LEMMA EntryReplaces ==
    ASSUME NEW b \in Entries
    PROVE  /\ ReplaceVersion(b) \in Entries /\ Empty(ReplaceVersion(b))
           /\ ReplaceVersion(b).attempt = b.attempt /\ ReplaceVersion(b).status = b.status
<1>1. PICK o \in Entries : /\ o = Forget(b) /\ Empty(o) /\ o.attempt = b.attempt
                           /\ o.status = b.status
  BY EntryForgets
<1>2. ReplaceVersion(b) = [o EXCEPT !.version = @ + 1] BY <1>1 DEF ReplaceVersion
<1>. QED BY <1>1, <1>2 DEF Entries, Empty

\* Seeing a trade changes what an entry knows.
LEMMA EntrySees ==
    ASSUME NEW b \in Entries, NEW t \in Trades
    PROVE  LET o == [b EXCEPT !.keys = @ \cup {t}]
           IN  /\ o \in Entries /\ SameCount(o, b) /\ o.keys = b.keys \cup {t}
               /\ o.attempt = b.attempt /\ o.status = b.status /\ o.cutoff = b.cutoff
BY DEF Entries, SameCount, Version

\* Seeing a trade changes what a position knows.
LEMMA LifeSees ==
    ASSUME NEW l \in Lives, NEW t \in Trades
    PROVE  LET o == [l EXCEPT !.keys = @ \cup {t}]
           IN  /\ o \in Lives /\ SameCount(o, l) /\ o.keys = l.keys \cup {t}
               /\ o.attempt = l.attempt /\ o.state = l.state
BY DEF Lives, SameCount, Version

\* Versions.
LEMMA VersionTyped ==
    /\ \A b \in Entries : Version(b) \in Versions
    /\ \A l \in Lives : Version(l) \in Versions
BY DEF Entries, Lives, Version, Versions

\* Accumulating changes what counts for an entry.
LEMMA EntryAccumulates ==
    ASSUME NEW b \in Entries, NEW t \in Trades
    PROVE  LET o == Accumulate(b, t)
           IN  /\ o \in Entries /\ Version(o) = Version(b) /\ o.keys = b.keys
               /\ o.qualifying = Counted(b, t) /\ o.cumulative = b.cumulative + t.quantity
               /\ o.attempt = b.attempt /\ o.status = b.status /\ o.cutoff = b.cutoff
<1>1. [trade |-> t, on |-> Version(b)] \in Counts BY VersionTyped DEF Counts
<1>2. Counted(b, t) \in Seq(Counts) BY <1>1 DEF Counted, Entries
<1>3. b.cumulative + t.quantity \in Nat BY TradesAssumption DEF Entries
<1>4. PICK q \in Seq(Counts), n \in Nat : q = Counted(b, t) /\ n = b.cumulative + t.quantity BY <1>2, <1>3
<1>5. Accumulate(b, t) = [b EXCEPT !.cumulative = n, !.qualifying = q] BY <1>4 DEF Accumulate
<1>. QED BY <1>4, <1>5 DEF Entries, Version

\* Accumulating changes what counts for a position.
LEMMA LifeAccumulates ==
    ASSUME NEW l \in Lives, NEW t \in Trades
    PROVE  LET o == Accumulate(l, t)
           IN  /\ o \in Lives /\ Version(o) = Version(l) /\ o.keys = l.keys
               /\ o.qualifying = Counted(l, t) /\ o.cumulative = l.cumulative + t.quantity
               /\ o.attempt = l.attempt /\ o.state = l.state
<1>1. [trade |-> t, on |-> Version(l)] \in Counts BY VersionTyped DEF Counts
<1>2. Counted(l, t) \in Seq(Counts) BY <1>1 DEF Counted, Lives
<1>3. l.cumulative + t.quantity \in Nat BY TradesAssumption DEF Lives
<1>4. PICK q \in Seq(Counts), n \in Nat : q = Counted(l, t) /\ n = l.cumulative + t.quantity BY <1>2, <1>3
<1>5. Accumulate(l, t) = [l EXCEPT !.cumulative = n, !.qualifying = q] BY <1>4 DEF Accumulate
<1>. QED BY <1>4, <1>5 DEF Lives, Version

\* A trade that an order did not know may count for it.
LEMMA CountedGood ==
    ASSUME NEW o, NEW p, NEW t \in Trades, o.qualifying \in Seq(Counts), o.cumulative \in Nat,
           Version(o) \in Versions, Good(o), t \notin o.keys,
           Version(p) = Version(o), p.keys = o.keys \cup {t},
           p.qualifying = Counted(o, t), p.cumulative = o.cumulative + t.quantity
    PROVE  Good(p)
<1>1. PICK c \in Counts : c = [trade |-> t, on |-> Version(o)] BY DEF Counts
<1>2. p.qualifying = Append(o.qualifying, c) BY <1>1 DEF Counted
<1>3. AddsUp(p.qualifying, p.cumulative) BY <1>1, <1>2, AddsOne DEF Good
<1>4. PICK m \in Nat : m = Len(o.qualifying) OBVIOUS
<1>5. /\ DOMAIN p.qualifying = 1..(m + 1) /\ p.qualifying[m + 1] = c
      /\ \A i \in 1..m : p.qualifying[i] = o.qualifying[i]
      /\ DOMAIN o.qualifying = 1..m
  BY <1>2, <1>4
<1>6. \A i \in 1..(m + 1) : i = m + 1 \/ i \in 1..m BY <1>4
<1>7. \A i \in 1..m : o.qualifying[i].trade # t BY <1>5 DEF Good
<1>. QED BY <1>1, <1>3, <1>5, <1>6, <1>7 DEF Good

-----------------------------------------------------------------------------
(* What the broker and the engine make of an order.                        *)

\* A refresh keeps an entry as it is, or what counted for it is gone.
LEMMA RefreshedEntry ==
    ASSUME NEW b \in Entries, b.status = "OPEN", NEW o \in Refreshed(b)
    PROVE  /\ o \in Entries /\ o.attempt = b.attempt
           /\ o = b \/ (Empty(o) /\ o.status \in {"OPEN", "CANCELLED"})
BY EntryCancels, EntryReplaces DEF Refreshed

\* What a computed trade makes of an open order.
Outcome(b, t, r) ==
    /\ r.state \in Entries /\ r.state.attempt = b.attempt
    /\ \/ r.outcome = "IGNORED" /\ r.state.status = "OPEN" /\ SameCount(r.state, b)
                                /\ r.state.cutoff = b.cutoff
       \/ r.outcome = "CANCELLED" /\ r.state.status = "CANCELLED" /\ Empty(r.state)
       \/ /\ \/ r.outcome = "ACCUMULATED" /\ r.state.status = "OPEN"
             \/ r.outcome = "OPENED" /\ r.state.status = "FILLED" /\ r.state.cumulative >= Quantity
          /\ r.state.qualifying = Counted(b, t) /\ t.at < b.cutoff /\ t \notin b.keys
          /\ r.state.cumulative = b.cumulative + t.quantity
          /\ r.state.keys = b.keys \cup {t}
          /\ Version(r.state) = Version(b) /\ r.state.cutoff = b.cutoff

\* Every result of process_trade is one of these.
LEMMA ProcessedEntry ==
    ASSUME NEW b \in Entries, b.status = "OPEN", NEW t \in Trades, NEW crosses,
           NEW r \in Processed(b, t, crosses)
    PROVE  Outcome(b, t, r)
<1>1. PICK seen \in Entries :
        /\ seen = [b EXCEPT !.keys = @ \cup {t}] /\ SameCount(seen, b)
        /\ seen.keys = b.keys \cup {t} /\ seen.attempt = b.attempt /\ seen.status = b.status
        /\ seen.cutoff = b.cutoff
  BY EntrySees
<1>2. PICK full \in Entries :
        /\ full = Accumulate(seen, t) /\ Version(full) = Version(seen) /\ full.keys = seen.keys
        /\ full.qualifying = Counted(seen, t) /\ full.cumulative = seen.cumulative + t.quantity
        /\ full.attempt = b.attempt /\ full.status = b.status /\ full.cutoff = b.cutoff
  <2>1. seen \in Entries BY <1>1
  <2>2. LET o == Accumulate(seen, t)
        IN  /\ o \in Entries /\ Version(o) = Version(seen) /\ o.keys = seen.keys
            /\ o.qualifying = Counted(seen, t) /\ o.cumulative = seen.cumulative + t.quantity
            /\ o.attempt = seen.attempt /\ o.status = seen.status /\ o.cutoff = seen.cutoff
    BY <2>1, EntryAccumulates
  <2>. QED BY <1>1, <2>2
<1>3. full.qualifying = Counted(b, t) /\ full.cumulative = b.cumulative + t.quantity
      /\ Version(full) = Version(b) /\ full.keys = b.keys \cup {t}
  BY <1>1, <1>2 DEF SameCount, Counted
<1>4. \/ r = [outcome |-> "IGNORED", state |-> b] /\ t \in b.keys
      \/ r = [outcome |-> "IGNORED", state |-> seen]
      \/ /\ t \notin b.keys /\ Eligible(b, t, crosses)
         /\ \/ r = [outcome |-> "ACCUMULATED", state |-> full]
            \/ /\ ~(full.cumulative < Quantity)
               /\ \/ r = [outcome |-> "CANCELLED", state |-> CancelEntry(seen)]
                  \/ r = [outcome |-> "OPENED", state |-> [full EXCEPT !.status = "FILLED"]]
  BY <1>1, <1>2 DEF Processed
<1>5. CASE r = [outcome |-> "IGNORED", state |-> b] /\ t \in b.keys BY <1>5 DEF Outcome, SameCount
<1>6. CASE r = [outcome |-> "IGNORED", state |-> seen] BY <1>1, <1>6 DEF Outcome
<1>7. CASE r = [outcome |-> "ACCUMULATED", state |-> full] /\ t \notin b.keys /\ Eligible(b, t, crosses)
  BY <1>2, <1>3, <1>7 DEF Outcome, Eligible
<1>8. CASE r = [outcome |-> "CANCELLED", state |-> CancelEntry(seen)] BY <1>1, <1>8, EntryCancels DEF Outcome
<1>9. CASE /\ r = [outcome |-> "OPENED", state |-> [full EXCEPT !.status = "FILLED"]]
           /\ t \notin b.keys /\ Eligible(b, t, crosses) /\ ~(full.cumulative < Quantity)
  <2>1. PICK o : o = [full EXCEPT !.status = "FILLED"] OBVIOUS
  <2>2. /\ o \in Entries /\ o.status = "FILLED" /\ o.attempt = full.attempt
        /\ o.qualifying = full.qualifying /\ o.cumulative = full.cumulative /\ o.keys = full.keys
        /\ o.cutoff = full.cutoff /\ Version(o) = Version(full)
    BY <2>1 DEF Entries, Version
  <2>3. o.cumulative \in Nat /\ o.cumulative >= Quantity
    <3>1. o.cumulative \in Nat /\ Quantity \in Nat BY <2>2, BoundsAssumption DEF Entries
    <3>2. ~(o.cumulative < Quantity) BY <1>9, <2>2
    <3>. QED BY <3>1, <3>2
  <2>. QED BY <1>2, <1>3, <1>9, <2>1, <2>2, <2>3 DEF Outcome, Eligible
<1>. QED BY <1>4, <1>5, <1>6, <1>7, <1>8, <1>9

\* The states a position may move to.
Moved(s, t) ==
    \/ t \in {s, "FLAT"}
    \/ s = "HOLDING" /\ t = "EXITING_NORMAL"
    \/ s = "EXITING_NORMAL" /\ t = "EXITING_AGGRESSIVE"

\* A position that is as it was but for what counts for its exit.
LifeStep(m, l) ==
    /\ m \in Lives /\ m.attempt = l.attempt
    /\ SameCount(m, l) \/ Empty(m)

\* A cancelled exit version counts nothing.
LEMMA LifeCancels ==
    ASSUME NEW l \in Lives
    PROVE  /\ CancelVersion(l) \in Lives /\ Empty(CancelVersion(l))
           /\ CancelVersion(l).attempt = l.attempt /\ CancelVersion(l).state = l.state
           /\ CancelVersion(l).gap = l.gap
<1>1. PICK o \in Lives : o = Forget(l) /\ Empty(o) /\ o.attempt = l.attempt
                         /\ o.state = l.state /\ o.gap = l.gap
  BY LifeForgets
<1>2. CancelVersion(l) = [o EXCEPT !.active = FALSE] BY <1>1 DEF CancelVersion
<1>. QED BY <1>1, <1>2 DEF Lives, Empty

\* A new exit version counts nothing.
LEMMA LifeRenews ==
    ASSUME NEW l \in Lives
    PROVE  /\ NewVersion(l) \in Lives /\ Empty(NewVersion(l))
           /\ NewVersion(l).attempt = l.attempt /\ NewVersion(l).state = l.state
<1>1. PICK o \in Lives : o = Forget(l) /\ Empty(o) /\ o.attempt = l.attempt
                         /\ o.state = l.state
  BY LifeForgets
<1>2. PICK s \in Held \cup {"FLAT"} : s = l.state BY DEF Lives
<1>3. PICK v \in Nat : v = o.version + 1 BY <1>1 DEF Lives
<1>4. NewVersion(l) = [o EXCEPT !.active = TRUE, !.version = v, !.mode = s] BY <1>1, <1>2, <1>3 DEF NewVersion
<1>. QED BY <1>1, <1>2, <1>3, <1>4 DEF Lives, Empty

\* A closed position counts nothing.
LEMMA LifeCloses ==
    ASSUME NEW l \in Lives
    PROVE  /\ CloseLife(l) \in Lives /\ Empty(CloseLife(l))
           /\ CloseLife(l).attempt = l.attempt /\ CloseLife(l).state = "FLAT"
<1>1. PICK o \in Lives : o = Forget(l) /\ Empty(o) /\ o.attempt = l.attempt BY LifeForgets
<1>2. CloseLife(l) = [o EXCEPT !.state = "FLAT", !.active = FALSE] BY <1>1 DEF CloseLife
<1>. QED BY <1>1, <1>2 DEF Lives, Empty

\* A gap keeps the position.
LEMMA GapStarts ==
    ASSUME NEW l \in Lives
    PROVE  LifeStep(StartGap(l), l) /\ StartGap(l).state = l.state
<1>1. CASE l.gap BY <1>1 DEF StartGap, LifeStep, SameCount
<1>2. CASE ~l.gap
  <2>1. PICK o \in Lives : o = CancelVersion(l) /\ Empty(o) /\ o.attempt = l.attempt
                           /\ o.state = l.state
    BY LifeCancels
  <2>2. StartGap(l) = [o EXCEPT !.gap = TRUE] BY <1>2, <2>1 DEF StartGap
  <2>. QED BY <2>1, <2>2 DEF Lives, Empty, LifeStep
<1>. QED BY <1>1, <1>2

\* A version is kept, or made anew.
LEMMA Ensured ==
    ASSUME NEW l \in Lives, NEW m \in EnsureVersion(l)
    PROVE  LifeStep(m, l) /\ m.state = l.state
BY LifeRenews DEF EnsureVersion, LifeStep, SameCount

\* A state that is set keeps what counts.
LEMMA StateSet ==
    ASSUME NEW l \in Lives, NEW s \in Held \cup {"FLAT"}
    PROVE  LET m == [l EXCEPT !.state = s] IN LifeStep(m, l) /\ SameCount(m, l) /\ m.state = s
BY DEF Lives, LifeStep, SameCount, Version

\* Two steps of a position are one.
LEMMA StepTwice ==
    ASSUME NEW l, NEW k, NEW m, LifeStep(k, l), LifeStep(m, k)
    PROVE  LifeStep(m, l)
BY DEF LifeStep, SameCount, Empty

\* A plan moves a position on.
LEMMA PlannedLife ==
    ASSUME NEW l \in Lives, l.state \in Held, NEW m \in Planned(l)
    PROVE  LifeStep(m, l) /\ Moved(l.state, m.state)
<1>1. ASSUME NEW s \in Held, m \in EnsureVersion([l EXCEPT !.state = s])
      PROVE  LifeStep(m, l) /\ m.state = s
  <2>1. PICK k : k = [l EXCEPT !.state = s] OBVIOUS
  <2>2. k \in Lives /\ LifeStep(k, l) /\ k.state = s BY <2>1, StateSet DEF LifeStep
  <2>3. LifeStep(m, k) /\ m.state = s BY <1>1, <2>1, <2>2, Ensured
  <2>. QED BY <2>2, <2>3, StepTwice
<1>2. CASE m = l BY <1>2 DEF LifeStep, SameCount, Moved
<1>3. CASE m \in EnsureVersion(l) BY <1>3, Ensured DEF Moved
<1>4. CASE l.state = "HOLDING" BY <1>4, <1>1, <1>2 DEF Planned, Moved, Held
<1>5. CASE l.state = "EXITING_NORMAL" BY <1>5, <1>1, <1>3 DEF Planned, Moved, Held
<1>6. CASE l.state \notin {"HOLDING", "EXITING_NORMAL"} BY <1>6, <1>3 DEF Planned
<1>. QED BY <1>4, <1>5, <1>6

\* An evaluation moves a position on, and drops what counted or keeps it whole.
LEMMA EvaluatedLife ==
    ASSUME NEW l \in Lives, l.state \in Held, NEW only, NEW m \in Evaluated(l, only)
    PROVE  LifeStep(m, l) /\ Moved(l.state, m.state)
<1>1. \/ m = l \/ m = StartGap(l) \/ m = CloseLife(l) \/ m = CancelVersion(l) \/ m \in Planned(l) BY DEF Evaluated
<1>2. CASE m = l BY <1>2 DEF LifeStep, SameCount, Moved
<1>3. CASE m = StartGap(l) BY <1>3, GapStarts DEF Moved
<1>4. CASE m = CloseLife(l) BY <1>4, LifeCloses DEF LifeStep, Moved
<1>5. CASE m = CancelVersion(l) BY <1>5, LifeCancels DEF LifeStep, Moved
<1>6. CASE m \in Planned(l) BY <1>6, PlannedLife
<1>. QED BY <1>1, <1>2, <1>3, <1>4, <1>5, <1>6

\* A recovery is an evaluation.
LEMMA RecoveredLife ==
    ASSUME NEW l \in Lives, l.state \in Held, NEW m \in Recovered(l)
    PROVE  LifeStep(m, l) /\ Moved(l.state, m.state)
<1>1. PICK k : k = [l EXCEPT !.gap = FALSE] OBVIOUS
<1>2. k \in Lives /\ LifeStep(k, l) /\ k.state = l.state BY <1>1 DEF Lives, LifeStep, SameCount, Version
<1>3. m \in Evaluated(k, FALSE) BY <1>1 DEF Recovered
<1>4. LifeStep(m, k) /\ Moved(k.state, m.state) BY <1>2, <1>3, EvaluatedLife
<1>. QED BY <1>2, <1>4, StepTwice

\* So is a restart.
LEMMA RestartedLife ==
    ASSUME NEW l \in Lives, l.state \in Held, NEW m \in Restarted(l)
    PROVE  LifeStep(m, l) /\ Moved(l.state, m.state)
<1>1. PICK c : c = CancelVersion(l) OBVIOUS
<1>2. c \in Lives /\ LifeStep(c, l) /\ c.state = l.state BY <1>1, LifeCancels DEF LifeStep
<1>3. PICK k : k = StartGap(c) OBVIOUS
<1>4. LifeStep(k, c) /\ k.state = c.state BY <1>2, <1>3, GapStarts
<1>5. k \in Lives /\ LifeStep(k, l) /\ k.state = l.state BY <1>2, <1>4, StepTwice DEF LifeStep
<1>6. m = k \/ m \in Recovered(k) BY <1>1, <1>3 DEF Restarted
<1>7. CASE m = k BY <1>5, <1>7 DEF Moved
<1>8. CASE m \in Recovered(k) BY <1>5, <1>8, RecoveredLife, StepTwice
<1>. QED BY <1>6, <1>7, <1>8

\* What a public trade makes of a position that is leaving.
ExitOutcome(l, t, r) ==
    /\ r.state \in Lives /\ r.state.attempt = l.attempt
    /\ \/ r.outcome = "IGNORED" /\ r.state.state = l.state /\ SameCount(r.state, l)
       \/ /\ r.outcome = "ACCUMULATED" /\ r.state.state = l.state /\ t \notin l.keys
          /\ Version(r.state) = Version(l) /\ r.state.keys = l.keys \cup {t}
          /\ r.state.qualifying = Counted(l, t) /\ r.state.cumulative = l.cumulative + t.quantity
       \/ /\ r.outcome = "SUSPENDED" /\ r.state.state = l.state
          /\ Empty(r.state) \/ SameCount(r.state, l)
       \/ /\ r.outcome = "CLOSED" /\ r.state.state = "FLAT" /\ Empty(r.state) /\ t \notin l.keys
          /\ l.cumulative + t.quantity >= Quantity

\* Every result of process_exit_trade is one of these.
LEMMA ProcessedExit ==
    ASSUME NEW l \in Lives, NEW t \in Trades, NEW crosses, NEW r \in ExitProcessed(l, t, crosses)
    PROVE  ExitOutcome(l, t, r)
<1>1. PICK seen \in Lives :
        /\ seen = [l EXCEPT !.keys = @ \cup {t}] /\ SameCount(seen, l)
        /\ seen.keys = l.keys \cup {t} /\ seen.attempt = l.attempt /\ seen.state = l.state
  BY LifeSees
<1>2. PICK full \in Lives :
        /\ full = Accumulate(seen, t) /\ Version(full) = Version(seen) /\ full.keys = seen.keys
        /\ full.qualifying = Counted(seen, t) /\ full.cumulative = seen.cumulative + t.quantity
        /\ full.attempt = l.attempt /\ full.state = l.state
  <2>1. seen \in Lives BY <1>1
  <2>2. LET o == Accumulate(seen, t)
        IN  /\ o \in Lives /\ Version(o) = Version(seen) /\ o.keys = seen.keys
            /\ o.qualifying = Counted(seen, t) /\ o.cumulative = seen.cumulative + t.quantity
            /\ o.attempt = seen.attempt /\ o.state = seen.state
    BY <2>1, LifeAccumulates
  <2>. QED BY <1>1, <2>2
<1>3. full.qualifying = Counted(l, t) /\ full.cumulative = l.cumulative + t.quantity
      /\ Version(full) = Version(l) /\ full.keys = l.keys \cup {t}
  BY <1>1, <1>2 DEF SameCount, Counted
<1>4. \/ r = [outcome |-> "IGNORED", state |-> l]
      \/ r = [outcome |-> "IGNORED", state |-> seen]
      \/ /\ t \notin l.keys
         /\ \/ r = [outcome |-> "ACCUMULATED", state |-> full]
            \/ /\ ~(full.cumulative < Quantity)
               /\ \/ r = [outcome |-> "SUSPENDED", state |-> StartGap(seen)]
                  \/ r = [outcome |-> "SUSPENDED", state |-> CancelVersion(seen)]
                  \/ r = [outcome |-> "CLOSED", state |-> CloseLife(seen)]
  BY <1>1, <1>2 DEF ExitProcessed
<1>5. CASE r = [outcome |-> "IGNORED", state |-> l] BY <1>5 DEF ExitOutcome, SameCount
<1>6. CASE r = [outcome |-> "IGNORED", state |-> seen] BY <1>1, <1>6 DEF ExitOutcome
<1>7. CASE r = [outcome |-> "ACCUMULATED", state |-> full] /\ t \notin l.keys BY <1>2, <1>3, <1>7 DEF ExitOutcome
<1>8. CASE r = [outcome |-> "SUSPENDED", state |-> StartGap(seen)]
  <2>1. LifeStep(StartGap(seen), seen) /\ StartGap(seen).state = l.state BY <1>1, GapStarts
  <2>2. PICK g : g = StartGap(seen) OBVIOUS
  <2>3. g \in Lives /\ g.attempt = l.attempt /\ g.state = l.state /\ (Empty(g) \/ SameCount(g, l))
    BY <1>1, <2>1, <2>2 DEF LifeStep, SameCount
  <2>. QED BY <1>8, <2>2, <2>3 DEF ExitOutcome
<1>9. CASE r = [outcome |-> "SUSPENDED", state |-> CancelVersion(seen)] BY <1>1, <1>9, LifeCancels DEF ExitOutcome
<1>10. CASE r = [outcome |-> "CLOSED", state |-> CloseLife(seen)] /\ ~(full.cumulative < Quantity)
            /\ t \notin l.keys
  <2>1. full.cumulative >= Quantity BY <1>2, <1>10, BoundsAssumption DEF Lives
  <2>. QED BY <1>1, <1>3, <1>10, <2>1, LifeCloses DEF ExitOutcome
<1>. QED BY <1>4, <1>5, <1>6, <1>7, <1>8, <1>9, <1>10

-----------------------------------------------------------------------------
(* What is stored, and what is in memory.                                  *)

Over == {"CANCELLED", "CLOSED", "none"}
Stages == {"OPEN"} \cup Held \cup Over

\* The status a stored row stands for.
StageOf(r) == IF r.kind = "entry" THEN r.status ELSE IF r.state = "FLAT" THEN "CLOSED" ELSE r.state

\* The one stored row is the only attempt that is not over, and counts nothing.
StoredInv ==
    /\ runtime \in {None} \cup Entries \cup Lives /\ stage \in [Attempts -> Stages]
    /\ clock \in Nat /\ stored \subseteq Trades
    /\ runtime # None => /\ Empty(runtime) /\ clock <= MaxClock
                         /\ stage[runtime.attempt] = StageOf(runtime)
                         /\ runtime \in Entries => runtime.status # "FILLED"
    /\ \A a \in Attempts : stage[a] \notin Over => runtime # None /\ a = runtime.attempt

\* What runs is what is stored.
MemoryInv ==
    /\ up \in BOOLEAN /\ broker \in {None} \cup Entries /\ lifecycle \in {None} \cup Lives
    /\ broker # None => /\ up /\ broker.status = "OPEN" /\ lifecycle = None
                        /\ runtime \in Entries /\ runtime.attempt = broker.attempt
                        /\ runtime.status = "OPEN"
    /\ lifecycle # None => /\ up /\ lifecycle.state \in Held
                           /\ runtime \in Lives /\ runtime.attempt = lifecycle.attempt
                           /\ runtime.state = lifecycle.state
    /\ up => /\ runtime \in Entries /\ runtime.status = "OPEN" => broker # None
             /\ runtime \in Lives /\ runtime.state # "FLAT" => lifecycle # None

\* A trade that is being computed was computed on the order that still stands.
PendingInv ==
    \A p \in pending : p.trade \in Trades /\ broker # None /\ Outcome(broker, p.trade, p.result)

\* How the stored status of an attempt may change.
Allowed(x, y) ==
    \/ y = x
    \/ x = "OPEN" /\ y \in {"CANCELLED", "HOLDING", "EXITING_NORMAL"}
    \/ x \in Held /\ y = "CLOSED"
    \/ x = "HOLDING" /\ y = "EXITING_NORMAL"
    \/ x = "EXITING_NORMAL" /\ y = "EXITING_AGGRESSIVE"

\* The stages are those of the promise.
LEMMA SameStages ==
    /\ Promise!Attempts = Attempts /\ Promise!Held = Held
    /\ Promise!Ended \cup {"none"} = Over
BY DEF Promise!Attempts, Attempts, Promise!Held, Held, Promise!Ended, Over

\* An allowed change is a step of the promise.
LEMMA Promised ==
    ASSUME NEW a \in Attempts, NEW y, stage \in [Attempts -> Stages],
           stage' = [stage EXCEPT ![a] = y], Allowed(stage[a], y)
    PROVE  [Promise!Next]_stage
<1>1. a \in Promise!Attempts BY SameStages
<1>2. CASE y = stage[a] BY <1>2
<1>3. CASE stage[a] = "OPEN" /\ y \in {"CANCELLED", "HOLDING", "EXITING_NORMAL"}
  BY <1>3, <1>1 DEF Promise!Cancel, Promise!Fill, Promise!Becomes, Promise!Next
<1>4. CASE stage[a] \in Held /\ y = "CLOSED"
  BY <1>4, SameStages, <1>1 DEF Promise!Close, Promise!Becomes, Promise!Next
<1>5. CASE stage[a] = "HOLDING" /\ y = "EXITING_NORMAL"
  BY <1>5, <1>1 DEF Promise!Leave, Promise!Becomes, Promise!Next
<1>6. CASE stage[a] = "EXITING_NORMAL" /\ y = "EXITING_AGGRESSIVE"
  BY <1>6, <1>1 DEF Promise!Hurry, Promise!Becomes, Promise!Next
<1>. QED BY <1>2, <1>3, <1>4, <1>5, <1>6 DEF Allowed

\* Saving an entry, in place of what is over or of itself.
LEMMA SavedEntry ==
    ASSUME StoredInv, NEW b \in Entries, SaveEntry(b), b.status \in {"OPEN", "CANCELLED"},
           UNCHANGED clock, stored' \subseteq Trades, clock <= MaxClock,
           \A c \in Attempts : stage[c] \notin Over => c = b.attempt
    PROVE  /\ StoredInv' /\ runtime' \in Entries
           /\ runtime'.attempt = b.attempt /\ runtime'.status = b.status
<1>1. PICK o \in Entries : /\ o = Forget(b) /\ Empty(o) /\ o.attempt = b.attempt
                           /\ o.status = b.status
  BY EntryForgets
<1>2. runtime' = o /\ o # None /\ o.kind = "entry" /\ o \notin Lives BY <1>1, Kinds DEF SaveEntry
<1>3. b.attempt \in Attempts BY DEF Entries
<1>4. stage' = [stage EXCEPT ![b.attempt] = b.status] /\ stage \in [Attempts -> Stages] BY DEF SaveEntry, StoredInv
<1>5. stage' \in [Attempts -> Stages] /\ stage'[b.attempt] = b.status
      /\ \A c \in Attempts : c # b.attempt => stage'[c] = stage[c]
  BY <1>3, <1>4 DEF Stages, Over
<1>6. b.status # "FILLED" OBVIOUS
<1>. QED BY <1>1, <1>2, <1>5, <1>6 DEF StoredInv, StageOf

\* Saving a position, in place of what is over or of itself.
LEMMA SavedLife ==
    ASSUME StoredInv, NEW l \in Lives, SaveLife(l),
           UNCHANGED clock, stored' \subseteq Trades, clock <= MaxClock,
           \A c \in Attempts : stage[c] \notin Over => c = l.attempt
    PROVE  /\ StoredInv' /\ runtime' \in Lives
           /\ runtime'.attempt = l.attempt /\ runtime'.state = l.state
<1>1. PICK o \in Lives : /\ o = Forget(l) /\ Empty(o) /\ o.attempt = l.attempt
                         /\ o.state = l.state
  BY LifeForgets
<1>2. runtime' = o /\ o # None /\ o.kind = "exit" /\ o \notin Entries BY <1>1, Kinds DEF SaveLife
<1>3. l.attempt \in Attempts /\ l.state \in Held \cup {"FLAT"} BY DEF Lives
<1>4. /\ stage' = [stage EXCEPT ![l.attempt] = IF l.state = "FLAT" THEN "CLOSED" ELSE l.state]
      /\ stage \in [Attempts -> Stages]
  BY DEF SaveLife, StoredInv
<1>5. stage' \in [Attempts -> Stages]
      /\ stage'[l.attempt] = (IF l.state = "FLAT" THEN "CLOSED" ELSE l.state)
      /\ \A c \in Attempts : c # l.attempt => stage'[c] = stage[c]
  BY <1>3, <1>4 DEF Stages, Over
<1>. QED BY <1>1, <1>2, <1>5 DEF StoredInv, StageOf

\* The attempt that runs is the one that is not over.
LEMMA Running ==
    ASSUME StoredInv, MemoryInv
    PROVE  /\ \A a \in Attempts : stage[a] \notin Over => runtime # None /\ a = runtime.attempt
           /\ broker # None => /\ stage[broker.attempt] = "OPEN" /\ broker \in Entries /\ clock <= MaxClock
                               /\ broker.attempt \in Attempts /\ runtime.attempt = broker.attempt
           /\ lifecycle # None =>
                 /\ stage[lifecycle.attempt] = lifecycle.state /\ lifecycle \in Lives
                 /\ clock <= MaxClock
                 /\ lifecycle.attempt \in Attempts /\ runtime.attempt = lifecycle.attempt
           /\ up /\ broker = None /\ lifecycle = None => \A a \in Attempts : stage[a] \in Over
           /\ EntryOpen(broker) <=> broker # None
<1>1. broker \in {None} \cup Entries /\ lifecycle \in {None} \cup Lives BY DEF MemoryInv
<1>2. ASSUME broker # None
      PROVE  /\ stage[broker.attempt] = "OPEN" /\ broker \in Entries /\ clock <= MaxClock
             /\ broker.attempt \in Attempts /\ runtime.attempt = broker.attempt
  BY <1>1, <1>2, Kinds DEF MemoryInv, Entries, StoredInv, StageOf
<1>3. ASSUME lifecycle # None
      PROVE  /\ stage[lifecycle.attempt] = lifecycle.state /\ lifecycle \in Lives /\ clock <= MaxClock
             /\ lifecycle.attempt \in Attempts /\ runtime.attempt = lifecycle.attempt
  BY <1>1, <1>3, Kinds DEF MemoryInv, Lives, Held, StoredInv, StageOf
<1>4. ASSUME up, broker = None, lifecycle = None, NEW a \in Attempts, stage[a] \notin Over
      PROVE  FALSE
  <2>1. runtime # None /\ a = runtime.attempt /\ stage[a] = StageOf(runtime)
        /\ runtime \in Entries \cup Lives
    BY <1>4 DEF StoredInv
  <2>2. CASE runtime \in Entries BY <2>1, <2>2, <1>4 DEF StoredInv, Entries, MemoryInv, StageOf, Over
  <2>3. CASE runtime \in Lives BY <1>4, <2>1, <2>3, Kinds DEF MemoryInv, StageOf, Over
  <2>. QED BY <2>1, <2>2, <2>3
<1>5. EntryOpen(broker) <=> broker # None BY <1>1, Kinds DEF MemoryInv, EntryOpen
<1>. QED BY <1>2, <1>3, <1>4, <1>5 DEF StoredInv

\* An entry saved in place of the one that runs.
LEMMA EntryKept ==
    ASSUME StoredInv, MemoryInv, broker # None, NEW b \in Entries, b.attempt = broker.attempt,
           b.status \in {"OPEN", "CANCELLED"}, SaveEntry(b), KeepBroker(b),
           UNCHANGED <<clock, up, lifecycle>>, stored' \subseteq Trades
    PROVE  StoredInv' /\ MemoryInv' /\ [Promise!Next]_stage
<1>1. /\ stage[b.attempt] = "OPEN" /\ clock <= MaxClock /\ b.attempt \in Attempts
      /\ \A c \in Attempts : stage[c] \notin Over => c = b.attempt
      /\ up /\ lifecycle = None
  BY Running DEF MemoryInv
<1>2. /\ StoredInv' /\ runtime' \in Entries
      /\ runtime'.attempt = b.attempt /\ runtime'.status = b.status
  BY <1>1, SavedEntry
<1>3. broker' = IF b.status = "OPEN" THEN b ELSE None BY Kinds DEF KeepBroker, EntryOpen
<1>4. MemoryInv' BY <1>1, <1>2, <1>3, Kinds DEF MemoryInv
<1>5. [Promise!Next]_stage BY <1>1, Promised DEF SaveEntry, StoredInv, Allowed
<1>. QED BY <1>2, <1>4, <1>5

\* A position saved in place of the one that runs.
LEMMA LifeKept ==
    ASSUME StoredInv, MemoryInv, lifecycle # None, NEW l \in Lives, l.attempt = lifecycle.attempt,
           Moved(lifecycle.state, l.state), SaveLife(l), KeepLife(l),
           UNCHANGED <<clock, up, broker>>, stored' \subseteq Trades
    PROVE  StoredInv' /\ MemoryInv' /\ [Promise!Next]_stage
<1>1. /\ stage[l.attempt] = lifecycle.state /\ clock <= MaxClock /\ l.attempt \in Attempts
      /\ \A c \in Attempts : stage[c] \notin Over => c = l.attempt
      /\ up /\ broker = None /\ lifecycle.state \in Held
  BY Running DEF MemoryInv
<1>2. /\ StoredInv' /\ runtime' \in Lives
      /\ runtime'.attempt = l.attempt /\ runtime'.state = l.state
  BY <1>1, SavedLife
<1>3. lifecycle' = IF l.state = "FLAT" THEN None ELSE l BY DEF KeepLife
<1>4. l.state \in Held \cup {"FLAT"} BY DEF Lives
<1>5. MemoryInv' BY <1>1, <1>2, <1>3, <1>4, Kinds DEF MemoryInv
<1>6. [Promise!Next]_stage BY <1>1, Promised DEF SaveLife, StoredInv, Allowed, Moved
<1>. QED BY <1>2, <1>5, <1>6

-----------------------------------------------------------------------------
(* Each step, what is stored, what runs, and the promise.                  *)

\* A placed entry is alone.
LEMMA ActivateKeeps ==
    ASSUME StoredInv, MemoryInv, NEW a \in Attempts, Activate(a)
    PROVE  StoredInv' /\ MemoryInv' /\ [Promise!Next]_stage
<1>. DEFINE b == NewEntry(a)
<1>1. b \in Entries /\ b.attempt = a /\ b.status = "OPEN"
  <2>1. PICK q \in Seq(Counts) : q = <<>>
    <3>1. <<>> \in Seq(Counts) OBVIOUS
    <3>. QED BY <3>1
  <2>2. PICK c \in Nat : c = clock + 1 BY DEF StoredInv
  <2>3. b = [kind |-> "entry", attempt |-> a, cutoff |-> c, status |-> "OPEN", version |-> 1,
             cumulative |-> 0, qualifying |-> q, keys |-> {}]
    BY <2>1, <2>2 DEF NewEntry
  <2>. QED BY <2>3 DEF Entries
<1>. HIDE DEF b
<1>2. /\ up /\ broker = None /\ lifecycle = None /\ clock < MaxClock /\ stage[a] = "none"
      /\ broker' = b /\ SaveEntry(b) /\ UNCHANGED <<clock, up, lifecycle, stored>>
  BY DEF Activate, b
<1>3. \A c \in Attempts : stage[c] \in Over BY <1>2, Running
<1>4. clock <= MaxClock /\ stored' \subseteq Trades BY <1>2, BoundsAssumption DEF StoredInv
<1>5. StoredInv' /\ runtime' \in Entries /\ runtime'.attempt = a /\ runtime'.status = "OPEN"
  BY <1>1, <1>2, <1>3, <1>4, SavedEntry
<1>6. MemoryInv' BY <1>1, <1>2, <1>5, Kinds DEF MemoryInv
<1>7. Promise!Place(a) BY <1>1, <1>2, <1>3, SameStages DEF SaveEntry, Promise!Place, Promise!Becomes
<1>8. [Promise!Next]_stage BY <1>7, SameStages DEF Promise!Next
<1>. QED BY <1>5, <1>6, <1>8

\* The cutoff cancels, and what was being computed is forgotten.
LEMMA CancelKeeps ==
    ASSUME StoredInv, MemoryInv, CancelAtCutoff
    PROVE  StoredInv' /\ MemoryInv' /\ [Promise!Next]_stage /\ pending' = {}
<1>1. PICK b : b = CancelEntry(broker) OBVIOUS
<1>2. broker # None /\ broker \in Entries BY Running DEF CancelAtCutoff
<1>3. b \in Entries /\ b.attempt = broker.attempt /\ b.status = "CANCELLED" BY <1>1, <1>2, EntryCancels
<1>4. /\ SaveEntry(b) /\ broker' = None /\ UNCHANGED <<clock, up, lifecycle, stored>>
      /\ pending' = {}
  BY <1>1 DEF CancelAtCutoff, Current
<1>5. KeepBroker(b) /\ stored' \subseteq Trades BY <1>3, <1>4 DEF KeepBroker, EntryOpen, StoredInv
<1>. QED BY <1>2, <1>3, <1>4, <1>5, EntryKept

\* A refresh saves the entry that runs.
LEMMA RefreshKeeps ==
    ASSUME StoredInv, MemoryInv, NEW b, NEW unchanged, RefreshEntry(b, unchanged)
    PROVE  /\ StoredInv' /\ MemoryInv' /\ [Promise!Next]_stage
           /\ pending' = {} \/ (pending' = pending /\ broker' = broker)
<1>1. broker # None /\ broker \in Entries /\ broker.status = "OPEN" BY Running DEF RefreshEntry, MemoryInv
<1>2. b \in Refreshed(broker) BY DEF RefreshEntry
<1>3. /\ b \in Entries /\ b.attempt = broker.attempt
      /\ b = broker \/ (Empty(b) /\ b.status \in {"OPEN", "CANCELLED"})
  BY <1>1, <1>2, RefreshedEntry
<1>4. /\ SaveEntry(b) /\ KeepBroker(b) /\ UNCHANGED <<clock, up, lifecycle, stored>>
      /\ unchanged => b = broker /\ pending' = Current(pending, unchanged)
  BY DEF RefreshEntry
<1>5. pending' = Current(pending, unchanged) /\ (unchanged => b = broker) BY DEF RefreshEntry
<1>6. b.status \in {"OPEN", "CANCELLED"} /\ stored' \subseteq Trades BY <1>1, <1>3, <1>4 DEF StoredInv
<1>7. StoredInv' /\ MemoryInv' /\ [Promise!Next]_stage BY <1>1, <1>3, <1>4, <1>6, EntryKept
<1>8. b = broker => broker' = broker BY <1>1, <1>4, Running DEF KeepBroker
<1>. QED BY <1>5, <1>7, <1>8 DEF Current

\* What a committed trade is.
LEMMA Committed ==
    ASSUME StoredInv, MemoryInv, PendingInv, NEW p \in pending, NEW s, CommitTrade(p, s)
    PROVE  /\ broker # None /\ broker \in Entries /\ broker.status = "OPEN"
           /\ p.trade \in Trades /\ Outcome(broker, p.trade, p.result)
           /\ p.trade \notin stored /\ stored' = stored \cup {p.trade}
           /\ stored' \subseteq Trades
           /\ p.result.outcome = "OPENED" =>
                 /\ SaveLife(NewLife(p.result.state, s))
                 /\ SaveFill(p.result.state, p.result.state.qualifying, p.result.state.cutoff)
                 /\ broker' = None /\ lifecycle' = NewLife(p.result.state, s)
           /\ p.result.outcome # "OPENED" =>
                 /\ SaveEntry(p.result.state) /\ KeepBroker(p.result.state)
                 /\ UNCHANGED <<lifecycle, fills>>
           /\ pending' = IF p.result.state = broker THEN pending \ {p} ELSE {}
           /\ UNCHANGED <<clock, up>>
BY Running DEF PendingInv, MemoryInv, CommitTrade, SaveTrade, StoredInv, Current

\* A new position counts nothing.
LEMMA LifeOpens ==
    ASSUME NEW b \in Entries, NEW s \in {"HOLDING", "EXITING_NORMAL"}
    PROVE  /\ NewLife(b, s) \in Lives /\ Empty(NewLife(b, s))
           /\ NewLife(b, s).attempt = b.attempt /\ NewLife(b, s).state = s
<1>0. <<>> \in Seq(Counts) OBVIOUS
<1>1. PICK q \in Seq(Counts) : q = <<>> BY <1>0
<1>2. PICK ks \in SUBSET Trades, a \in Attempts : ks = b.keys /\ a = b.attempt BY DEF Entries
<1>3. NewLife(b, s) = [kind |-> "exit", attempt |-> a, state |-> s, gap |-> FALSE,
                       active |-> FALSE, version |-> 0, mode |-> s, cumulative |-> 0,
                       qualifying |-> q, keys |-> ks]
  BY <1>1, <1>2 DEF NewLife
<1>. QED BY <1>1, <1>2, <1>3 DEF Lives, Held, Empty

\* A commit saves the entry, or opens the position of the entry that runs.
LEMMA CommitKeeps ==
    ASSUME StoredInv, MemoryInv, PendingInv, NEW p \in pending,
           NEW s \in {"HOLDING", "EXITING_NORMAL"}, CommitTrade(p, s)
    PROVE  /\ StoredInv' /\ MemoryInv' /\ [Promise!Next]_stage
           /\ pending' = {} \/ (pending' = pending \ {p} /\ broker' = broker)
<1>. DEFINE b == p.result.state
<1>0. /\ broker # None /\ broker \in Entries /\ broker.status = "OPEN" /\ stored' \subseteq Trades
      /\ b \in Entries /\ b.attempt = broker.attempt
  BY Committed DEF Outcome
<1>1. CASE p.result.outcome # "OPENED" BY <1>1, Committed, <1>0, EntryKept, Running DEF Outcome, KeepBroker
<1>2. CASE p.result.outcome = "OPENED"
  <2>1. PICK l : l = NewLife(b, s) OBVIOUS
  <2>2. l \in Lives /\ l.attempt = b.attempt /\ l.state = s BY <1>0, <2>1, LifeOpens
  <2>3. /\ SaveLife(l) /\ broker' = None /\ lifecycle' = l /\ UNCHANGED <<clock, up>>
        /\ pending' = (IF b = broker THEN pending \ {p} ELSE {})
    BY <1>2, <2>1, Committed
  <2>4. /\ stage[l.attempt] = "OPEN" /\ clock <= MaxClock /\ l.attempt \in Attempts
        /\ \A c \in Attempts : stage[c] \notin Over => c = l.attempt
        /\ up
    BY <1>0, <2>2, Running DEF MemoryInv
  <2>5. StoredInv' /\ runtime' \in Lives /\ runtime'.attempt = l.attempt /\ runtime'.state = l.state
    BY <1>0, <2>2, <2>3, <2>4, SavedLife
  <2>6. MemoryInv' BY <2>2, <2>3, <2>4, <2>5, Kinds DEF MemoryInv, Held
  <2>7. [Promise!Next]_stage BY <2>2, <2>3, <2>4, Promised DEF SaveLife, StoredInv, Allowed
  <2>8. b # broker BY <1>2, Committed, <1>0 DEF Outcome
  <2>. QED BY <2>3, <2>5, <2>6, <2>7, <2>8
<1>. QED BY <1>1, <1>2

\* A trade on a position saves it.
LEMMA ExitKeeps ==
    ASSUME StoredInv, MemoryInv, NEW t \in Trades, NEW crosses, NEW r, ExitTrade(t, crosses, r)
    PROVE  /\ StoredInv' /\ MemoryInv' /\ [Promise!Next]_stage /\ pending' = pending /\ broker' = broker
           /\ lifecycle # None /\ lifecycle \in Lives /\ ExitOutcome(lifecycle, t, r)
<1>1. lifecycle # None /\ lifecycle \in Lives /\ lifecycle.state \in Held BY Running DEF ExitTrade, MemoryInv
<1>2. r \in ExitProcessed(lifecycle, t, crosses) BY DEF ExitTrade
<1>3. ExitOutcome(lifecycle, t, r) BY <1>1, <1>2, ProcessedExit
<1>4. PICK l \in Lives : l = r.state /\ l.attempt = lifecycle.attempt /\ Moved(lifecycle.state, l.state)
  BY <1>3 DEF ExitOutcome, Moved
<1>5. /\ SaveLife(l) /\ KeepLife(l) /\ UNCHANGED <<clock, up, broker, pending>>
      /\ stored' \subseteq Trades
  BY <1>4 DEF ExitTrade, SaveTrade, StoredInv
<1>. QED BY <1>1, <1>3, <1>4, <1>5, LifeKept

\* An evaluation saves the position.
LEMMA MonitorKeeps ==
    ASSUME StoredInv, MemoryInv, NEW l, Monitor(l)
    PROVE  /\ StoredInv' /\ MemoryInv' /\ [Promise!Next]_stage /\ pending' = pending /\ broker' = broker
           /\ lifecycle # None /\ lifecycle \in Lives /\ LifeStep(l, lifecycle)
<1>1. lifecycle # None /\ lifecycle \in Lives /\ lifecycle.state \in Held BY Running DEF Monitor, MemoryInv
<1>2. \/ \E only \in BOOLEAN : l \in Evaluated(lifecycle, only)
      \/ l = StartGap(lifecycle) \/ l \in Recovered(lifecycle)
  BY DEF Monitor
<1>3. LifeStep(l, lifecycle) /\ Moved(lifecycle.state, l.state)
  <2>1. CASE \E only \in BOOLEAN : l \in Evaluated(lifecycle, only) BY <1>1, <2>1, EvaluatedLife
  <2>2. CASE l = StartGap(lifecycle) BY <1>1, <2>2, GapStarts DEF Moved
  <2>3. CASE l \in Recovered(lifecycle) BY <1>1, <2>3, RecoveredLife
  <2>. QED BY <1>2, <2>1, <2>2, <2>3
<1>4. /\ SaveLife(l) /\ KeepLife(l) /\ UNCHANGED <<clock, up, broker, pending>>
      /\ stored' \subseteq Trades
  BY DEF Monitor, StoredInv
<1>5. l \in Lives /\ l.attempt = lifecycle.attempt BY <1>3 DEF LifeStep
<1>. QED BY <1>1, <1>3, <1>4, <1>5, LifeKept

\* A stop forgets what runs.
LEMMA StopKeeps ==
    ASSUME StoredInv, MemoryInv, NEW safely, Stop(safely)
    PROVE  StoredInv' /\ MemoryInv' /\ [Promise!Next]_stage /\ pending' = {}
<1>1. /\ up' = FALSE /\ broker' = None /\ pending' = {} /\ lifecycle' = None
      /\ UNCHANGED <<clock, stored>>
  BY DEF Stop
<1>2. MemoryInv' BY <1>1 DEF MemoryInv
<1>3. CASE safely /\ EntryOpen(broker)
  <2>1. PICK b : b = CancelEntry(broker) OBVIOUS
  <2>2. broker # None /\ broker \in Entries BY <1>3, Running
  <2>3. b \in Entries /\ b.attempt = broker.attempt /\ b.status = "CANCELLED" /\ SaveEntry(b)
    BY <1>3, <2>1, <2>2, EntryCancels DEF Stop
  <2>4. /\ stage[b.attempt] = "OPEN" /\ clock <= MaxClock /\ b.attempt \in Attempts
        /\ \A c \in Attempts : stage[c] \notin Over => c = b.attempt
        /\ stored' \subseteq Trades
    BY <1>1, <2>2, <2>3, Running DEF StoredInv
  <2>5. StoredInv' BY <1>1, <2>3, <2>4, SavedEntry
  <2>6. stage' = [stage EXCEPT ![b.attempt] = "CANCELLED"] /\ stage \in [Attempts -> Stages]
    BY <2>3 DEF SaveEntry, StoredInv
  <2>7. [Promise!Next]_stage BY <2>4, <2>6, Promised DEF Allowed
  <2>. QED BY <1>1, <1>2, <2>5, <2>7
<1>4. CASE ~(safely /\ EntryOpen(broker)) BY <1>4, <1>1, <1>2 DEF Stop, StoredInv
<1>. QED BY <1>3, <1>4

\* A restart fills and reopens nothing.
LEMMA RestoreKeeps ==
    ASSUME StoredInv, MemoryInv, Restore
    PROVE  /\ StoredInv' /\ MemoryInv' /\ [Promise!Next]_stage /\ pending' = pending
           /\ broker = None /\ broker' = None
           /\ lifecycle' # None => lifecycle' \in Lives /\ Empty(lifecycle')
<1>1. /\ ~up /\ up' = TRUE /\ broker = None /\ lifecycle = None /\ broker' = None
      /\ UNCHANGED <<clock, pending, stored>> /\ stored' \subseteq Trades
  BY DEF Restore, MemoryInv, StoredInv
<1>2. CASE EntryOpen(runtime)
  <2>1. PICK b : b = CancelEntry(runtime) OBVIOUS
  <2>2. runtime \in Entries /\ runtime # None /\ runtime.status = "OPEN" /\ runtime.kind = "entry"
    BY <1>2, Kinds DEF StoredInv, EntryOpen
  <2>3. /\ b \in Entries /\ b.attempt = runtime.attempt /\ b.status = "CANCELLED"
        /\ SaveEntry(b) /\ lifecycle' = None
    BY <1>2, <2>1, <2>2, EntryCancels DEF Restore
  <2>4. /\ stage[b.attempt] = "OPEN" /\ clock <= MaxClock /\ b.attempt \in Attempts
        /\ \A c \in Attempts : stage[c] \notin Over => c = b.attempt
    BY <2>2, <2>3 DEF StoredInv, StageOf, Entries
  <2>5. StoredInv' /\ runtime' \in Entries /\ runtime'.status = "CANCELLED" BY <1>1, <2>3, <2>4, SavedEntry
  <2>6. stage' = [stage EXCEPT ![b.attempt] = "CANCELLED"] /\ stage \in [Attempts -> Stages]
    BY <2>3 DEF SaveEntry, StoredInv
  <2>7. [Promise!Next]_stage BY <2>4, <2>6, Promised DEF Allowed
  <2>8. MemoryInv' BY <1>1, <2>3, <2>5, Kinds DEF MemoryInv
  <2>. QED BY <1>1, <2>3, <2>5, <2>7, <2>8
<1>3. CASE ~EntryOpen(runtime) /\ runtime.kind = "exit" /\ runtime.state # "FLAT"
  <2>1. runtime \in Lives /\ runtime # None /\ runtime.state \in Held BY <1>3, Kinds DEF StoredInv, Lives
  <2>2. PICK l \in Restarted(runtime) : SaveLife(l) /\ KeepLife(l) BY <1>3 DEF Restore
  <2>3. LifeStep(l, runtime) /\ Moved(runtime.state, l.state) BY <2>1, <2>2, RestartedLife
  <2>4. l \in Lives /\ l.attempt = runtime.attempt /\ l.state \in Held \cup {"FLAT"} BY <2>3 DEF LifeStep, Lives
  <2>5. Empty(l) BY <2>1, <2>3 DEF LifeStep, SameCount, Empty, StoredInv
  <2>6. /\ stage[l.attempt] = runtime.state /\ clock <= MaxClock /\ l.attempt \in Attempts
        /\ \A c \in Attempts : stage[c] \notin Over => c = l.attempt
    BY <1>3, <2>1, <2>4 DEF StageOf, Lives, StoredInv
  <2>7. /\ StoredInv' /\ runtime' \in Lives /\ runtime'.attempt = l.attempt
        /\ runtime'.state = l.state
    BY <1>1, <2>2, <2>4, <2>6, SavedLife
  <2>8. lifecycle' = IF l.state = "FLAT" THEN None ELSE l BY <2>2 DEF KeepLife
  <2>9. MemoryInv' BY <1>1, <2>4, <2>7, <2>8, Kinds DEF MemoryInv
  <2>10. [Promise!Next]_stage BY <2>2, <2>1, <2>3, <2>6, Promised DEF SaveLife, StoredInv, Allowed, Moved
  <2>. QED BY <1>1, <2>4, <2>5, <2>7, <2>8, <2>9, <2>10
<1>4. CASE ~EntryOpen(runtime) /\ ~(runtime.kind = "exit" /\ runtime.state # "FLAT")
  BY <1>4, <1>1, Kinds DEF Restore, StoredInv, MemoryInv, EntryOpen
<1>. QED BY <1>2, <1>3, <1>4

-----------------------------------------------------------------------------
(* What fills are proven by.                                               *)

Used(F) == UNION {TradesOf(f) : f \in F}

\* What counts for an order is stored, proves no fill yet, and came in time.
Earned(o, S, F, before) ==
    /\ Good(o)
    /\ \A i \in DOMAIN o.qualifying : /\ o.qualifying[i].trade \in S \ Used(F)
                                      /\ o.qualifying[i].trade.at < before

OrderInv ==
    /\ broker # None => Earned(broker, stored, fills, broker.cutoff)
    /\ lifecycle # None => Earned(lifecycle, stored, fills, MaxClock + 1)

\* One fill, and all of them.
FillEarned(f) == /\ Distinct(f) /\ OnVersion(f) /\ InTime(f)
                 /\ Total(f.proof) >= Quantity

FillsInv ==
    /\ \A f \in fills : FillEarned(f) /\ TradesOf(f) \subseteq stored
    /\ \A f, g \in fills : f # g => TradesOf(f) \cap TradesOf(g) = {}

\* Nothing counted is earned.
LEMMA EarnedEmpty == \A o, S, F, n : Empty(o) => Earned(o, S, F, n)
BY EmptyGood DEF Empty, Earned

\* What was earned is, where the order keeps it.
LEMMA EarnedSame ==
    ASSUME NEW o, NEW p, NEW S, NEW S2, NEW F, NEW n, Earned(o, S, F, n), SameCount(p, o), S \subseteq S2
    PROVE  Earned(p, S2, F, n)
BY SameGood DEF Earned, SameCount

\* A trade that was not stored before is earned once.
LEMMA EarnedMore ==
    ASSUME NEW o, NEW p, NEW t \in Trades, NEW S, NEW F, NEW n,
           o.qualifying \in Seq(Counts), o.cumulative \in Nat,
           Version(o) \in Versions, Earned(o, S, F, n), t \notin o.keys, t \notin S,
           Used(F) \subseteq S, t.at < n, Version(p) = Version(o), p.keys = o.keys \cup {t},
           p.qualifying = Counted(o, t), p.cumulative = o.cumulative + t.quantity
    PROVE  Earned(p, S \cup {t}, F, n)
<1>1. Good(p) BY CountedGood DEF Earned
<1>2. PICK c : c = [trade |-> t, on |-> Version(o)] OBVIOUS
<1>3. c \in Counts /\ c.trade = t /\ p.qualifying = Append(o.qualifying, c) BY <1>2 DEF Counts, Counted
<1>4. PICK m \in Nat : m = Len(o.qualifying) OBVIOUS
<1>5. /\ DOMAIN p.qualifying = 1..(m + 1) /\ p.qualifying[m + 1] = c
      /\ \A i \in 1..m : p.qualifying[i] = o.qualifying[i]
      /\ DOMAIN o.qualifying = 1..m /\ \A i \in 1..(m + 1) : i = m + 1 \/ i \in 1..m
  BY <1>3, <1>4
<1>6. t \notin Used(F) OBVIOUS
<1>. QED BY <1>1, <1>3, <1>5, <1>6 DEF Earned

\* A filled order proves its fill.
LEMMA EarnedFill ==
    ASSUME NEW o, NEW S, NEW F, NEW n, Earned(o, S, F, n), o.qualifying \in Seq(Counts),
           o.cumulative \in Nat, o.cumulative >= Quantity,
           NEW f, f = [version |-> Version(o), proof |-> o.qualifying, before |-> n]
    PROVE  FillEarned(f) /\ TradesOf(f) \subseteq S /\ TradesOf(f) \cap Used(F) = {}
BY AddsTotal DEF Earned, Good, FillEarned, Distinct, OnVersion, InTime, TradesOf

\* One fill more.
LEMMA FillsAdded ==
    ASSUME FillsInv, NEW f, FillEarned(f), TradesOf(f) \subseteq stored',
           TradesOf(f) \cap Used(fills) = {}, stored \subseteq stored', fills' = fills \cup {f}
    PROVE  FillsInv'
BY DEF Used, FillsInv

\* What proves a fill is stored.
LEMMA UsedStored == FillsInv => Used(fills) \subseteq stored
BY DEF FillsInv, Used

\* Storing more trades leaves the fills as they are.
LEMMA FillsKept ==
    ASSUME FillsInv, fills' = fills, stored \subseteq stored'
    PROVE  FillsInv'
BY DEF FillsInv

Inv == StoredInv /\ MemoryInv /\ PendingInv /\ OrderInv /\ FillsInv

\* The invariant at the start.
LEMMA InitInv == Init => Inv
<1>. SUFFICES ASSUME Init PROVE Inv OBVIOUS
<1>1. StoredInv /\ MemoryInv BY Kinds DEF Init, Stages, Over, StoredInv, MemoryInv
<1>2. PendingInv /\ OrderInv /\ FillsInv BY DEF Init, PendingInv, OrderInv, FillsInv
<1>. QED BY <1>1, <1>2 DEF Inv

\* The commit of a trade.
LEMMA CommitEarns ==
    ASSUME Inv, NEW p \in pending, NEW s \in {"HOLDING", "EXITING_NORMAL"}, CommitTrade(p, s)
    PROVE  OrderInv' /\ FillsInv'
<1>. USE DEF Inv
<1>. DEFINE b == p.result.state
<1>0. /\ broker # None /\ broker \in Entries /\ Outcome(broker, p.trade, p.result)
      /\ p.trade \in Trades /\ p.trade \notin stored /\ stored' = stored \cup {p.trade}
      /\ b \in Entries
  BY Committed DEF Outcome
<1>1. /\ broker.qualifying \in Seq(Counts) /\ broker.cumulative \in Nat /\ Version(broker) \in Versions
      /\ b.qualifying \in Seq(Counts) /\ b.cumulative \in Nat
  BY <1>0, VersionTyped DEF Entries
<1>2. Earned(broker, stored, fills, broker.cutoff) /\ Used(fills) \subseteq stored BY <1>0, UsedStored DEF OrderInv
<1>3. /\ p.result.outcome \in {"ACCUMULATED", "OPENED"} =>
             b.cutoff = broker.cutoff /\ Earned(b, stored', fills, b.cutoff)
      /\ p.result.outcome = "IGNORED" => b.cutoff = broker.cutoff /\ Earned(b, stored', fills, b.cutoff)
      /\ p.result.outcome = "CANCELLED" => Earned(b, stored', fills, b.cutoff)
  <2>1. CASE p.result.outcome \in {"ACCUMULATED", "OPENED"} BY <1>0, <2>1, <1>1, <1>2, EarnedMore DEF Outcome
  <2>2. CASE p.result.outcome = "IGNORED" BY <1>0, <2>2, <1>2, EarnedSame DEF Outcome
  <2>3. CASE p.result.outcome = "CANCELLED" BY <1>0, <2>3, EarnedEmpty DEF Outcome
  <2>. QED BY <2>1, <2>2, <2>3
<1>4. p.result.outcome \in {"ACCUMULATED", "OPENED", "IGNORED", "CANCELLED"} BY <1>0 DEF Outcome
<1>5. CASE p.result.outcome # "OPENED"
  BY <1>5, Committed, <1>0, FillsKept, <1>3, <1>4 DEF KeepBroker, MemoryInv, OrderInv
<1>6. CASE p.result.outcome = "OPENED"
  <2>1. /\ broker' = None /\ lifecycle' = NewLife(b, s) /\ SaveFill(b, b.qualifying, b.cutoff)
        /\ b.cumulative >= Quantity
    BY <1>0, <1>6, Committed DEF Outcome
  <2>2. Empty(lifecycle') BY <1>0, <2>1, LifeOpens
  <2>3. OrderInv' BY <2>1, <2>2, EarnedEmpty DEF OrderInv
  <2>4. PICK f : f = [version |-> Version(b), proof |-> b.qualifying, before |-> b.cutoff] OBVIOUS
  <2>5. fills' = fills \cup {f} BY <2>1, <2>4 DEF SaveFill
  <2>6. FillEarned(f) /\ TradesOf(f) \subseteq stored' /\ TradesOf(f) \cap Used(fills) = {}
    BY <1>1, <1>3, <1>6, <2>1, <2>4, EarnedFill
  <2>7. FillsInv' BY <1>0, <2>5, <2>6, FillsAdded
  <2>. QED BY <2>3, <2>7
<1>. QED BY <1>5, <1>6

\* A trade on a position that is leaving.
LEMMA ExitEarns ==
    ASSUME Inv, NEW t \in Trades, NEW crosses, NEW r, ExitTrade(t, crosses, r)
    PROVE  OrderInv' /\ FillsInv'
<1>. USE DEF Inv
<1>0. /\ lifecycle # None /\ lifecycle \in Lives /\ ExitOutcome(lifecycle, t, r)
      /\ broker = None /\ broker' = None
  BY ExitKeeps DEF MemoryInv
<1>1. /\ t \notin stored /\ stored' = stored \cup {t} /\ KeepLife(r.state) /\ t.at <= clock
      /\ r.outcome = "CLOSED" => SaveFill(lifecycle, Counted(lifecycle, t), MaxClock + 1)
      /\ r.outcome # "CLOSED" => fills' = fills
  BY DEF ExitTrade, SaveTrade
<1>2. t.at < MaxClock + 1 BY <1>0, Running, TradesAssumption, BoundsAssumption, <1>1 DEF StoredInv
<1>3. /\ Earned(lifecycle, stored, fills, MaxClock + 1) /\ Used(fills) \subseteq stored
      /\ lifecycle.qualifying \in Seq(Counts) /\ lifecycle.cumulative \in Nat
      /\ Version(lifecycle) \in Versions
  BY <1>0, UsedStored, VersionTyped DEF OrderInv, Lives
<1>4. lifecycle' = r.state \/ lifecycle' = None BY <1>1 DEF KeepLife
<1>5. CASE r.outcome = "CLOSED"
  <2>1. /\ Empty(r.state) /\ t \notin lifecycle.keys
        /\ lifecycle.cumulative + t.quantity >= Quantity
    BY <1>0, <1>5 DEF ExitOutcome
  <2>2. OrderInv' BY <1>0, <1>4, <2>1, EarnedEmpty DEF OrderInv
  <2>3. PICK seen \in Lives :
          /\ SameCount(seen, lifecycle) /\ seen.keys = lifecycle.keys \cup {t}
    BY <1>0, LifeSees
  <2>4. PICK o \in Lives :
          /\ Version(o) = Version(seen) /\ o.keys = seen.keys
          /\ o.qualifying = Counted(seen, t) /\ o.cumulative = seen.cumulative + t.quantity
    BY <2>3, LifeAccumulates
  <2>5. /\ Version(o) = Version(lifecycle) /\ o.keys = lifecycle.keys \cup {t}
        /\ o.qualifying = Counted(lifecycle, t)
        /\ o.cumulative = lifecycle.cumulative + t.quantity
    BY <2>3, <2>4 DEF SameCount, Counted
  <2>6. Earned(o, stored \cup {t}, fills, MaxClock + 1) BY <1>1, <1>2, <1>3, <2>1, <2>5, EarnedMore
  <2>7. PICK f : f = [version |-> Version(o), proof |-> o.qualifying, before |-> MaxClock + 1] OBVIOUS
  <2>8. o.qualifying \in Seq(Counts) /\ o.cumulative \in Nat /\ o.cumulative >= Quantity
    BY <2>1, <2>4, <2>5 DEF Lives
  <2>9. FillEarned(f) /\ TradesOf(f) \subseteq stored' /\ TradesOf(f) \cap Used(fills) = {}
    BY <1>1, <2>6, <2>7, <2>8, EarnedFill
  <2>10. fills' = fills \cup {f} BY <1>1, <1>5, <2>5, <2>7 DEF SaveFill
  <2>11. FillsInv' BY <1>1, <2>9, <2>10, FillsAdded
  <2>. QED BY <2>2, <2>11
<1>6. CASE r.outcome # "CLOSED"
  <2>1. FillsInv' BY <1>1, <1>6, FillsKept
  <2>2. Earned(r.state, stored', fills, MaxClock + 1)
    <3>1. CASE Empty(r.state) BY <3>1, EarnedEmpty
    <3>2. CASE SameCount(r.state, lifecycle) BY <1>1, <1>3, <3>2, EarnedSame
    <3>3. CASE r.outcome = "ACCUMULATED" BY <1>0, <3>3, <1>1, <1>2, <1>3, EarnedMore DEF ExitOutcome
    <3>. QED BY <1>0, <1>6, <3>1, <3>2, <3>3 DEF ExitOutcome
  <2>. QED BY <1>0, <1>1, <1>4, <1>6, <2>1, <2>2 DEF OrderInv
<1>. QED BY <1>5, <1>6

\* Every step keeps the invariant, and is one of the promise or a stutter.
LEMMA NextInv ==
    ASSUME Inv, [Next]_vars
    PROVE  Inv' /\ [Promise!Next]_stage
<1>. USE DEF Inv
<1>1. CASE PassCutoff
  BY <1>1, BoundsAssumption DEF PassCutoff, memory, disk, StoredInv, MemoryInv, PendingInv, OrderInv, FillsInv
<1>2. ASSUME NEW a \in Attempts, Activate(a) PROVE Inv' /\ [Promise!Next]_stage
  BY <1>2, ActivateKeeps, EarnedEmpty, FillsKept DEF Activate, PendingInv, Empty, NewEntry, OrderInv
<1>3. CASE CancelAtCutoff BY <1>3, CancelKeeps, FillsKept DEF CancelAtCutoff, PendingInv, OrderInv
<1>4. ASSUME NEW b, NEW unchanged, RefreshEntry(b, unchanged) PROVE Inv' /\ [Promise!Next]_stage
  BY <1>4, RefreshKeeps, Running, RefreshedEntry, EarnedEmpty, FillsKept DEF PendingInv, RefreshEntry,
    MemoryInv, KeepBroker, OrderInv
<1>5. ASSUME NEW t \in Trades, NEW crosses, NEW r, DeliverTrade(t, crosses, r)
      PROVE  Inv' /\ [Promise!Next]_stage
  BY <1>5, Running, ProcessedEntry DEF DeliverTrade, disk, MemoryInv, PendingInv, StoredInv, OrderInv, FillsInv
<1>6. ASSUME NEW p \in pending, NEW s \in {"HOLDING", "EXITING_NORMAL"}, CommitTrade(p, s)
      PROVE  Inv' /\ [Promise!Next]_stage
  BY <1>6, CommitKeeps, CommitEarns DEF PendingInv
<1>7. ASSUME NEW p \in pending, DropTrade(p) PROVE Inv' /\ [Promise!Next]_stage
  BY <1>7 DEF DropTrade, disk, PendingInv, StoredInv, MemoryInv, OrderInv, FillsInv
<1>8. ASSUME NEW t \in Trades, NEW crosses, NEW r, ExitTrade(t, crosses, r)
      PROVE  Inv' /\ [Promise!Next]_stage
  BY <1>8, ExitKeeps, ExitEarns DEF PendingInv
<1>9. ASSUME NEW l, Monitor(l) PROVE Inv' /\ [Promise!Next]_stage
  <2>1. /\ StoredInv' /\ MemoryInv' /\ [Promise!Next]_stage /\ pending' = pending
        /\ broker' = broker
        /\ lifecycle # None /\ lifecycle \in Lives /\ LifeStep(l, lifecycle)
    BY <1>9, MonitorKeeps
  <2>2. PendingInv' BY <2>1 DEF PendingInv
  <2>3. KeepLife(l) /\ stored' = stored /\ fills' = fills BY <1>9 DEF Monitor
  <2>4. lifecycle' = l \/ lifecycle' = None BY <2>3 DEF KeepLife
  <2>5. Earned(l, stored, fills, MaxClock + 1) BY <2>1, EarnedSame, EarnedEmpty DEF OrderInv, LifeStep
  <2>6. OrderInv' BY <2>1, <2>3, <2>4, <2>5 DEF OrderInv
  <2>. QED BY <2>1, <2>2, <2>3, <2>6, FillsKept
<1>10. ASSUME NEW safely, Stop(safely) PROVE Inv' /\ [Promise!Next]_stage
  BY <1>10, StopKeeps, FillsKept DEF Stop, PendingInv, OrderInv
<1>11. CASE Restore BY <1>11, RestoreKeeps, EarnedEmpty, FillsKept DEF Restore, PendingInv, OrderInv
<1>12. CASE UNCHANGED vars BY <1>12 DEF vars, memory, disk, StoredInv, MemoryInv, PendingInv, OrderInv, FillsInv
<1>. QED BY <1>1, <1>2, <1>3, <1>4, <1>5, <1>6, <1>7, <1>8, <1>9, <1>10, <1>11, <1>12 DEF Next

-----------------------------------------------------------------------------
(* Theorems.                                                               *)

\* The invariant holds for ever.
LEMMA Invariance == Spec => []Inv
<1>1. Inv /\ [Next]_vars => Inv' BY NextInv
<1>. QED BY <1>1, InitInv, PTL DEF Spec

\* Every stored maker fill is proven by distinct public trades that add up to the
\* order, came in time and on the version they fill; no trade proves two fills.
THEOREM FillsEarned == Spec => []FillsAreEarned
<1>1. Inv => FillsAreEarned BY DEF Inv, FillsInv, FillsAreEarned, FillEarned
<1>. QED BY <1>1, Invariance, PTL

\* What is stored of each attempt moves as PaperPosition promises: the detailed
\* farmer implements it.
THEOREM PromiseKept == Spec => KeepsPromise
<1>1. Init => Promise!Init BY DEF Init, Promise!Init, Attempts, Promise!Attempts
<1>2. Inv /\ [Next]_vars => [Promise!Next]_stage BY NextInv
<1>. QED BY <1>1, <1>2, Invariance, PTL DEF Spec, KeepsPromise, Promise!Spec
============================================================================
