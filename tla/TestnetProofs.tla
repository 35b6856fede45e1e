--------------------------- MODULE TestnetProofs ----------------------------
(***************************************************************************)
(* Theorems about the testnet lifecycles, for every quantity and every     *)
(* number of runs, polls and processes: the two-account RISEx lifecycle    *)
(* first, then what a sum of fills is, the lifecycles on one account, the  *)
(* owner of two of them, and the run in which they stand side by side.     *)
(***************************************************************************)
EXTENDS MCTestnet, Totals, TLAPS, WellFoundedInduction

\* An order that was at the venue, and one that is no more.
Stood(s) == order[s].status \in {"OPEN", "FILLED", "CANCELLED"}
Over(s)  == order[s].status \in {"FILLED", "CANCELLED"}
Hedged   == order["ENTRY_MAKER"].fill = Q /\ order["ENTRY_TAKER"].fill = Q

\* What a step stands on.
Founded(s) ==
    /\ s \notin Makers => Stood(Maker(Stage(s)))
    /\ Stage(s) = "EXIT" => Hedged

Outcomes == {"ACTIVE", "COMPLETE", "HALTED"}
\* The writes of each kind.
PhaseWrites   == {"phase"} \X Roles \X Phases
OutcomeWrites == {"outcome"} \X Roles \X Outcomes
IntentWrites  == {"intent"} \X Steps \X (IntentStates \ {"NONE"})
SealedWrites  == {"sealed"} \X Roles \X {"ENTRY", "EXIT"}
SpentWrites   == {"spent"} \X Roles \X Steps
FinalWrites   == {"final"} \X Roles \X {"one", "id", "two"}
FillWrites    == {"external_fill"} \X Makers \X {"TERMINAL"}
RecoverWrites == {"recover"} \X {"ENTRY_MAKER", "ENTRY_TAKER"} \X {"TERMINAL"}
Writes == PhaseWrites \cup OutcomeWrites \cup IntentWrites \cup SealedWrites
          \cup SpentWrites \cup FinalWrites \cup FillWrites \cup RecoverWrites

Places == Reading \cup {"down", "sending", "sent", "halting", "closing", "recovering"}

-----------------------------------------------------------------------------
(* The venue.                                                              *)

VenueInv ==
    /\ order \in [Steps -> Orders] /\ sends \in [Steps -> Nat]
    /\ \A s \in Steps : /\ order[s].trades <= order[s].fill
                        /\ sends[s] <= 1
                        /\ sends[s] = 0 <=> order[s].status = "absent"
                        /\ order[s].status \in {"absent", "flight", "refused"} => order[s].fill = 0

\* What an order becomes: it fills further, and is over once.
Grown(s) ==
    /\ order[s].fill <= order'[s].fill
    /\ Stood(s) => order'[s].status \in {"OPEN", "FILLED", "CANCELLED"}
    /\ Over(s) => order'[s] = order[s]

\* The venue moves its orders on and sends none.
LEMMA VenueStep ==
    ASSUME VenueInv, Venue
    PROVE  VenueInv' /\ (\A s \in Steps : Grown(s)) /\ UNCHANGED coordinator
<1>0. Q \in Nat /\ Q # 0 BY TwoAccountAssumption
<1>1. PICK m \in Steps : MakerArrives(m) \/ TakerArrives(m) \/ MakerTaken(m) \/ MakerCancelled(m) BY DEF Venue
<1>2. UNCHANGED coordinator BY <1>1 DEF MakerArrives, TakerArrives, MakerTaken, MakerCancelled
<1>3. ASSUME NEW n \in Steps, NEW o \in Orders, order' = [order EXCEPT ![n] = o],
             order[n].status \notin {"absent", "FILLED", "CANCELLED"}, o.status # "absent",
             o.status \in {"flight", "refused"} => order[n].status # "OPEN",
             order[n].fill <= o.fill, o.trades <= o.fill,
             o.status \in {"flight", "refused"} => o.fill = 0
      PROVE  VenueInv' /\ \A s \in Steps : Grown(s)
  BY <1>2, <1>3 DEF VenueInv, coordinator, Orders, Grown, Stood, Over
<1>4. CASE MakerArrives(m)
  <2>1. PICK st \in {"OPEN", "refused"} : order' = [order EXCEPT ![m].status = st] BY <1>4 DEF MakerArrives
  <2>2. order[m] \in Orders /\ order[m].status = "flight" /\ order[m].trades <= order[m].fill
    BY <1>4 DEF MakerArrives, VenueInv
  <2>. DEFINE o == [order[m] EXCEPT !.status = st]
  <2>3. /\ o \in Orders
      /\ o.status = st
      /\ o.fill = order[m].fill
      /\ o.trades = order[m].trades
    BY <2>2 DEF Orders
  <2>4. order' = [order EXCEPT ![m] = o] BY <2>1
  <2>. HIDE DEF o
  <2>. QED
    <3>1. order[m].fill \in Nat /\ order[m].status \notin {"absent", "FILLED", "CANCELLED"} BY <2>2 DEF Orders
    <3>2. order[m].status = "flight" => order[m].fill = 0 BY DEF VenueInv
    <3>3. /\ order[m].status \notin {"absent", "FILLED", "CANCELLED"} /\ o.status # "absent"
          /\ o.status \in {"flight", "refused"} => order[m].status # "OPEN"
          /\ order[m].fill <= o.fill /\ o.trades <= o.fill
          /\ o.status \in {"flight", "refused"} => o.fill = 0
      BY <2>2, <2>3, <3>1, <3>2
    <3>. QED BY <1>2, <1>3, <2>3, <2>4, <3>3
<1>5. CASE MakerTaken(m)
  <2>1. PICK n \in (order[m].fill + 1)..Q :
           order' = [order EXCEPT ![m] = [status |-> Status(n, "OPEN"), fill |-> n, trades |-> @.trades + 1]]
    BY <1>5 DEF MakerTaken
  <2>2. order[m] \in Orders /\ order[m].status = "OPEN" /\ order[m].trades <= order[m].fill
    BY <1>5 DEF MakerTaken, VenueInv
  <2>. DEFINE o == [status |-> Status(n, "OPEN"), fill |-> n, trades |-> order[m].trades + 1]
  <2>3. n \in 0..Q /\ order[m].fill < n /\ order[m].trades + 1 \in 0..Q /\ order[m].trades + 1 <= n
    BY <1>0, <2>1, <2>2 DEF Orders
  <2>4. o \in Orders /\ o.status \in {"OPEN", "FILLED"} BY <2>3 DEF Orders, Status
  <2>5. order' = [order EXCEPT ![m] = o] /\ o.fill = n /\ o.trades = order[m].trades + 1 BY <2>1
  <2>6. order[m].fill <= o.fill /\ o.trades <= o.fill BY <1>0, <2>2, <2>3, <2>5 DEF Orders
  <2>. QED BY <1>2, <1>3, <2>2, <2>4, <2>5, <2>6
<1>6. CASE MakerCancelled(m)
  <2>2. order[m] \in Orders /\ order[m].status = "OPEN" /\ order[m].trades <= order[m].fill
    BY <1>6 DEF MakerCancelled, VenueInv
  <2>. DEFINE o == [order[m] EXCEPT !.status = "CANCELLED"]
  <2>3. /\ o \in Orders
      /\ o.status = "CANCELLED"
      /\ o.fill = order[m].fill
      /\ o.trades = order[m].trades
    BY <2>2 DEF Orders
  <2>4. order' = [order EXCEPT ![m] = o] BY <1>6 DEF MakerCancelled
  <2>. HIDE DEF o
  <2>. QED
    <3>1. order[m].fill \in Nat /\ order[m].status \notin {"absent", "FILLED", "CANCELLED"} BY <2>2 DEF Orders
    <3>2. order[m].status = "flight" => order[m].fill = 0 BY DEF VenueInv
    <3>3. /\ order[m].status \notin {"absent", "FILLED", "CANCELLED"} /\ o.status # "absent"
          /\ o.status \in {"flight", "refused"} => order[m].status # "OPEN"
          /\ order[m].fill <= o.fill /\ o.trades <= o.fill
          /\ o.status \in {"flight", "refused"} => o.fill = 0
      BY <2>2, <2>3, <3>1, <3>2
    <3>. QED BY <1>2, <1>3, <2>3, <2>4, <3>3
<1>7. CASE TakerArrives(m)
  <2>2. order[m] \in Orders /\ order[m].status = "flight" /\ order[m].trades <= order[m].fill /\ m \notin Makers
    BY <1>7 DEF TakerArrives, VenueInv
  <2>3. CASE order' = [order EXCEPT ![m].status = "refused"]
    <3>. DEFINE o == [order[m] EXCEPT !.status = "refused"]
    <3>1. /\ o \in Orders
      /\ o.status = "refused"
      /\ o.fill = order[m].fill
      /\ o.trades = order[m].trades
      BY <2>2 DEF Orders
    <3>2. order' = [order EXCEPT ![m] = o] BY <2>3
    <3>. HIDE DEF o
    <3>3. order[m].fill = 0 BY <2>2 DEF VenueInv
    <3>4. /\ order[m].status \notin {"absent", "FILLED", "CANCELLED"} /\ o.status # "absent"
          /\ o.status \in {"flight", "refused"} => order[m].status # "OPEN"
          /\ order[m].fill <= o.fill /\ o.trades <= o.fill
          /\ o.status \in {"flight", "refused"} => o.fill = 0
      BY <2>2, <3>1, <3>3
    <3>. QED BY <1>2, <1>3, <3>1, <3>2, <3>4
  <2>. DEFINE k == Maker(Stage(m))
  <2>4. ASSUME NEW own \in 0..Q, NEW other \in 0..Q, own + other <= Q,
               own > 0 => order[k].status = "OPEN" /\ order[k].fill + own <= Q,
               order' = [order EXCEPT
                   ![m] = [status |-> Status(own + other, "CANCELLED"), fill |-> own + other,
                           trades |-> (IF own > 0 THEN 1 ELSE 0) + (IF other > 0 THEN 1 ELSE 0)],
                   ![k] = IF own = 0 THEN @
                          ELSE [status |-> Status(order[k].fill + own, "OPEN"), fill |-> order[k].fill + own,
                                trades |-> @.trades + 1]]
        PROVE  VenueInv' /\ \A s \in Steps : Grown(s)
    <3>. DEFINE trades == (IF own > 0 THEN 1 ELSE 0) + (IF other > 0 THEN 1 ELSE 0)
                a == [status |-> Status(own + other, "CANCELLED"), fill |-> own + other, trades |-> trades]
                b == [status |-> Status(order[k].fill + own, "OPEN"), fill |-> order[k].fill + own,
                      trades |-> order[k].trades + 1]
                c == IF own = 0 THEN order[k] ELSE b
    <3>1. k \in Steps /\ k # m BY <2>2 DEF Maker, Stage, Makers, Steps
    <3>2. order' = [order EXCEPT ![m] = a, ![k] = c] BY <2>4, <3>1 DEF VenueInv
    <3>3. own + other \in 0..Q /\ trades \in 0..Q /\ trades <= own + other BY <1>0, <2>4
    <3>4. a \in Orders /\ a.status \in {"FILLED", "CANCELLED"} /\ a.trades <= a.fill /\ a.fill \in Nat
      BY <1>0, <3>3 DEF Orders, Status
    <3>5. order[k] \in Orders /\ order[k].trades <= order[k].fill BY <3>1 DEF VenueInv
    <3>6. own # 0 => /\ b \in Orders /\ b.status \in {"OPEN", "FILLED"} /\ b.trades <= b.fill
                     /\ order[k].fill <= b.fill /\ order[k].status = "OPEN"
      BY <1>0, <2>4, <3>5 DEF Orders, Status
    <3>7. /\ c \in Orders /\ c.trades <= c.fill /\ order[k].fill <= c.fill
          /\ c = order[k] \/ (order[k].status = "OPEN" /\ c.status \in {"OPEN", "FILLED"})
      BY <1>0, <2>4, <3>5, <3>6 DEF Orders
    <3>8. order[m].fill <= a.fill BY <2>2, <3>4 DEF VenueInv
    <3>. HIDE DEF a, b, c, k, trades
    <3>9. order' \in [Steps -> Orders] /\ sends' = sends BY <1>2, <3>1, <3>2, <3>4, <3>7 DEF VenueInv, coordinator
    <3>10. \A s \in Steps : order'[s] = IF s = m THEN a ELSE IF s = k THEN c ELSE order[s]
      BY <3>1, <3>2 DEF VenueInv
    <3>11. \A s \in Steps : order[s].fill \in Nat /\ order[s].fill <= order[s].fill BY DEF VenueInv, Orders
    <3>. QED BY <2>2, <3>1, <3>4, <3>7, <3>8, <3>9, <3>10, <3>11 DEF VenueInv, Grown, Stood, Over
  <2>. HIDE DEF k
  <2>. QED BY <1>7, <2>3, <2>4 DEF TakerArrives, k
<1>. QED BY <1>1, <1>2, <1>4, <1>5, <1>6, <1>7

-----------------------------------------------------------------------------
(* The writes still to be made.                                            *)

\* The lifecycle is over and both accounts are flat.
Done == \A s \in Steps : order[s].fill = Q /\ Over(s)

\* A write that may come at any time; that of a first intent only comes first.
Safe == {w \in Writes :
    /\ w[1] = "intent" => /\ w[3] # "PREPARED" /\ intent[w[2]] # "NONE"
                          /\ w[3] \in Accepted => Stood(w[2])
    /\ w[1] \in {"external_fill", "recover"} => intent[w[2]] # "NONE" /\ Stood(w[2])
    /\ w[1] = "final" /\ w[3] = "two" => Done}

First == {<<"intent", s, "PREPARED">> : s \in {s \in Steps : intent[s] = "NONE" /\ Founded(s)}}

TodoInv ==
    /\ todo \in Seq(Writes)
    /\ \/ todo \in Seq(Safe)
       \/ todo # <<>> /\ Head(todo) \in First /\ Tail(todo) \in Seq(Safe)

\* Which writes are safe, kind by kind.
LEMMA SafeWrites ==
    /\ \A r \in Roles : \A p \in Phases : <<"phase", r, p>> \in Safe
    /\ \A r \in Roles : \A o \in Outcomes : <<"outcome", r, o>> \in Safe
    /\ \A r \in Roles : \A e \in {"ENTRY", "EXIT"} : <<"sealed", r, e>> \in Safe
    /\ \A r \in Roles : \A s \in Steps : <<"spent", r, s>> \in Safe
    /\ \A r \in Roles : \A n \in {"one", "id"} : <<"final", r, n>> \in Safe
    /\ \A r \in Roles : Done => <<"final", r, "two">> \in Safe
    /\ \A s \in Steps : \A v \in IntentStates \ {"NONE", "PREPARED"} :
          intent[s] # "NONE" /\ (v \in Accepted => Stood(s)) => <<"intent", s, v>> \in Safe
    /\ \A m \in Makers : intent[m] # "NONE" /\ Stood(m) => <<"external_fill", m, "TERMINAL">> \in Safe
    /\ \A s \in {"ENTRY_MAKER", "ENTRY_TAKER"} :
          intent[s] # "NONE" /\ Stood(s) => <<"recover", s, "TERMINAL">> \in Safe
    /\ \A s \in Steps : intent[s] = "NONE" /\ Founded(s) => <<"intent", s, "PREPARED">> \in First
    /\ Safe \subseteq Writes /\ First \subseteq Writes
<1>1. /\ \A r \in Roles : \A p \in Phases : <<"phase", r, p>> \in Writes
      /\ \A r \in Roles : \A o \in Outcomes : <<"outcome", r, o>> \in Writes
      /\ \A s \in Steps : \A v \in IntentStates \ {"NONE"} : <<"intent", s, v>> \in Writes
      /\ \A r \in Roles : \A e \in {"ENTRY", "EXIT"} : <<"sealed", r, e>> \in Writes
      /\ \A r \in Roles : \A s \in Steps : <<"spent", r, s>> \in Writes
      /\ \A r \in Roles : \A n \in {"one", "id", "two"} : <<"final", r, n>> \in Writes
      /\ \A m \in Makers : <<"external_fill", m, "TERMINAL">> \in Writes
      /\ \A s \in {"ENTRY_MAKER", "ENTRY_TAKER"} : <<"recover", s, "TERMINAL">> \in Writes
  BY DEF Writes, PhaseWrites, OutcomeWrites, IntentWrites, SealedWrites, SpentWrites, FinalWrites, FillWrites,
    RecoverWrites
<1>2. \A s \in Steps : <<"intent", s, "PREPARED">> \in Writes BY <1>1 DEF IntentStates
<1>3. First \subseteq Writes BY <1>2 DEF First
<1>4. Safe \subseteq Writes BY DEF Safe
<1>. QED BY <1>1, <1>3, <1>4 DEF Safe, First

\* What one write changes.
Effect(w) ==
    \/ \E r \in Roles, p \in Phases :
          /\ w = <<"phase", r, p>> /\ phase' = [phase EXCEPT ![r] = p]
          /\ UNCHANGED <<outcome, intent, sealed, spent, final>>
    \/ \E r \in Roles, o \in Outcomes :
          /\ w = <<"outcome", r, o>> /\ outcome' = [outcome EXCEPT ![r] = o]
          /\ UNCHANGED <<phase, intent, sealed, spent, final>>
    \/ \E s \in Steps, v \in IntentStates \ {"NONE"} :
          /\ w = <<"intent", s, v>> /\ intent' = [intent EXCEPT ![s] = v]
          /\ UNCHANGED <<phase, outcome, sealed, spent, final>>
    \/ \E r \in Roles, e \in {"ENTRY", "EXIT"} :
          /\ w = <<"sealed", r, e>> /\ sealed' = [sealed EXCEPT ![r] = @ \cup {e}]
          /\ UNCHANGED <<phase, outcome, intent, spent, final>>
    \/ \E r \in Roles, s \in Steps :
          /\ w = <<"spent", r, s>> /\ spent' = [spent EXCEPT ![r] = @ \cup {s}]
          /\ UNCHANGED <<phase, outcome, intent, sealed, final>>
    \/ \E r \in Roles, n \in {"one", "id", "two"} :
          /\ w = <<"final", r, n>> /\ final' = [final EXCEPT ![r] = @ \cup {n}]
          /\ UNCHANGED <<phase, outcome, intent, sealed, spent>>
    \/ \E m \in Makers : w = <<"external_fill", m, "TERMINAL">> /\ PutExternalFill(m)
    \/ \E s \in {"ENTRY_MAKER", "ENTRY_TAKER"} :
          w = <<"recover", s, "TERMINAL">> /\ PutRecovery(s)

\* A write is the first of those to be made, and changes what it names.
LEMMA WriteCases ==
    ASSUME TodoInv, Write
    PROVE  /\ todo # <<>> /\ Head(todo) \in Writes /\ todo' = Tail(todo)
           /\ UNCHANGED <<venue, pc, memory, report, runs>>
           /\ Effect(Head(todo))
<1>1. PICK w : w = Head(todo) OBVIOUS
<1>2. todo # <<>> /\ w \in Writes BY <1>1 DEF TodoInv, Write
<1>3. /\ todo' = Tail(todo) /\ UNCHANGED <<venue, pc, memory, report, runs>>
      /\ w[1] = "external_fill" => PutExternalFill(w[2])
      /\ w[1] = "recover" => PutRecovery(w[2])
      /\ w[1] \notin {"external_fill", "recover"} => Put(w[1], w[2], w[3])
  BY <1>1 DEF Write
<1>4. Effect(w)
  <2>1. ASSUME NEW r \in Roles, NEW p \in Phases, w = <<"phase", r, p>> PROVE Effect(w)
    BY <1>3, <2>1 DEF Put, Effect
  <2>2. ASSUME NEW r \in Roles, NEW o \in Outcomes, w = <<"outcome", r, o>> PROVE Effect(w)
    BY <1>3, <2>2 DEF Put, Effect
  <2>3. ASSUME NEW s \in Steps, NEW v \in IntentStates \ {"NONE"}, w = <<"intent", s, v>> PROVE Effect(w)
    BY <1>3, <2>3 DEF Put, Effect
  <2>4. ASSUME NEW r \in Roles, NEW e \in {"ENTRY", "EXIT"}, w = <<"sealed", r, e>> PROVE Effect(w)
    BY <1>3, <2>4 DEF Put, Effect
  <2>5. ASSUME NEW r \in Roles, NEW s \in Steps, w = <<"spent", r, s>> PROVE Effect(w)
    BY <1>3, <2>5 DEF Put, Effect
  <2>6. ASSUME NEW r \in Roles, NEW n \in {"one", "id", "two"}, w = <<"final", r, n>> PROVE Effect(w)
    BY <1>3, <2>6 DEF Put, Effect
  <2>7. ASSUME NEW m \in Makers, w = <<"external_fill", m, "TERMINAL">> PROVE Effect(w) BY <1>3, <2>7 DEF Effect
  <2>8. ASSUME NEW s \in {"ENTRY_MAKER", "ENTRY_TAKER"}, w = <<"recover", s, "TERMINAL">> PROVE Effect(w)
    BY <1>3, <2>8 DEF Effect
  <2>9. CASE w \in PhaseWrites BY <2>1, <2>9 DEF PhaseWrites
  <2>10. CASE w \in OutcomeWrites BY <2>2, <2>10 DEF OutcomeWrites
  <2>11. CASE w \in IntentWrites BY <2>3, <2>11 DEF IntentWrites
  <2>12. CASE w \in SealedWrites BY <2>4, <2>12 DEF SealedWrites
  <2>13. CASE w \in SpentWrites BY <2>5, <2>13 DEF SpentWrites
  <2>14. CASE w \in FinalWrites BY <2>6, <2>14 DEF FinalWrites
  <2>15. CASE w \in FillWrites
    <3>1. PICK m \in Makers : w = <<"external_fill", m, "TERMINAL">>
      <4>1. w[2] \in Makers BY <2>15 DEF FillWrites
      <4>2. w[1] = "external_fill" /\ w[3] = "TERMINAL" BY <2>15 DEF FillWrites
      <4>3. w = <<w[1], w[2], w[3]>> BY <2>15 DEF FillWrites
      <4>. QED BY <4>1, <4>2, <4>3
    <3>. QED BY <2>7, <3>1
  <2>16. CASE w \in RecoverWrites BY <2>8, <2>16 DEF RecoverWrites
  <2>. QED BY <1>2, <2>9, <2>10, <2>11, <2>12, <2>13, <2>14, <2>15, <2>16 DEF Writes
<1>. QED BY <1>1, <1>2, <1>3, <1>4

\* A sequence of writes, without its first.
LEMMA TailWrites ==
    ASSUME NEW S, NEW q \in Seq(S), q # <<>>
    PROVE  /\ Head(q) \in S /\ Tail(q) \in Seq(S)
           /\ Len(Tail(q)) = Len(q) - 1
           /\ \A i \in 1..Len(Tail(q)) : Tail(q)[i] = q[i + 1]
OBVIOUS

\* A write to both journals.
LEMMA BothSafe ==
    ASSUME NEW what, NEW value, \A r \in Roles : <<what, r, value>> \in Safe
    PROVE  Both(what, value) \in Seq(Safe)
BY DEF Both, Roles

\* The writes of a halt.
LEMMA HaltSafe == HaltWrites \in Seq(Safe)
<1>1. HALTED \in Phases BY DEF HALTED, Phases, RunPhases
<1>2. Both("outcome", "HALTED") \in Seq(Safe) /\ SetPhase(HALTED) \in Seq(Safe)
  BY <1>1, SafeWrites, BothSafe DEF SetPhase, Outcomes
<1>3. <<>> \in Seq(Safe) /\ \A p, q \in Seq(Safe) : p \o q \in Seq(Safe) OBVIOUS
<1>. QED BY <1>2, <1>3 DEF HaltWrites

\* What the intents say of the venue.
IntentInv ==
    /\ \A s \in Steps : /\ intent[s] # "NONE" => Founded(s)
                        /\ intent[s] \in {"NONE", "PREPARED"} => sends[s] = 0
                        /\ intent[s] \in Accepted => Stood(s)
    /\ \A r \in Roles : "two" \in final[r] => Done

\* What was observed was so, and is so still where an order is over.
SeenInv ==
    \A s \in Steps : /\ seen[s].fill <= order[s].fill
                     /\ seen[s].status \in {"FILLED", "CANCELLED"} => order[s] = seen[s]

\* A request leaves only after its intent was marked, and once.
SendInv ==
    /\ pc = "sending" => \E s \in Steps :
          /\ Current = <<s, "PREPARED">> /\ sends[s] = 0
          /\ \/ todo = <<<<"intent", s, "DISPATCHING">>>> /\ intent[s] = "PREPARED"
             \/ todo = <<>> /\ intent[s] = "DISPATCHING"
    /\ pc = "sent" => todo = <<>> /\ \E s \in Steps :
          Current = <<s, "PREPARED">> /\ sends[s] = 1 /\ intent[s] = "DISPATCHING"

\* The maker of a stage is a step, and whose it is a role.
LEMMA MakerOf == \A s \in Steps : Maker(Stage(s)) \in Steps /\ Role(s) \in Roles
BY DEF Maker, Stage, Steps, Role, Roles

\* Whose intent a write is about.
LEMMA WriteOf ==
    ASSUME NEW w \in Writes
    PROVE  w[1] \in {"intent", "external_fill", "recover"} => w[2] \in Steps
<1>1. CASE w \in IntentWrites BY <1>1 DEF IntentWrites
<1>2. CASE w \in FillWrites BY <1>2 DEF FillWrites, Makers, Steps
<1>3. CASE w \in RecoverWrites BY <1>3 DEF RecoverWrites, Steps
<1>4. CASE w \in PhaseWrites \cup OutcomeWrites \cup SealedWrites \cup SpentWrites \cup FinalWrites
  BY <1>4 DEF PhaseWrites, OutcomeWrites, SealedWrites, SpentWrites, FinalWrites
<1>. QED BY <1>1, <1>2, <1>3, <1>4 DEF Writes

\* What stands at the venue goes on standing there.
LEMMA GrownKept ==
    ASSUME VenueInv, VenueInv', \A s \in Steps : Grown(s),
           \A s \in Steps : intent[s] # "NONE" => intent'[s] # "NONE"
    PROVE  /\ Done => Done'
           /\ \A s \in Steps : Founded(s) => Founded(s)'
           /\ \A s \in Steps : Stood(s) => Stood(s)'
           /\ Safe \subseteq Safe'
<1>1. Done => Done' BY DEF Done, Grown, Over
<1>2. \A s \in Steps : Stood(s) => Stood(s)' BY DEF Grown, Stood
<1>3. Hedged => Hedged' BY TwoAccountAssumption DEF Steps, VenueInv, Orders, Hedged, Grown
<1>4. \A s \in Steps : Founded(s) => Founded(s)' BY <1>2, <1>3, MakerOf DEF Founded
<1>5. \A w \in Safe : w \in Safe'
  <2>. SUFFICES ASSUME NEW w \in Safe PROVE w \in Safe' OBVIOUS
  <2>1. w \in Writes BY DEF Safe
  <2>2. w[1] \in {"intent", "external_fill", "recover"} => w[2] \in Steps BY <2>1, WriteOf
  <2>. QED BY <1>1, <1>2, <2>1, <2>2 DEF Safe
<1>. QED BY <1>1, <1>2, <1>4, <1>5

\* What a write changes of the intents.
LEMMA WriteIntents ==
    ASSUME TypeOK, TodoInv, IntentInv, Write
    PROVE  \/ UNCHANGED intent
           \/ \E s \in Steps : \E v \in IntentStates \ {"NONE"} :
                 /\ intent' = [intent EXCEPT ![s] = v]
                 /\ \/ v = "PREPARED" /\ intent[s] = "NONE" /\ Founded(s)
                    \/ v # "PREPARED" /\ intent[s] # "NONE" /\ (v \in Accepted => Stood(s))
<1>1. PICK w : w = Head(todo) OBVIOUS
<1>2. w \in Writes /\ Effect(w) /\ todo # <<>> BY <1>1, WriteCases
<1>3. w \in Safe \/ w \in First BY <1>1, <1>2 DEF TodoInv
<1>4. w \in First => \E s \in Steps : w = <<"intent", s, "PREPARED">> /\ intent[s] = "NONE" /\ Founded(s)
  BY DEF First
<1>5. ASSUME NEW s \in Steps, NEW v \in IntentStates \ {"NONE"}, w = <<"intent", s, v>>,
             intent' = [intent EXCEPT ![s] = v]
      PROVE  \/ v = "PREPARED" /\ intent[s] = "NONE" /\ Founded(s)
             \/ v # "PREPARED" /\ intent[s] # "NONE" /\ (v \in Accepted => Stood(s))
  <2>1. w[1] = "intent" /\ w[2] = s /\ w[3] = v BY <1>5
  <2>2. CASE w \in Safe BY <2>1, <2>2 DEF Safe
  <2>3. CASE w \in First
    <3>1. PICK x \in Steps : w = <<"intent", x, "PREPARED">> /\ intent[x] = "NONE" /\ Founded(x) BY <1>4, <2>3
    <3>2. x = s /\ v = "PREPARED" BY <2>1, <3>1
    <3>. QED BY <3>1, <3>2
  <2>. QED BY <1>3, <2>2, <2>3
<1>6. ASSUME NEW s \in Steps, w[1] \in {"external_fill", "recover"}, w[2] = s,
             intent' = [intent EXCEPT ![s] = "TERMINAL"]
      PROVE  intent[s] # "NONE" /\ Stood(s)
  <2>1. w \notin First BY <1>6 DEF First
  <2>. QED BY <1>3, <1>6, <2>1 DEF Safe
<1>7. CASE \E s \in Steps, v \in IntentStates \ {"NONE"} :
              w = <<"intent", s, v>> /\ intent' = [intent EXCEPT ![s] = v]
  BY <1>5, <1>7
<1>8. CASE \E m \in Makers : w = <<"external_fill", m, "TERMINAL">> /\ PutExternalFill(m)
  <2>1. PICK m \in Makers : w = <<"external_fill", m, "TERMINAL">> /\ PutExternalFill(m) BY <1>8
  <2>2. w[1] = "external_fill" /\ w[2] = m BY <2>1
  <2>3. m \in Steps /\ intent' = [intent EXCEPT ![m] = "TERMINAL"] BY <2>1 DEF Makers, Steps, PutExternalFill
  <2>4. intent[m] # "NONE" /\ Stood(m) BY <1>6, <2>2, <2>3
  <2>5. "TERMINAL" \in IntentStates \ {"NONE"} BY DEF IntentStates
  <2>. QED BY <2>3, <2>4, <2>5
<1>9. CASE \E s \in {"ENTRY_MAKER", "ENTRY_TAKER"} : w = <<"recover", s, "TERMINAL">> /\ PutRecovery(s)
  <2>1. PICK m \in {"ENTRY_MAKER", "ENTRY_TAKER"} : w = <<"recover", m, "TERMINAL">> /\ PutRecovery(m) BY <1>9
  <2>2. w[1] = "recover" /\ w[2] = m BY <2>1
  <2>3. m \in Steps /\ intent' = [intent EXCEPT ![m] = "TERMINAL"] BY <2>1 DEF Steps, PutRecovery
  <2>4. intent[m] # "NONE" /\ Stood(m) BY <1>6, <2>2, <2>3
  <2>5. "TERMINAL" \in IntentStates \ {"NONE"} BY DEF IntentStates
  <2>. QED BY <2>3, <2>4, <2>5
<1>. QED BY <1>2, <1>7, <1>8, <1>9 DEF Effect

\* What a write changes of the other rows.
LEMMA WriteTypes ==
    ASSUME TypeOK, TodoInv, IntentInv, Write
    PROVE  /\ phase' \in [Roles -> Phases] /\ outcome' \in [Roles -> Outcomes]
           /\ sealed' \in [Roles -> SUBSET {"ENTRY", "EXIT"}] /\ spent' \in [Roles -> SUBSET Steps]
           /\ final' \in [Roles -> SUBSET {"one", "id", "two"}]
           /\ \A r \in Roles : "two" \in final'[r] => Done
<1>1. PICK w : w = Head(todo) OBVIOUS
<1>2. w \in Writes /\ Effect(w) /\ todo # <<>> BY <1>1, WriteCases
<1>3. w[1] = "final" => w \in Safe BY <1>1, <1>2 DEF First, TodoInv
<1>4. /\ phase \in [Roles -> Phases] /\ outcome \in [Roles -> Outcomes]
      /\ sealed \in [Roles -> SUBSET {"ENTRY", "EXIT"}] /\ spent \in [Roles -> SUBSET Steps]
      /\ final \in [Roles -> SUBSET {"one", "id", "two"}]
      /\ \A r \in Roles : "two" \in final[r] => Done
  BY DEF TypeOK, Outcomes, IntentInv
<1>5. CASE \E r \in Roles, p \in Phases :
              /\ w = <<"phase", r, p>> /\ phase' = [phase EXCEPT ![r] = p]
              /\ UNCHANGED <<outcome, intent, sealed, spent, final>>
  BY <1>4, <1>5
<1>6. CASE \E r \in Roles, o \in Outcomes :
              /\ w = <<"outcome", r, o>> /\ outcome' = [outcome EXCEPT ![r] = o]
              /\ UNCHANGED <<phase, intent, sealed, spent, final>>
  BY <1>4, <1>6
<1>7. CASE \E r \in Roles, e \in {"ENTRY", "EXIT"} :
              /\ w = <<"sealed", r, e>> /\ sealed' = [sealed EXCEPT ![r] = @ \cup {e}]
              /\ UNCHANGED <<phase, outcome, intent, spent, final>>
  BY <1>4, <1>7
<1>8. CASE \E r \in Roles, s \in Steps :
              /\ w = <<"spent", r, s>> /\ spent' = [spent EXCEPT ![r] = @ \cup {s}]
              /\ UNCHANGED <<phase, outcome, intent, sealed, final>>
  BY <1>4, <1>8
<1>9. CASE \E r \in Roles, n \in {"one", "id", "two"} :
              /\ w = <<"final", r, n>> /\ final' = [final EXCEPT ![r] = @ \cup {n}]
              /\ UNCHANGED <<phase, outcome, intent, sealed, spent>>
  <2>1. PICK r \in Roles, n \in {"one", "id", "two"} :
              /\ w = <<"final", r, n>> /\ final' = [final EXCEPT ![r] = @ \cup {n}]
              /\ UNCHANGED <<phase, outcome, intent, sealed, spent>>
    BY <1>9
  <2>2. n = "two" => Done BY <2>1, <1>3 DEF Safe
  <2>3. final' \in [Roles -> SUBSET {"one", "id", "two"}] BY <1>4, <2>1
  <2>4. \A x \in Roles : "two" \in final'[x] => Done BY <1>4, <2>1, <2>2
  <2>. QED BY <1>4, <2>1, <2>3, <2>4
<1>10. CASE UNCHANGED <<phase, outcome, sealed, spent, final>> BY <1>4, <1>10
<1>11. CASE \E m \in Makers : PutExternalFill(m)
  <2>1. PICK m \in Makers : PutExternalFill(m) BY <1>11
  <2>2. Stage(m) \in {"ENTRY", "EXIT"} /\ Role(m) \in Roles BY DEF Stage, Role, Roles
  <2>. QED BY <1>4, <2>1, <2>2 DEF PutExternalFill
<1>12. CASE \E s \in {"ENTRY_MAKER", "ENTRY_TAKER"} : PutRecovery(s)
  <2>1. PICK s \in {"ENTRY_MAKER", "ENTRY_TAKER"} : PutRecovery(s) BY <1>12
  <2>2. Role(s) \in Roles /\ <<"ENTRY_TAKER", "DONE">> \in Phases /\ "ACTIVE" \in Outcomes
    BY DEF Role, Roles, Phases, Steps, Outcomes
  <2>. QED BY <1>4, <2>1, <2>2 DEF PutRecovery
<1>. QED BY <1>2, <1>5, <1>6, <1>7, <1>8, <1>9, <1>10, <1>11, <1>12 DEF Effect

\* A write keeps the invariants of the venue, the writes, the intents and the observation.
LEMMA WriteStep ==
    ASSUME TypeOK, VenueInv, TodoInv, IntentInv, SeenInv, Write
    PROVE  TypeOK' /\ VenueInv' /\ TodoInv' /\ IntentInv' /\ SeenInv'
<1>0. /\ todo # <<>> /\ todo' = Tail(todo) /\ UNCHANGED <<order, sends, pc, seen, read, report, runs>>
  BY WriteCases DEF venue, memory
<1>1. VenueInv' /\ SeenInv' /\ \A s \in Steps : Grown(s)
  BY <1>0 DEF VenueInv, SeenInv, Orders, Grown, Stood, Over
<1>2. intent' \in [Steps -> IntentStates] /\ \A s \in Steps : intent[s] # "NONE" => intent'[s] # "NONE"
  BY WriteIntents DEF TypeOK
<1>3. TypeOK' BY <1>0, <1>2, WriteTypes DEF TypeOK, Outcomes
<1>4. /\ Safe \subseteq Safe'
      /\ Done => Done'
      /\ \A s \in Steps : Founded(s) => Founded(s)'
      /\ \A s \in Steps : Stood(s) => Stood(s)'
  BY <1>1, <1>2, GrownKept
<1>5. TodoInv'
  <2>1. Tail(todo) \in Seq(Safe) BY <1>0 DEF TodoInv
  <2>2. Safe \subseteq Writes BY SafeWrites
  <2>3. \A S, T : S \subseteq T => \A q \in Seq(S) : q \in Seq(T) OBVIOUS
  <2>4. Tail(todo) \in Seq(Writes) BY <2>1, <2>2, <2>3
  <2>. DEFINE T == Safe'
  <2>. HIDE DEF T
  <2>5. Tail(todo) \in Seq(T) BY <1>4, <2>1, <2>3 DEF T
  <2>. QED BY <1>0, <2>4, <2>5 DEF TodoInv, T
<1>6. IntentInv'
  <2>1. ASSUME NEW s \in Steps
        PROVE  /\ intent'[s] # "NONE" => Founded(s)'
               /\ intent'[s] \in {"NONE", "PREPARED"} => sends'[s] = 0
               /\ intent'[s] \in Accepted => Stood(s)'
    <3>1. /\ intent[s] # "NONE" => Founded(s)
          /\ intent[s] \in {"NONE", "PREPARED"} => sends[s] = 0
          /\ intent[s] \in Accepted => Stood(s)
      BY DEF IntentInv
    <3>2. CASE intent'[s] = intent[s] BY <1>0, <1>4, <3>1, <3>2
    <3>3. CASE intent'[s] # intent[s] BY <3>3, WriteIntents, <1>0, <1>4, <3>1 DEF TypeOK, Accepted
    <3>. QED BY <3>2, <3>3
  <2>2. \A r \in Roles : "two" \in final'[r] => Done' BY <1>4, WriteTypes
  <2>. QED BY <2>1, <2>2 DEF IntentInv
<1>. QED BY <1>1, <1>3, <1>5, <1>6

\* A sequence of writes that a step may leave.
Ahead(q) ==
    \/ q \in Seq(Safe)
    \/ q \in Seq(Writes) /\ q # <<>> /\ Head(q) \in First /\ Tail(q) \in Seq(Safe)

\* Sequences of safe writes.
LEMMA SafeSeqs ==
    /\ <<>> \in Seq(Safe)
    /\ \A p, q \in Seq(Safe) : p \o q \in Seq(Safe)
    /\ \A a \in Safe : <<a>> \in Seq(Safe)
    /\ \A a \in Safe : \A q \in Seq(Safe) : <<a>> \o q \in Seq(Safe)
    /\ \A a, b \in Safe : <<a, b>> \in Seq(Safe)
    /\ \A a, b, c, d \in Safe : <<a, b, c, d>> \in Seq(Safe)
    /\ \A r \in Phases : SetPhase(r) \in Seq(Safe)
    /\ HaltWrites \in Seq(Safe)
BY SafeWrites, BothSafe, HaltSafe DEF SetPhase

\* The phases that are set by name.
LEMMA PhaseNames ==
    /\ ZERO \in Phases /\ ROUND \in Phases /\ COMPLETE \in Phases /\ HALTED \in Phases /\ START \in Phases
    /\ \A s \in Steps : \A k \in {"PREPARED", "DISPATCHED", "DONE"} : <<s, k>> \in Phases
BY DEF ZERO, ROUND, COMPLETE, HALTED, START, Phases, RunPhases

\* A taker is prepared over a maker that stood, an exit over a hedged pair.
LEMMA ReadyFounds ==
    ASSUME TypeOK, VenueInv, IntentInv, SeenInv, NEW s \in Steps, Ready(s)
    PROVE  Founded(s)
<1>0. /\ "ENTRY_MAKER" \in Steps /\ "ENTRY_TAKER" \in Steps /\ "EXIT_MAKER" \in Steps /\ "EXIT_TAKER" \in Steps
      /\ Q \in Nat /\ Q # 0
  BY TwoAccountAssumption DEF Steps
<1>1. CASE s = "ENTRY_MAKER" BY <1>1 DEF Founded, Makers, Stage
<1>2. CASE s = "ENTRY_TAKER"
  BY <1>2, <1>0 DEF Ready, EntryTakerReady, MakerProven, Accepted, Maker, Stage, Founded, IntentInv
<1>3. CASE s = "EXIT_MAKER"
  <2>1. Position(seen, "PRIMARY") = Q /\ Position(seen, "COUNTERPARTY") = -Q BY <1>3 DEF Ready, ExitMakerReady, Has
  <2>2. /\ seen["ENTRY_TAKER"].fill - seen["EXIT_TAKER"].fill = Q
        /\ seen["EXIT_MAKER"].fill - seen["ENTRY_MAKER"].fill = -Q
    BY <2>1 DEF Position
  <2>3. \A x \in Steps : seen[x].fill \in 0..Q /\ order[x].fill \in 0..Q /\ seen[x].fill <= order[x].fill
    BY DEF TypeOK, Orders, SeenInv
  <2>4. Hedged BY <1>0, <2>2, <2>3 DEF Hedged
  <2>. QED BY <1>3, <2>4 DEF Founded, Makers
<1>4. CASE s = "EXIT_TAKER"
  BY <1>4, <1>0 DEF Ready, ExitTakerReady, MakerProven, Accepted, Maker, Stage, IntentInv, Founded
<1>. QED BY <1>1, <1>2, <1>3, <1>4 DEF Steps

\* Every accepted intent may be written again.
LEMMA AcceptedSafe ==
    ASSUME IntentInv, NEW s \in Steps, intent[s] \in Accepted
    PROVE  /\ \A v \in Accepted : <<"intent", s, v>> \in Safe
           /\ s \in Makers => <<"external_fill", s, "TERMINAL">> \in Safe
           /\ s \in {"ENTRY_MAKER", "ENTRY_TAKER"} => <<"recover", s, "TERMINAL">> \in Safe
BY SafeWrites DEF IntentInv, Accepted, IntentStates

\* The final round saw that all is done.
LEMMA RoundDone ==
    ASSUME TypeOK, SeenInv, \A r \in Roles : FinalAccount(r)
    PROVE  Done
<1>1. ASSUME NEW s \in Steps PROVE order[s].fill = Q /\ Over(s)
  BY MakerOf DEF FinalAccount, Exact, SeenInv, Over
<1>. QED BY <1>1 DEF Done

\* The steps that change neither the venue nor the journals.
Moves ==
    \/ Start \/ Halted \/ Resample \/ Refuse \/ Zero \/ Confirm
    \/ \E r \in Roles : Read(r)
    \/ \E s \in Steps : Prepare(s) \/ Dispatch(s) \/ Answer(s) \/ ProveMaker(s) \/ PairFill(s)
    \/ Barrier \/ RoundOne \/ RoundTwo \/ Close \/ Recover \/ Recovered \/ Crash

\* What a move leaves to write.
LEMMA MoveTodo ==
    ASSUME TypeOK, VenueInv, TodoInv, IntentInv, SeenInv, SendInv, Moves
    PROVE  Ahead(todo')
<1>. USE SafeSeqs, PhaseNames
<1>1. CASE \/ Halted \/ Confirm \/ (\E r \in Roles : Read(r)) \/ Barrier \/ Close \/ Recovered \/ Crash
  BY <1>1 DEF Halted, Confirm, Read, Barrier, Close, Recovered, Crash, Then, TodoInv, Ahead
<1>2. CASE Start \/ Refuse \/ Zero BY <1>2 DEF Start, Refuse, Zero, Then, Ahead
<1>3. CASE Resample
  <2>1. Current \in Phases /\ Current[2] = "DISPATCHED" /\ todo' = Both("spent", Current[1])
    BY <1>3 DEF Resample, Then, TypeOK, Current, Roles
  <2>2. Current[1] \in Steps BY <2>1 DEF Phases, RunPhases
  <2>3. Both("spent", Current[1]) \in Seq(Safe) BY <2>2, SafeWrites, BothSafe
  <2>. QED BY <2>1, <2>3 DEF Ahead
<1>4. ASSUME NEW s \in Steps, Prepare(s) PROVE Ahead(todo')
  <2>. DEFINE a == <<"intent", s, "PREPARED">>
              q == SetPhase(<<s, "PREPARED">>)
  <2>1. todo' = <<a>> \o q /\ intent[s] = "NONE" /\ Founded(s) BY <1>4, ReadyFounds DEF Prepare, Then
  <2>2. a \in First /\ q \in Seq(Safe) /\ First \subseteq Writes /\ Safe \subseteq Writes BY <2>1, SafeWrites
  <2>. HIDE DEF a, q
  <2>3. a \in Writes /\ q \in Seq(Writes) BY <2>2
  <2>4. /\ <<a>> \o q \in Seq(Writes) /\ <<a>> \o q # <<>>
        /\ Head(<<a>> \o q) = a /\ Tail(<<a>> \o q) = q
    BY <2>3
  <2>. QED BY <2>1, <2>2, <2>4 DEF Ahead
<1>5. ASSUME NEW s \in Steps, Dispatch(s) PROVE Ahead(todo')
  BY <1>5, SafeWrites DEF Dispatch, Then, IntentStates, Accepted, Ahead
<1>6. ASSUME NEW s \in Steps, Answer(s) PROVE Ahead(todo')
  <2>1. intent[s] = "DISPATCHING" /\ sends[s] = 1 BY <1>6 DEF Answer, SendInv
  <2>2. order[s] \in Orders /\ order[s].status # "absent" BY <2>1 DEF VenueInv
  <2>3. order[s].status \notin {"flight", "refused"} => Stood(s) BY <2>2 DEF Stood, Orders
  <2>4. /\ Stood(s) => <<"intent", s, "DISPATCHED">> \in Safe
        /\ <<"intent", s, "VENUE_REJECTED">> \in Safe /\ <<"intent", s, "AMBIGUOUS">> \in Safe
    BY <2>1, SafeWrites DEF IntentStates, Accepted
  <2>5. \/ Stood(s) /\ todo' = <<<<"intent", s, "DISPATCHED">>>> \o SetPhase(<<s, "DISPATCHED">>)
        \/ todo' = <<<<"intent", s, "VENUE_REJECTED">>>> \o HaltWrites
        \/ todo' = <<<<"intent", s, "AMBIGUOUS">>>> \o HaltWrites
    BY <1>6, <2>3 DEF Answer, Then
  <2>6. todo' \in Seq(Safe) BY <2>4, <2>5
  <2>. QED BY <2>6 DEF Ahead
<1>7. ASSUME NEW m \in Steps, ProveMaker(m) PROVE Ahead(todo')
  <2>1. /\ m \in Makers /\ intent[m] \in Accepted
        /\ \/ todo' = <<<<"external_fill", m, "TERMINAL">>>> \o SetPhase(<<m, "DONE">>)
           \/ todo' = <<<<"intent", m, "RESTING">>>> \o SetPhase(<<m, "DONE">>)
    BY <1>7 DEF ProveMaker, ExternalFill, Accepted, Then
  <2>2. <<"external_fill", m, "TERMINAL">> \in Safe /\ <<"intent", m, "RESTING">> \in Safe
    BY <2>1, AcceptedSafe DEF Accepted
  <2>3. SetPhase(<<m, "DONE">>) \in Seq(Safe) OBVIOUS
  <2>4. todo' \in Seq(Safe) BY <2>1, <2>2, <2>3
  <2>. QED BY <2>4 DEF Ahead
<1>8. ASSUME NEW t \in Steps, PairFill(t) PROVE Ahead(todo')
  <2>. DEFINE m == Maker(Stage(t))
  <2>1. /\ intent[t] \in Accepted /\ intent[m] \in Accepted
        /\ todo' = <<<<"sealed", "COUNTERPARTY", Stage(t)>>, <<"sealed", "PRIMARY", Stage(t)>>,
                     <<"intent", m, "TERMINAL">>, <<"intent", t, "TERMINAL">>>>
                   \o SetPhase(<<t, "DONE">>)
    BY <1>8 DEF PairFill, Then
  <2>2. m \in Steps /\ Stage(t) \in {"ENTRY", "EXIT"} BY MakerOf DEF Stage
  <2>. HIDE DEF m
  <2>3. /\ <<"sealed", "COUNTERPARTY", Stage(t)>> \in Safe /\ <<"sealed", "PRIMARY", Stage(t)>> \in Safe
        /\ <<"intent", m, "TERMINAL">> \in Safe /\ <<"intent", t, "TERMINAL">> \in Safe
    BY <2>1, <2>2, SafeWrites, AcceptedSafe DEF Accepted, Roles
  <2>. QED BY <2>1, <2>3 DEF Ahead
<1>9. CASE RoundOne BY <1>9, SafeWrites, BothSafe DEF RoundOne, Then, Ahead
<1>10. CASE RoundTwo BY <1>10, RoundDone, SafeWrites, BothSafe DEF RoundTwo, Then, Outcomes, Ahead
<1>11. CASE Recover BY <1>11, AcceptedSafe DEF Recover, Steps, Stage, Ahead
<1>. QED BY <1>1, <1>2, <1>3, <1>4, <1>5, <1>6, <1>7, <1>8, <1>9, <1>10, <1>11 DEF Moves

\* The places of run(), what it observed and what it reports, after a move.
LEMMA MoveTypes ==
    ASSUME TypeOK, Moves
    PROVE  /\ UNCHANGED <<venue, journals>>
           /\ pc' \in Places /\ runs' \in 0..MaxRuns
           /\ report' \in {"none", "raised", "BLOCKED", "FAILED", "COMPLETE"}
           /\ Keep \/ Fresh \/ \E r \in Roles : Read(r)
<1>0. /\ MaxRuns \in Nat /\ pc \in Places /\ runs \in 0..MaxRuns
      /\ report \in {"none", "raised", "BLOCKED", "FAILED", "COMPLETE"}
  BY TwoAccountAssumption DEF TypeOK, Places
<1>. USE DEF Places, Reading
<1>1. CASE Start BY <1>1, <1>0 DEF Start
<1>2. CASE Halted BY <1>0, <1>2 DEF Halted
<1>3. CASE Resample \/ Refuse \/ Zero \/ Confirm BY <1>0, <1>3 DEF Resample, Refuse, Zero, Confirm, Then
<1>4. CASE \E r \in Roles : Read(r) BY <1>0, <1>4 DEF Read
<1>5. ASSUME NEW s \in Steps, Prepare(s) \/ Dispatch(s) \/ Answer(s)
      PROVE  /\ UNCHANGED <<venue, journals, report, runs>>
             /\ pc' \in Places /\ Keep
  BY <1>5 DEF Prepare, Dispatch, Answer, Then
<1>6. ASSUME NEW s \in Steps, ProveMaker(s) \/ PairFill(s)
      PROVE  /\ UNCHANGED <<venue, journals, report, runs>>
             /\ pc' \in Places /\ Keep
  BY <1>6 DEF ProveMaker, PairFill, Then
<1>7. CASE Barrier \/ RoundOne \/ RoundTwo BY <1>0, <1>7 DEF Barrier, RoundOne, RoundTwo, Then
<1>8. CASE Close \/ Recover \/ Recovered \/ Crash BY <1>0, <1>8 DEF Close, Recover, Recovered, Crash, Keep
<1>. QED BY <1>0, <1>1, <1>2, <1>3, <1>4, <1>5, <1>6, <1>7, <1>8 DEF Moves

\* A move keeps the invariants of the venue, the writes, the intents and the observation.
LEMMA MoveStep ==
    ASSUME TypeOK, VenueInv, TodoInv, IntentInv, SeenInv, SendInv, Moves
    PROVE  TypeOK' /\ VenueInv' /\ TodoInv' /\ IntentInv' /\ SeenInv'
<1>1. UNCHANGED <<venue, journals>> BY MoveTypes
<1>2. VenueInv' /\ IntentInv' BY <1>1 DEF VenueInv, IntentInv, Founded, Stood, Hedged, Done, Over, venue, journals
<1>3. Safe' = Safe /\ First' = First BY <1>1 DEF Safe, First, Founded, Stood, Hedged, Done, Over, venue, journals
<1>4. TodoInv' BY MoveTodo, SafeWrites, <1>3 DEF Ahead, TodoInv
<1>5. SeenInv' /\ seen' \in [Steps -> Orders] /\ read' \in SUBSET Roles
  <2>0. /\ \A s \in Steps : order[s] \in Orders /\ order[s].fill \in Nat /\ seen[s] \in Orders
        /\ Absent \in Orders /\ Absent.fill = 0 /\ Absent.status = "absent" /\ UNCHANGED order
        /\ seen \in [Steps -> Orders] /\ read \in SUBSET Roles
    BY <1>1, TwoAccountAssumption DEF TypeOK, Orders, Absent, venue
  <2>1. CASE Keep BY <2>0, <2>1 DEF Keep, memory, SeenInv, TypeOK
  <2>2. CASE Fresh BY <2>0, <2>2 DEF Fresh, SeenInv
  <2>3. CASE \E r \in Roles : Read(r)
    <3>1. PICK r \in Roles : Read(r) BY <2>3
    <3>2. \A s \in Steps : Visible(order[s]) \in Orders /\ Visible(order[s]) \in {order[s], Absent}
      BY <2>0 DEF Visible
    <3>3. /\ seen' = [s \in Steps |-> IF Role(s) = r THEN Visible(order[s]) ELSE seen[s]]
          /\ read' = read \cup {r}
      BY <3>1 DEF Read
    <3>4. \A s \in Steps : seen'[s] \in {order[s], Absent, seen[s]} /\ seen'[s] \in Orders BY <2>0, <3>2, <3>3
    <3>5. SeenInv' BY <2>0, <3>4 DEF SeenInv
    <3>. QED BY <2>0, <3>3, <3>4, <3>5
  <2>. QED BY <2>1, <2>2, <2>3, MoveTypes
<1>6. TypeOK' BY <1>1, <1>5, MoveTypes DEF TypeOK, Places, venue, journals
<1>. QED BY <1>2, <1>4, <1>5, <1>6

\* The invariants that a step of the venue, or a sent order, cannot disturb.
LEMMA GrownStep ==
    ASSUME TypeOK, VenueInv, TodoInv, IntentInv, SeenInv, VenueInv', \A s \in Steps : Grown(s),
           UNCHANGED <<journals, todo, memory, report, runs>>, pc' \in Places,
           \A s \in Steps : sends'[s] # sends[s] => intent[s] \notin {"NONE", "PREPARED"}
    PROVE  TypeOK' /\ TodoInv' /\ IntentInv' /\ SeenInv'
<1>0. UNCHANGED <<phase, outcome, intent, sealed, spent, final, todo, seen, read, report, runs>>
  BY DEF journals, memory
<1>1. /\ Done => Done'
      /\ \A s \in Steps : Founded(s) => Founded(s)'
      /\ \A s \in Steps : Stood(s) => Stood(s)'
      /\ Safe \subseteq Safe'
  BY <1>0, GrownKept
<1>2. TypeOK' BY <1>0 DEF TypeOK, VenueInv, Places
<1>3. TodoInv'
  <2>. DEFINE S == Safe'
              First1 == First'
  <2>1. First \subseteq First1 BY <1>0, <1>1 DEF First
  <2>2. Safe \subseteq S BY <1>1
  <2>. HIDE DEF S, First1
  <2>3. \/ todo \in Seq(S)
        \/ todo # <<>> /\ Head(todo) \in First1 /\ Tail(todo) \in Seq(S)
    BY <2>1, <2>2 DEF TodoInv
  <2>. QED BY <1>0, <2>3 DEF TodoInv, S, First1
<1>4. IntentInv' BY <1>0, <1>1 DEF IntentInv
<1>5. SeenInv'
  <2>1. \A s \in Steps : seen[s].fill \in Nat /\ order[s].fill \in Nat /\ order'[s].fill \in Nat
    BY DEF TypeOK, VenueInv, Orders
  <2>2. ASSUME NEW s \in Steps
        PROVE  /\ seen[s].fill <= order'[s].fill
               /\ seen[s].status \in {"FILLED", "CANCELLED"} => order'[s] = seen[s]
    BY <2>1, <2>2 DEF SeenInv, Grown, Over
  <2>. QED BY <1>0, <2>2 DEF SeenInv
<1>. QED BY <1>2, <1>3, <1>4, <1>5

\* The order of a marked intent leaves, for the first time.
LEMMA SendStep ==
    ASSUME TypeOK, VenueInv, TodoInv, IntentInv, SeenInv, SendInv, NEW s \in Steps, Send(s)
    PROVE  TypeOK' /\ VenueInv' /\ TodoInv' /\ IntentInv' /\ SeenInv' /\ intent[s] = "DISPATCHING" /\ sends'[s] = 1
<1>1. sends[s] = 0 /\ intent[s] = "DISPATCHING" /\ todo = <<>>
  <2>1. pc = "sending" /\ todo = <<>> /\ Current = <<s, "PREPARED">> BY DEF Send
  <2>2. PICK x \in Steps : /\ Current = <<x, "PREPARED">> /\ sends[x] = 0
                           /\ \/ todo = <<<<"intent", x, "DISPATCHING">>>>
                              \/ todo = <<>> /\ intent[x] = "DISPATCHING"
    BY <2>1 DEF SendInv
  <2>3. x = s BY <2>1, <2>2
  <2>. QED BY <2>1, <2>2, <2>3
<1>2. /\ order' = [order EXCEPT ![s].status = "flight"] /\ sends' = [sends EXCEPT ![s] = @ + 1]
      /\ pc' = "sent" /\ UNCHANGED <<journals, todo, memory, report, runs>>
  BY DEF Send
<1>3. order[s] \in Orders /\ order[s].status = "absent" /\ order[s].fill = 0 /\ order[s].trades <= order[s].fill
  BY <1>1 DEF VenueInv
<1>. DEFINE o == [order[s] EXCEPT !.status = "flight"]
<1>4. o \in Orders /\ o.status = "flight" /\ o.fill = order[s].fill /\ o.trades = order[s].trades BY <1>3 DEF Orders
<1>5. order' = [order EXCEPT ![s] = o] BY <1>2
<1>. HIDE DEF o
<1>6. /\ order' \in [Steps -> Orders] /\ sends' \in [Steps -> Nat]
      /\ \A x \in Steps : /\ order'[x] = IF x = s THEN o ELSE order[x]
                          /\ sends'[x] = IF x = s THEN 1 ELSE sends[x]
  BY <1>1, <1>2, <1>4, <1>5 DEF VenueInv
<1>7. VenueInv' BY <1>3, <1>4, <1>6 DEF VenueInv
<1>8. \A x \in Steps : Grown(x) BY <1>3, <1>4, <1>6 DEF VenueInv, Orders, Grown, Stood, Over
<1>9. \A x \in Steps : sends'[x] # sends[x] => intent[x] \notin {"NONE", "PREPARED"} BY <1>1, <1>6
<1>10. pc' \in Places BY <1>2 DEF Places
<1>. QED BY <1>1, <1>2, <1>6, <1>7, <1>8, <1>9, <1>10, GrownStep

-----------------------------------------------------------------------------
(* Sending, halting, reporting.                                            *)

\* A write, or a step of the venue, keeps what sending rests on.
LEMMA WriteSends ==
    ASSUME TypeOK, TodoInv, SendInv, Write
    PROVE  SendInv'
<1>1. todo # <<>> /\ todo' = Tail(todo) /\ UNCHANGED <<sends, pc>> BY WriteCases DEF venue
<1>2. pc # "sent" BY <1>1 DEF SendInv
<1>3. CASE pc # "sending" BY <1>1, <1>2, <1>3 DEF SendInv
<1>4. CASE pc = "sending"
  <2>1. PICK s \in Steps : /\ Current = <<s, "PREPARED">> /\ sends[s] = 0
                           /\ todo = <<<<"intent", s, "DISPATCHING">>>>
    BY <1>1, <1>4 DEF SendInv
  <2>2. Put("intent", s, "DISPATCHING")
    <3>1. PICK w : w = Head(todo) OBVIOUS
    <3>2. w = <<"intent", s, "DISPATCHING">> BY <2>1, <3>1
    <3>3. w[1] \notin {"external_fill", "recover"} => Put(w[1], w[2], w[3]) BY <3>1 DEF Write
    <3>. QED BY <3>2, <3>3
  <2>3. /\ intent' = [intent EXCEPT ![s] = "DISPATCHING"] /\ phase' = phase
        /\ todo' = <<>>
    BY <1>1, <2>1, <2>2 DEF Put
  <2>4. intent'[s] = "DISPATCHING" BY <2>3 DEF TypeOK
  <2>. QED BY <1>1, <1>4, <2>1, <2>3, <2>4 DEF SendInv, Current
<1>. QED BY <1>3, <1>4

\* The order that left was sent once.
LEMMA SentOnce ==
    ASSUME TypeOK, VenueInv, TodoInv, IntentInv, SeenInv, SendInv, NEW s \in Steps, Send(s)
    PROVE  SendInv'
BY SendStep DEF Send, journals, SendInv, Current

\* Only a dispatch leads to a request.
LEMMA MoveSends ==
    ASSUME TypeOK, VenueInv, TodoInv, IntentInv, SeenInv, SendInv, Moves
    PROVE  SendInv'
<1>1. UNCHANGED <<sends, phase, intent>> BY MoveTypes DEF venue, journals
<1>2. CASE \E s \in Steps : Dispatch(s)
  <2>1. PICK s \in Steps : Dispatch(s) BY <1>2
  <2>2. \/ pc' = "observing"
        \/ /\ pc' = "sending" /\ todo' = <<<<"intent", s, "DISPATCHING">>>>
           /\ Current = <<s, "PREPARED">> /\ intent[s] = "PREPARED"
    BY <2>1 DEF Dispatch, Then
  <2>3. intent[s] = "PREPARED" => sends[s] = 0 BY DEF IntentInv
  <2>. QED BY <1>1, <2>2, <2>3 DEF SendInv, Current
<1>3. CASE \E r \in Roles : Read(r) BY <1>1, <1>3 DEF Read, Reading, SendInv
<1>4. CASE ~(\E s \in Steps : Dispatch(s)) /\ ~(\E r \in Roles : Read(r))
  <2>1. pc' \notin {"sending", "sent"}
    BY <1>4 DEF Moves, Start, Halted, Resample, Refuse, Zero, Confirm, Prepare, Answer, ProveMaker, PairFill,
      Barrier, RoundOne, RoundTwo, Close, Recover, Recovered, Crash, Then
  <2>. QED BY <2>1 DEF SendInv
<1>. QED BY <1>2, <1>3, <1>4

\* Where run() may still come to send.
Live == {"observing", "confirming", "round", "sending", "sent", "closing"}

\* The writes of a lifecycle that goes on.
Calm == {w \in Writes : /\ w[1] = "outcome" => w[3] # "HALTED"
                        /\ w[1] = "phase" => w[3] # HALTED
                        /\ w[1] # "recover"}

\* A sequence of writes after which the phases of the two journals agree.
Mends(q) ==
    \/ Agree /\ \A i \in 1..Len(q) : q[i][1] # "phase"
    \/ q = <<<<"phase", "COUNTERPARTY", Current>>>>
    \/ \E p \in Phases : /\ Len(q) >= 2
                         /\ q[Len(q) - 1] = <<"phase", "PRIMARY", p>>
                         /\ q[Len(q)] = <<"phase", "COUNTERPARTY", p>>

\* A lifecycle that goes on is not halted, and halts in no write of its own.
HaltInv ==
    pc \in Live =>
      /\ outcome["PRIMARY"] # "HALTED" /\ \A r \in Roles : phase[r] # HALTED
      /\ todo \in Seq(Calm) /\ Mends(todo)

\* A write brings the journals nearer to agreeing, and leaves only calm writes.
LEMMA WriteMends ==
    ASSUME TypeOK, TodoInv, Write, Mends(todo), todo \in Seq(Calm)
    PROVE  Mends(todo)' /\ todo' \in Seq(Calm)
<1>. DEFINE n == Len(todo)
<1>1. /\ todo # <<>> /\ todo' = Tail(todo) /\ Effect(Head(todo)) BY WriteCases
<1>2. /\ n \in Nat /\ n > 0 /\ Len(todo') = n - 1 /\ Head(todo) = todo[1]
      /\ \A i \in 1..(n - 1) : todo'[i] = todo[i + 1]
      /\ todo' \in Seq(Calm) /\ Head(todo) \in Calm
  BY <1>1
<1>3. Head(todo)[1] # "recover" BY <1>2 DEF Calm
<1>4. Head(todo)[1] # "phase" => phase' = phase
  <2>1. PICK w : w = Head(todo) OBVIOUS
  <2>2. Effect(w) /\ w[1] # "recover" BY <1>1, <1>3, <2>1
  <2>3. w[1] # "phase" => phase' = phase
    <3>1. ASSUME NEW m \in Makers, PutExternalFill(m) PROVE phase' = phase BY <3>1 DEF PutExternalFill
    <3>2. ASSUME NEW s \in {"ENTRY_MAKER", "ENTRY_TAKER"} PROVE w # <<"recover", s, "TERMINAL">> BY <2>2
    <3>3. ASSUME NEW r \in Roles, NEW p \in Phases, w = <<"phase", r, p>> PROVE w[1] = "phase" BY <3>3
    <3>. QED BY <2>2, <3>1, <3>2, <3>3 DEF Effect
  <2>. QED BY <2>1, <2>3
<1>5. ASSUME NEW r \in Roles, NEW p, Head(todo) = <<"phase", r, p>>
      PROVE  phase' = [phase EXCEPT ![r] = p]
  <2>1. PICK w : w = Head(todo) OBVIOUS
  <2>2. Effect(w) /\ w = <<"phase", r, p>> BY <1>1, <1>5, <2>1
  <2>. QED BY <2>2 DEF Effect
<1>6. CASE Agree /\ \A i \in 1..n : todo[i][1] # "phase" BY <1>2, <1>4, <1>6 DEF Mends, Agree
<1>7. CASE todo = <<<<"phase", "COUNTERPARTY", Current>>>>
  BY <1>1, <1>7, <1>5 DEF Roles, Agree, Current, TypeOK, Mends
<1>8. ASSUME NEW p \in Phases, n >= 2, todo[n - 1] = <<"phase", "PRIMARY", p>>,
             todo[n] = <<"phase", "COUNTERPARTY", p>>
      PROVE  Mends(todo)'
  <2>1. CASE n = 2
    <3>1. phase' = [phase EXCEPT !["PRIMARY"] = p] BY <1>2, <1>5, <1>8, <2>1 DEF Roles
    <3>2. Current' = p BY <3>1 DEF Current, TypeOK, Roles
    <3>3. Len(todo') = 1 /\ todo'[1] = <<"phase", "COUNTERPARTY", p>> BY <1>2, <1>8, <2>1
    <3>4. todo' = <<<<"phase", "COUNTERPARTY", p>>>>
      <4>1. \A S : \A q \in Seq(S) : Len(q) = 1 => q = <<q[1]>> OBVIOUS
      <4>. QED BY <1>2, <3>3, <4>1
    <3>. QED BY <3>2, <3>4 DEF Mends
  <2>2. CASE n # 2
    <3>1. /\ Len(todo') >= 2 /\ todo'[Len(todo') - 1] = todo[n - 1] /\ todo'[Len(todo')] = todo[n]
      <4>1. n - 1 \in 1..(n - 1) /\ n - 2 \in 1..(n - 1) /\ n - 1 >= 2 /\ (n - 1) + 1 = n /\ (n - 2) + 1 = n - 1
        BY <1>2, <1>8, <2>2
      <4>2. todo'[n - 1] = todo[n] /\ todo'[n - 2] = todo[n - 1] /\ Len(todo') - 1 = n - 2 BY <1>2, <4>1
      <4>. QED BY <1>2, <4>1, <4>2
    <3>. QED BY <1>8, <3>1 DEF Mends
  <2>. QED BY <2>1, <2>2
<1>. QED BY <1>2, <1>6, <1>7, <1>8 DEF Mends

\* What ends by setting a phase mends.
LEMMA PhaseMends ==
    ASSUME NEW q \in Seq(Calm), NEW p \in Phases \ {HALTED}
    PROVE  q \o SetPhase(p) \in Seq(Calm) /\ Mends(q \o SetPhase(p))
<1>1. <<"phase", "PRIMARY", p>> \in Calm /\ <<"phase", "COUNTERPARTY", p>> \in Calm
  BY DEF Calm, Writes, PhaseWrites, Roles
<1>2. PICK a, b \in Calm : a = <<"phase", "PRIMARY", p>> /\ b = <<"phase", "COUNTERPARTY", p>> BY <1>1
<1>3. SetPhase(p) = <<a, b>> BY <1>2 DEF SetPhase, Both
<1>4. PICK z \in Seq(Calm) : z = q \o <<a, b>> /\ Len(z) >= 2 /\ z[Len(z) - 1] = a /\ z[Len(z)] = b
  <2>1. /\ q \o <<a, b>> \in Seq(Calm) /\ Len(q \o <<a, b>>) = Len(q) + 2 /\ Len(q) \in Nat
        /\ (q \o <<a, b>>)[Len(q) + 1] = a /\ (q \o <<a, b>>)[Len(q) + 2] = b
    BY <1>2
  <2>2. PICK z \in Seq(Calm) : z = q \o <<a, b>> BY <2>1
  <2>3. /\ Len(z) = Len(q) + 2 /\ Len(q) \in Nat
        /\ z[Len(q) + 1] = a /\ z[Len(q) + 2] = b
    BY <2>1, <2>2
  <2>4. Len(z) >= 2 /\ Len(z) - 1 = Len(q) + 1 BY <2>3
  <2>. QED BY <2>2, <2>3, <2>4
<1>. QED BY <1>2, <1>3, <1>4 DEF Mends

\* No write of a lifecycle that goes on halts it.
LEMMA WriteHalts ==
    ASSUME TypeOK, TodoInv, Write, HaltInv
    PROVE  HaltInv'
<1>1. todo # <<>> /\ Effect(Head(todo)) /\ UNCHANGED pc BY WriteCases
<1>2. CASE pc \notin Live BY <1>1, <1>2 DEF HaltInv
<1>3. CASE pc \in Live
  <2>1. /\ outcome["PRIMARY"] # "HALTED" /\ \A r \in Roles : phase[r] # HALTED
        /\ todo \in Seq(Calm) /\ Mends(todo)
    BY <1>3 DEF HaltInv
  <2>2. Mends(todo)' /\ todo' \in Seq(Calm) BY <2>1, WriteMends
  <2>3. PICK w : w = Head(todo) OBVIOUS
  <2>4. w \in Calm /\ Effect(w) BY <1>1, <2>1, <2>3
  <2>5. w # <<"phase", "PRIMARY", HALTED>> /\ w # <<"phase", "COUNTERPARTY", HALTED>>
        /\ w # <<"outcome", "PRIMARY", "HALTED">> /\ w[1] # "recover"
    BY <2>4 DEF Calm
  <2>. DEFINE Good == outcome'["PRIMARY"] # "HALTED" /\ \A r \in Roles : phase'[r] # HALTED
  <2>6. phase \in [Roles -> Phases] /\ outcome \in [Roles -> Outcomes] BY DEF TypeOK, Outcomes
  <2>7. ASSUME NEW r \in Roles, NEW p \in Phases, w = <<"phase", r, p>>,
               phase' = [phase EXCEPT ![r] = p], outcome' = outcome
        PROVE  Good
    BY <2>5, <2>7, <2>1, <2>6 DEF Roles
  <2>8. ASSUME NEW r \in Roles, NEW o \in Outcomes, w = <<"outcome", r, o>>,
               outcome' = [outcome EXCEPT ![r] = o], phase' = phase
        PROVE  Good
    BY <2>5, <2>8, <2>1, <2>6 DEF Roles
  <2>9. ASSUME phase' = phase, outcome' = outcome PROVE Good BY <2>1, <2>9
  <2>10. ASSUME NEW m \in Makers, PutExternalFill(m) PROVE Good BY <2>9, <2>10 DEF PutExternalFill
  <2>11. ASSUME NEW s \in {"ENTRY_MAKER", "ENTRY_TAKER"} PROVE w # <<"recover", s, "TERMINAL">> BY <2>5
  <2>. HIDE DEF Good
  <2>12. Good BY <2>4, <2>7, <2>8, <2>9, <2>10, <2>11 DEF Effect
  <2>. QED BY <2>2, <2>12 DEF HaltInv, Good
<1>. QED BY <1>2, <1>3

\* The writes a lifecycle that goes on is given.
LEMMA CalmWrites ==
    /\ \A s \in Steps : \A v \in IntentStates \ {"NONE"} : <<"intent", s, v>> \in Calm
    /\ \A r \in Roles : \A e \in {"ENTRY", "EXIT"} : <<"sealed", r, e>> \in Calm
    /\ \A r \in Roles : \A s \in Steps : <<"spent", r, s>> \in Calm
    /\ \A r \in Roles : \A n \in {"one", "id", "two"} : <<"final", r, n>> \in Calm
    /\ \A r \in Roles : <<"outcome", r, "COMPLETE">> \in Calm
    /\ \A m \in Makers : <<"external_fill", m, "TERMINAL">> \in Calm
BY DEF Calm, Writes, IntentWrites, SealedWrites, SpentWrites, FinalWrites, OutcomeWrites, Outcomes, FillWrites

\* What is written where the phases agree already.
LEMMA QuietMends ==
    ASSUME Agree
    PROVE  /\ Mends(<<>>) /\ <<>> \in Seq(Calm)
           /\ \A s \in Steps : Mends(Both("spent", s)) /\ Both("spent", s) \in Seq(Calm)
           /\ \A s \in Steps : /\ Mends(<<<<"intent", s, "DISPATCHING">>>>)
                               /\ <<<<"intent", s, "DISPATCHING">>>> \in Seq(Calm)
<1>1. Mends(<<>>) /\ <<>> \in Seq(Calm) BY DEF Mends
<1>2. ASSUME NEW s \in Steps
      PROVE  Mends(Both("spent", s)) /\ Both("spent", s) \in Seq(Calm)
  <2>1. PICK a, b \in Calm : a = <<"spent", "PRIMARY", s>> /\ b = <<"spent", "COUNTERPARTY", s>>
    BY CalmWrites DEF Roles
  <2>2. Both("spent", s) = <<a, b>> /\ a[1] # "phase" /\ b[1] # "phase" BY <2>1 DEF Both
  <2>3. Len(<<a, b>>) = 2 /\ <<a, b>>[1] = a /\ <<a, b>>[2] = b /\ <<a, b>> \in Seq(Calm) OBVIOUS
  <2>4. \A i \in 1..2 : <<a, b>>[i][1] # "phase" BY <2>2, <2>3
  <2>. QED BY <2>2, <2>3, <2>4 DEF Mends
<1>3. ASSUME NEW s \in Steps
      PROVE  /\ Mends(<<<<"intent", s, "DISPATCHING">>>>)
             /\ <<<<"intent", s, "DISPATCHING">>>> \in Seq(Calm)
  <2>1. PICK a \in Calm : a = <<"intent", s, "DISPATCHING">> BY CalmWrites DEF IntentStates
  <2>2. Len(<<a>>) = 1 /\ <<a>>[1] = a /\ <<a>> \in Seq(Calm) /\ a[1] # "phase" BY <2>1
  <2>3. \A i \in 1..1 : <<a>>[i][1] # "phase" BY <2>2
  <2>. QED BY <2>1, <2>2, <2>3 DEF Mends
<1>. QED BY <1>1, <1>2, <1>3

\* The phases of a lifecycle that goes on.
LEMMA NotHalted ==
    /\ ZERO \in Phases \ {HALTED} /\ ROUND \in Phases \ {HALTED} /\ COMPLETE \in Phases \ {HALTED}
    /\ \A s \in Steps : \A k \in {"PREPARED", "DISPATCHED", "DONE"} : <<s, k>> \in Phases \ {HALTED}
<1>1. ZERO # HALTED /\ ROUND # HALTED /\ COMPLETE # HALTED BY DEF ZERO, ROUND, COMPLETE, HALTED
<1>2. ASSUME NEW s \in Steps, NEW k PROVE <<s, k>> # HALTED BY <1>2 DEF HALTED, Steps
<1>. QED BY <1>1, <1>2, PhaseNames

\* What a move of a lifecycle that goes on leaves to write.
LEMMA MoveCalm ==
    ASSUME TypeOK, VenueInv, TodoInv, IntentInv, SeenInv, SendInv, HaltInv, Moves, pc' \in Live, ~Start
    PROVE  pc \in Live /\ todo' \in Seq(Calm) /\ Mends(todo')
<1>1. ASSUME pc \in Live, todo = <<>> PROVE Agree BY <1>1 DEF HaltInv, Mends
<1>2. CASE Confirm \/ Barrier BY <1>1, <1>2, QuietMends DEF Confirm, Barrier, Observed, Then, Live
<1>3. CASE \E r \in Roles : Read(r) BY <1>3 DEF Read, Reading, Live, HaltInv
<1>4. CASE Halted \/ Refuse \/ Close \/ Recover \/ Recovered \/ Crash
  BY <1>4 DEF Halted, Refuse, Close, Recover, Recovered, Crash, Then, Live
<1>5. CASE Resample
  BY <1>5, <1>1, QuietMends DEF Resample, Then, TypeOK, Current, Roles, Live, Phases, RunPhases
<1>6. CASE Zero
  <2>1. todo' = SetPhase(ZERO) /\ pc \in Live BY <1>6 DEF Zero, Observed, Then, Live
  <2>2. /\ <<>> \in Seq(Calm) /\ <<>> \o SetPhase(ZERO) = SetPhase(ZERO) BY DEF SetPhase, Both
  <2>3. /\ <<>> \o SetPhase(ZERO) \in Seq(Calm) /\ Mends(<<>> \o SetPhase(ZERO)) BY <2>2, PhaseMends, NotHalted
  <2>. QED BY <2>1, <2>2, <2>3
<1>7. ASSUME NEW s \in Steps, Prepare(s) \/ Dispatch(s) \/ Answer(s) \/ ProveMaker(s)
      PROVE  pc \in Live /\ todo' \in Seq(Calm) /\ Mends(todo')
  <2>1. pc \in Live BY <1>7 DEF Prepare, Dispatch, Answer, ProveMaker, Observed, Live
  <2>2. \/ todo' = <<<<"intent", s, "DISPATCHING">>>> /\ todo = <<>>
        \/ todo' = SetPhase(<<s, "DISPATCHED">>)
        \/ \E k \in {"PREPARED", "DISPATCHED", "DONE"} :
              \/ \E v \in IntentStates \ {"NONE"} : todo' = <<<<"intent", s, v>>>> \o SetPhase(<<s, k>>)
              \/ s \in Makers /\ todo' = <<<<"external_fill", s, "TERMINAL">>>> \o SetPhase(<<s, k>>)
    BY <1>7 DEF Prepare, Dispatch, Answer, ProveMaker, Observed, Then, Live, IntentStates
  <2>3. CASE todo' = <<<<"intent", s, "DISPATCHING">>>> /\ todo = <<>> BY <1>1, <2>1, <2>3, QuietMends
  <2>4. CASE todo' = SetPhase(<<s, "DISPATCHED">>)
    <3>1. /\ <<>> \in Seq(Calm) /\ <<>> \o SetPhase(<<s, "DISPATCHED">>) = SetPhase(<<s, "DISPATCHED">>)
      BY DEF SetPhase, Both
    <3>2. <<s, "DISPATCHED">> \in Phases \ {HALTED} BY NotHalted
    <3>3. /\ <<>> \o SetPhase(<<s, "DISPATCHED">>) \in Seq(Calm)
          /\ Mends(<<>> \o SetPhase(<<s, "DISPATCHED">>))
      BY <3>1, <3>2, PhaseMends
    <3>. QED BY <2>1, <2>4, <3>1, <3>3
  <2>5. ASSUME NEW a \in Calm, NEW k \in {"PREPARED", "DISPATCHED", "DONE"},
               todo' = <<a>> \o SetPhase(<<s, k>>)
        PROVE  todo' \in Seq(Calm) /\ Mends(todo')
    <3>1. <<a>> \in Seq(Calm) BY <2>5
    <3>2. <<s, k>> \in Phases \ {HALTED} BY <1>7, <2>5, NotHalted
    <3>. QED BY <2>5, <3>1, <3>2, PhaseMends
  <2>. QED BY <2>1, <2>2, <2>3, <2>4, <2>5, CalmWrites
<1>8. ASSUME NEW t \in Steps, PairFill(t)
      PROVE  pc \in Live /\ todo' \in Seq(Calm) /\ Mends(todo')
  <2>. DEFINE m == Maker(Stage(t))
  <2>1. /\ pc \in Live
        /\ todo' = <<<<"sealed", "COUNTERPARTY", Stage(t)>>, <<"sealed", "PRIMARY", Stage(t)>>,
                     <<"intent", m, "TERMINAL">>, <<"intent", t, "TERMINAL">>>>
                   \o SetPhase(<<t, "DONE">>)
    BY <1>8 DEF PairFill, Observed, Then, Live
  <2>2. m \in Steps /\ Stage(t) \in {"ENTRY", "EXIT"} BY MakerOf DEF Stage
  <2>. HIDE DEF m
  <2>3. /\ <<"sealed", "COUNTERPARTY", Stage(t)>> \in Calm /\ <<"sealed", "PRIMARY", Stage(t)>> \in Calm
        /\ <<"intent", m, "TERMINAL">> \in Calm /\ <<"intent", t, "TERMINAL">> \in Calm
    BY <2>2, CalmWrites DEF Roles, IntentStates
  <2>4. \A a, b, c, d \in Calm : <<a, b, c, d>> \in Seq(Calm) OBVIOUS
  <2>5. <<t, "DONE">> \in Phases \ {HALTED} BY NotHalted
  <2>. QED BY <2>1, <2>3, <2>4, <2>5, PhaseMends
<1>9. CASE RoundOne \/ RoundTwo
  <2>1. /\ pc \in Live
        /\ \/ todo' = Both("final", "one") \o Both("final", "id") \o SetPhase(ROUND)
           \/ todo' = Both("final", "two") \o Both("outcome", "COMPLETE") \o SetPhase(COMPLETE)
    BY <1>9 DEF RoundOne, RoundTwo, Observed, Then, Live
  <2>2. \A a, b \in Calm : <<a, b>> \in Seq(Calm) OBVIOUS
  <2>3. /\ Both("final", "one") \in Seq(Calm) /\ Both("final", "id") \in Seq(Calm)
        /\ Both("final", "two") \in Seq(Calm) /\ Both("outcome", "COMPLETE") \in Seq(Calm)
    BY <2>2, CalmWrites DEF Both, Roles
  <2>4. \A p, q \in Seq(Calm) : p \o q \in Seq(Calm) OBVIOUS
  <2>5. /\ Both("final", "one") \o Both("final", "id") \in Seq(Calm)
        /\ Both("final", "two") \o Both("outcome", "COMPLETE") \in Seq(Calm)
    BY <2>3, <2>4
  <2>. QED BY <2>1, <2>5, PhaseMends, NotHalted
<1>. QED BY <1>2, <1>3, <1>4, <1>5, <1>6, <1>7, <1>8, <1>9 DEF Moves

\* A move sends only from journals that agree.
LEMMA MoveHalts ==
    ASSUME TypeOK, VenueInv, TodoInv, IntentInv, SeenInv, SendInv, HaltInv, Moves
    PROVE  HaltInv'
<1>0. UNCHANGED <<phase, outcome>> BY MoveTypes DEF journals
<1>1. CASE pc' \notin Live BY <1>1 DEF HaltInv
<1>2. CASE pc' \in Live /\ Start
  BY <1>2, QuietMends, <1>0 DEF Start, Live, Mends, Agree, HaltInv, Current, Roles
<1>3. CASE pc' \in Live /\ ~Start BY <1>3, MoveCalm, <1>0 DEF Mends, Agree, Current, HaltInv
<1>. QED BY <1>1, <1>2, <1>3

\* What was reported was so, and nothing runs while it is.
ReportInv ==
    /\ report # "none" => pc \in {"down", "recovering"}
    /\ report = "COMPLETE" => Done
    /\ report = "BLOCKED" => \A s \in Steps : sends[s] = 0

\* A move reports what is so.
LEMMA MoveReports ==
    ASSUME TypeOK, VenueInv, TodoInv, IntentInv, SeenInv, SendInv, ReportInv, Moves
    PROVE  ReportInv'
<1>0. UNCHANGED <<order, sends, intent>> BY MoveTypes DEF venue, journals
<1>1. Complete => Done BY DEF Complete, IntentInv, Roles
<1>2. Done' = Done BY <1>0 DEF Done, Over
<1>3. CASE Start BY <1>3, <1>0, <1>1, <1>2 DEF Start, ReportInv
<1>4. CASE Halted BY <1>4, <1>0 DEF Halted, Dispatches, IntentInv, ReportInv
<1>5. CASE Close BY <1>5, <1>1, <1>2 DEF Close, ReportInv
<1>6. CASE Recover \/ Recovered \/ Crash BY <1>6, <1>0, <1>2 DEF Recover, Recovered, Crash, ReportInv
<1>7. CASE \/ Resample \/ Refuse \/ Zero \/ Confirm \/ (\E r \in Roles : Read(r))
           \/ (\E s \in Steps : Prepare(s) \/ Dispatch(s) \/ Answer(s) \/ ProveMaker(s) \/ PairFill(s))
           \/ Barrier \/ RoundOne \/ RoundTwo
  <2>1. pc \notin {"down", "recovering"} /\ report' = report
    BY <1>7 DEF Resample, Refuse, Zero, Confirm, Read, Prepare, Dispatch, Answer, ProveMaker, PairFill,
      Barrier, RoundOne, RoundTwo, Then, Observed, Reading
  <2>. QED BY <2>1 DEF ReportInv
<1>. QED BY <1>3, <1>4, <1>5, <1>6, <1>7 DEF Moves

-----------------------------------------------------------------------------
(* The inductive invariant.                                                *)

Inv == TypeOK /\ VenueInv /\ TodoInv /\ IntentInv /\ SeenInv /\ SendInv /\ HaltInv /\ ReportInv

\* The invariant at the start.
LEMMA InitInv == Init => Inv
<1>. SUFFICES ASSUME Init PROVE Inv OBVIOUS
<1>0. MaxRuns \in Nat /\ Q \in Nat /\ Absent \in Orders BY TwoAccountAssumption DEF Orders, Absent
<1>1. TypeOK BY <1>0 DEF Init, TypeOK, Phases, RunPhases, START, IntentStates
<1>2. VenueInv BY <1>0 DEF Init, VenueInv, Absent
<1>3. TodoInv BY DEF Init, TodoInv
<1>4. IntentInv BY DEF Init, IntentInv, Accepted
<1>5. SeenInv BY DEF Init, SeenInv, Absent
<1>6. SendInv /\ HaltInv /\ ReportInv BY DEF Init, SendInv, HaltInv, ReportInv, Live
<1>. QED BY <1>1, <1>2, <1>3, <1>4, <1>5, <1>6 DEF Inv

\* Nothing of a write, of a sent order or of the venue changes what was reported.
LEMMA SafeReports ==
    ASSUME VenueInv, VenueInv', ReportInv, \A s \in Steps : Grown(s), UNCHANGED <<pc, report>>,
           (\A s \in Steps : sends[s] = 0) => (\A s \in Steps : sends'[s] = 0)
    PROVE  ReportInv'
BY DEF Done, Grown, Over, ReportInv

\* Every step keeps the invariant.
LEMMA NextInv == Inv /\ [Next]_vars => Inv'
<1>. SUFFICES ASSUME Inv, [Next]_vars PROVE Inv' OBVIOUS
<1>. USE DEF Inv
<1>1. CASE Venue
  <2>1. VenueInv' /\ (\A s \in Steps : Grown(s)) /\ UNCHANGED coordinator BY <1>1, VenueStep
  <2>2. /\ UNCHANGED <<sends, journals, pc, todo, memory, report, runs, phase, outcome, intent>>
        /\ pc' \in Places
    BY <2>1 DEF coordinator, journals, TypeOK, Places
  <2>3. TypeOK' /\ TodoInv' /\ IntentInv' /\ SeenInv' BY <2>1, <2>2, GrownStep
  <2>4. SendInv' /\ HaltInv' BY <2>2 DEF SendInv, HaltInv, Mends, Agree, Current
  <2>5. ReportInv' BY <2>1, <2>2, SafeReports
  <2>. QED BY <2>1, <2>3, <2>4, <2>5
<1>2. CASE Write BY <1>2, WriteStep, WriteSends, WriteHalts, WriteCases DEF venue, ReportInv, Done, Over
<1>3. ASSUME NEW s \in Steps, Send(s) PROVE Inv'
  BY <1>3, SendStep, SentOnce DEF Send, journals, HaltInv, Mends, Agree, Current, Live, ReportInv
<1>4. CASE Moves BY <1>4, MoveStep, MoveSends, MoveHalts, MoveReports
<1>5. CASE UNCHANGED vars
  <2>1. /\ UNCHANGED <<order, sends, phase, outcome, intent, sealed, spent, final, pc, todo,
                       seen, read, report, runs>>
    BY <1>5 DEF vars, venue, journals, memory
  <2>2. TypeOK' /\ VenueInv' /\ SeenInv' /\ SendInv' BY <2>1 DEF TypeOK, VenueInv, SeenInv, SendInv, Current
  <2>3. Safe' = Safe /\ First' = First /\ Done' = Done BY <2>1 DEF Safe, First, Founded, Stood, Hedged, Done, Over
  <2>4. TodoInv' /\ ReportInv' BY <2>1, <2>3 DEF TodoInv, ReportInv
  <2>5. IntentInv' /\ HaltInv' BY <2>1, <2>3 DEF IntentInv, HaltInv, Founded, Stood, Hedged, Mends, Agree, Current
  <2>. QED BY <2>2, <2>4, <2>5
<1>. QED BY <1>1, <1>2, <1>3, <1>4, <1>5 DEF Next, Run, Moves

\* The invariant holds for ever.
LEMMA Invariance == Spec => []Inv
BY InitInv, NextInv, PTL DEF Spec

-----------------------------------------------------------------------------
(* Theorems.                                                               *)

\* Every variable keeps to its type, whatever the quantity and however often the
\* lifecycle is started.
THEOREM TypeCorrect == Spec => []TypeOK
<1>1. Inv => TypeOK BY DEF Inv
<1>. QED BY <1>1, Invariance, PTL

\* A taker is only sent after its maker stood at the venue, an exit only from a
\* hedged pair, and no order twice: whatever crashed and was recovered.
THEOREM StandsOnTheLast == Spec => []EachStepStandsOnTheLast
<1>1. Inv => EachStepStandsOnTheLast
  <2>. SUFFICES ASSUME Inv PROVE EachStepStandsOnTheLast OBVIOUS
  <2>1. \A s \in Steps : sends[s] \in Nat /\ sends[s] <= 1 BY DEF Inv, VenueInv
  <2>2. \A s \in Steps : sends[s] > 0 => Founded(s) BY DEF Inv, IntentInv
  <2>. QED BY <2>1, <2>2 DEF EachStepStandsOnTheLast, Founded, Stood, Hedged
<1>. QED BY <1>1, Invariance, PTL

\* A lifecycle that halted, or whose journals a crash left in different phases,
\* sends nothing more.
THEOREM HaltedIsSilent == Spec => HaltedSendsNothing
<1>1. ASSUME Inv, [Next]_vars, sends' # sends
      PROVE  Agree /\ outcome["PRIMARY"] # "HALTED" /\ \A r \in Roles : phase[r] # HALTED
  <2>2. CASE Venue BY <1>1, <2>2, VenueStep DEF Inv, coordinator
  <2>3. CASE Write BY <1>1, <2>3, WriteCases DEF Inv, venue
  <2>4. CASE Moves BY <1>1, <2>4, MoveTypes DEF Inv, venue
  <2>5. CASE UNCHANGED vars BY <1>1, <2>5 DEF vars, venue
  <2>6. CASE \E s \in Steps : Send(s) BY <2>6, <1>1 DEF Send, Inv, HaltInv, Live, Mends
  <2>. QED BY <1>1, <2>2, <2>3, <2>4, <2>5, <2>6 DEF Next, Run, Moves
<1>2. Inv /\ [Next]_vars =>
         [(\/ phase["PRIMARY"] # phase["COUNTERPARTY"]
           \/ outcome["PRIMARY"] = "HALTED" \/ HALTED \in {phase[r] : r \in Roles})
            => sends' = sends]_vars
  BY <1>1 DEF Agree
<1>. QED BY <1>2, Invariance, PTL DEF Spec, HaltedSendsNothing

\* The invariant says what a report claims.
LEMMA ReportTells == Inv => ReportIsTrue
<1>. SUFFICES ASSUME Inv PROVE ReportIsTrue OBVIOUS
<1>1. ASSUME report = "COMPLETE"
      PROVE  /\ \A s \in Steps : sends[s] = 1 /\ order[s].fill = Q
                                 /\ order[s].status \in {"FILLED", "CANCELLED"}
             /\ \A r \in Roles : Position(order, r) = 0
  BY <1>1, TwoAccountAssumption DEF Inv, ReportInv, Done, VenueInv, Over, Position, Steps
<1>. QED BY <1>1 DEF ReportIsTrue, Inv, ReportInv

\* A lifecycle reported COMPLETE left both accounts flat and its four orders filled
\* in full, each sent once; one reported BLOCKED sent nothing, in any run.
THEOREM ReportCorrect == Spec => []ReportIsTrue
BY Invariance, ReportTells, PTL

-----------------------------------------------------------------------------
(* What the sum of a sequence is.                                          *)

\* The least of some numbers is 0 or follows one that is not among them.
LEMMA Least ==
    ASSUME NEW T, T \subseteq Nat, T # {}
    PROVE  \E x \in T : x = 0 \/ (x - 1 \in Nat /\ x - 1 \notin T)
<1>1. \E x \in T : \A y \in T : ~(<<y, x>> \in OpToRel(<, Nat)) BY NatLessThanWellFounded, WFMin
<1>2. PICK x \in T : \A y \in T : ~(<<y, x>> \in OpToRel(<, Nat)) BY <1>1
<1>3. \A y \in T : ~(y < x) BY <1>2 DEF OpToRel
<1>. QED BY <1>3

\* g holds the totals of s up to n.
Sums(s, g, n) ==
    /\ g \in [0..n -> Int]
    /\ \A i \in 0..n : g[i] = IF i = 0 THEN 0 ELSE g[i - 1] + s[i]

\* Every sequence of numbers has its totals, and only one: the recursive
\* function of the model has a value at every index.
LEMMA SumsExist ==
    ASSUME NEW s \in Seq(Int)
    PROVE  \E g : Sums(s, g, Len(s))
<1>. DEFINE T == {n \in Nat : n <= Len(s) /\ ~\E g : Sums(s, g, n)}
<1>1. SUFFICES ASSUME T # {} PROVE FALSE BY Len(s) \in Nat
<1>2. PICK n \in T : n = 0 \/ (n - 1 \in Nat /\ n - 1 \notin T) BY <1>1, Least
<1>3. CASE n = 0
    <2>1. Sums(s, [i \in 0..0 |-> 0], 0) BY DEF Sums
    <2>. QED BY <1>3, <2>1
<1>4. CASE n # 0
    <2>1. n - 1 \in Nat /\ n <= Len(s) /\ n \in Nat /\ Len(s) \in Nat BY <1>2, <1>4
    <2>2. PICK g : Sums(s, g, n - 1) BY <1>2, <1>4, <2>1
    <2>. DEFINE h == [i \in 0..n |-> IF i = n THEN g[n - 1] + s[n] ELSE g[i]]
    <2>3. g \in [0..(n - 1) -> Int] /\ s[n] \in Int BY <2>1, <2>2 DEF Sums
    <2>4. h \in [0..n -> Int] BY <2>1, <2>3
    <2>5. ASSUME NEW i \in 0..n PROVE h[i] = IF i = 0 THEN 0 ELSE h[i - 1] + s[i] BY <2>1, <2>2, <2>5 DEF Sums
    <2>6. Sums(s, h, n) BY <2>4, <2>5 DEF Sums
    <2>. QED BY <2>6
<1>. QED BY <1>3, <1>4

LEMMA SumsAreUnique ==
    ASSUME NEW s, NEW n \in Nat, NEW g, NEW h, Sums(s, g, n), Sums(s, h, n)
    PROVE  g = h
<1>. DEFINE T == {i \in 0..n : g[i] # h[i]}
<1>1. T = {}
    <2>. SUFFICES ASSUME T # {} PROVE FALSE OBVIOUS
    <2>0. T \subseteq Nat OBVIOUS
    <2>1. PICK i \in T : i = 0 \/ (i - 1 \in Nat /\ i - 1 \notin T) BY <2>0, Least
    <2>2. CASE i = 0 BY <2>2 DEF Sums
    <2>3. CASE i # 0 BY <2>1, <2>3 DEF Sums
    <2>. QED BY <2>2, <2>3
<1>2. \A i \in 0..n : g[i] = h[i] BY <1>1
<1>. QED BY <1>2 DEF Sums

\* So the total of a sequence is the last of its totals.
LEMMA TotalIs ==
    ASSUME NEW s \in Seq(Int), NEW g, Sums(s, g, Len(s))
    PROVE  Total(s) = g[Len(s)]
<1>. DEFINE t == CHOOSE t : t = [i \in 0..Len(s) |-> IF i = 0 THEN 0 ELSE t[i - 1] + s[i]]
<1>1. g = [i \in 0..Len(s) |-> IF i = 0 THEN 0 ELSE g[i - 1] + s[i]] BY DEF Sums
<1>2. t = [i \in 0..Len(s) |-> IF i = 0 THEN 0 ELSE t[i - 1] + s[i]] BY <1>1
<1>. HIDE DEF t
<1>3. t = g
    <2>. DEFINE T == {i \in 0..Len(s) : t[i] # g[i]}
    <2>1. T = {}
        <3>. SUFFICES ASSUME T # {} PROVE FALSE OBVIOUS
        <3>0. T \subseteq Nat /\ Len(s) \in Nat OBVIOUS
        <3>1. PICK i \in T : i = 0 \/ (i - 1 \in Nat /\ i - 1 \notin T) BY <3>0, Least
        <3>2. CASE i = 0 BY <1>1, <1>2, <3>2
        <3>3. CASE i # 0
            <4>1. i \in 1..Len(s) /\ i - 1 \in 0..Len(s) /\ t[i - 1] = g[i - 1] BY <3>0, <3>1, <3>3
            <4>2. t[i] = t[i - 1] + s[i] BY <1>2, <3>3, <4>1
            <4>3. g[i] = g[i - 1] + s[i] BY <1>1, <3>3, <4>1
            <4>. QED BY <3>1, <4>1, <4>2, <4>3
        <3>. QED BY <3>2, <3>3
    <2>2. t = [i \in 0..Len(s) |-> t[i]] /\ g = [i \in 0..Len(s) |-> g[i]] BY <1>1, <1>2
    <2>3. \A i \in 0..Len(s) : t[i] = g[i] BY <2>1
    <2>. HIDE DEF T
    <2>. QED BY <2>2, <2>3
<1>4. Total(s) = t[Len(s)] BY DEF Total, t
<1>. QED BY <1>3, <1>4

LEMMA TotalEmpty == Total(<< >>) = 0
<1>1. Sums(<< >>, [i \in 0..0 |-> 0], Len(<< >>)) BY DEF Sums
<1>. QED BY <1>1, TotalIs

LEMMA TotalType == ASSUME NEW s \in Seq(Int) PROVE Total(s) \in Int
<1>1. PICK g : Sums(s, g, Len(s)) BY SumsExist
<1>2. g \in [0..Len(s) -> Int] /\ Len(s) \in 0..Len(s) BY <1>1 DEF Sums
<1>3. Total(s) = g[Len(s)] BY <1>1, TotalIs
<1>. QED BY <1>2, <1>3

\* A fill of a new order adds to the total, and a fill of an old one moves it
\* by the difference.
LEMMA TotalAppend ==
    ASSUME NEW s \in Seq(Int), NEW d \in Int
    PROVE  Total(Append(s, d)) = Total(s) + d
<1>. DEFINE n == Len(s)
<1>1. PICK g : Sums(s, g, n) BY SumsExist
<1>. DEFINE h == [i \in 0..(n + 1) |-> IF i = n + 1 THEN g[n] + d ELSE g[i]]
            r == Append(s, d)
<1>2. r \in Seq(Int) /\ Len(r) = n + 1 /\ n \in Nat /\ r[n + 1] = d /\ \A i \in 1..n : r[i] = s[i] OBVIOUS
<1>3. h \in [0..(n + 1) -> Int]
    <2>1. g \in [0..n -> Int] BY <1>1 DEF Sums
    <2>2. n \in 0..n /\ g[n] + d \in Int BY <1>2, <2>1
    <2>. QED BY <1>2, <2>1, <2>2
<1>4. ASSUME NEW i \in 0..(n + 1) PROVE h[i] = IF i = 0 THEN 0 ELSE h[i - 1] + r[i] BY <1>1, <1>2, <1>4 DEF Sums
<1>5. Sums(r, h, Len(r)) BY <1>2, <1>3, <1>4 DEF Sums
<1>6. Total(r) = h[n + 1] BY <1>2, <1>5, TotalIs
<1>7. h[n + 1] = g[n] + d BY <1>2
<1>. QED BY <1>1, <1>6, <1>7, TotalIs

LEMMA TotalChange ==
    ASSUME NEW s \in Seq(Int), NEW r \in Seq(Int), Len(r) = Len(s), NEW k \in 1..Len(s),
           \A i \in 1..Len(s) : i # k => r[i] = s[i]
    PROVE  Total(r) = Total(s) + (r[k] - s[k])
<1>. DEFINE n == Len(s)
            d == r[k] - s[k]
<1>1. PICK g : Sums(s, g, n) BY SumsExist
<1>2. n \in Nat /\ k \in 1..n /\ r[k] \in Int /\ s[k] \in Int /\ d \in Int OBVIOUS
<1>3. g \in [0..n -> Int] /\ \A i \in 0..n : g[i] = IF i = 0 THEN 0 ELSE g[i - 1] + s[i] BY <1>1 DEF Sums
<1>4. \A i \in 1..n : s[i] \in Int /\ r[i] \in Int /\ (i # k => r[i] = s[i]) BY <1>2
<1>5. r[k] = s[k] + d BY <1>2
<1>6. Sums(r, g, n) => Total(r) = g[n] BY TotalIs
<1>. DEFINE h == [i \in 0..n |-> IF i < k THEN g[i] ELSE g[i] + d]
<1>7. Sums(r, h, n) => Total(r) = h[n] BY TotalIs
<1>8. Total(s) = g[n] BY <1>1, TotalIs
<1>. HIDE DEF n, d
<1>9. ASSUME NEW i \in 0..n PROVE g[i] \in Int /\ g[i] + d \in Int
    <2>1. g \in [0..n -> Int] BY <1>3
    <2>2. g[i] \in Int BY <2>1
    <2>. QED BY <1>2, <2>2
<1>10. h \in [0..n -> Int] /\ \A i \in 0..n : h[i] = IF i < k THEN g[i] ELSE g[i] + d BY <1>9
<1>. HIDE DEF h
<1>11. ASSUME NEW i \in 0..n, i # 0 PROVE h[i] = h[i - 1] + r[i]
    <2>1. i \in 1..n /\ i - 1 \in 0..n /\ i \in Nat /\ k \in Nat BY <1>2, <1>11
    <2>. DEFINE a == g[i - 1]
                b == s[i]
    <2>2. a \in Int /\ b \in Int /\ d \in Int BY <1>2, <1>4, <1>9, <2>1
    <2>3. g[i] = a + b BY <1>3, <1>11
    <2>4. h[i] = (IF i < k THEN g[i] ELSE g[i] + d) /\ h[i - 1] = IF i - 1 < k THEN a ELSE a + d BY <1>10, <2>1
    <2>5. i # k => r[i] = b BY <1>4, <2>1
    <2>6. i = k => r[i] = b + d BY <1>5
    <2>. HIDE DEF a, b
    <2>7. (a + b) + d = a + (b + d) /\ (a + b) + d = (a + d) + b BY <2>2
    <2>8. CASE i < k BY <2>1, <2>8, <2>3, <2>4, <2>5
    <2>9. CASE i = k BY <2>1, <2>9, <2>3, <2>4, <2>6, <2>7
    <2>10. CASE i > k BY <2>1, <2>10, <2>3, <2>4, <2>5, <2>7
    <2>. QED BY <2>1, <2>8, <2>9, <2>10
<1>12. h[0] = 0 BY <1>2, <1>3, <1>10
<1>13. \A i \in 0..n : h[i] = IF i = 0 THEN 0 ELSE h[i - 1] + r[i] BY <1>11, <1>12
<1>15. Sums(r, h, n) BY <1>10, <1>13 DEF Sums
<1>14. h[n] = g[n] + d BY <1>2, <1>10
<1>. QED BY <1>7, <1>8, <1>14, <1>15 DEF d

\* What changing one element, or adding one, does to a sequence.
LEMMA SequenceExcept ==
    ASSUME NEW S, NEW s \in Seq(S), NEW i, i \in DOMAIN s, NEW x \in S
    PROVE  [s EXCEPT ![i] = x] \in Seq(S) /\ Len([s EXCEPT ![i] = x]) = Len(s) /\ [s EXCEPT ![i] = x][i] = x
           /\ \A j \in DOMAIN s : j # i => [s EXCEPT ![i] = x][j] = s[j]
<1>. DEFINE r == [s EXCEPT ![i] = x]
<1>1. s \in [1..Len(s) -> S] /\ DOMAIN s = 1..Len(s) /\ Len(s) \in Nat OBVIOUS
<1>2. r \in [1..Len(s) -> S] BY <1>1
<1>3. r[i] = x /\ \A j \in DOMAIN s : j # i => r[j] = s[j] BY <1>1
<1>. HIDE DEF r
<1>4. r \in Seq(S) /\ Len(r) = Len(s) BY <1>1, <1>2
<1>. QED BY <1>3, <1>4 DEF r

LEMMA SequenceGrows ==
    ASSUME NEW S, NEW s \in Seq(S), NEW x \in S
    PROVE  /\ Append(s, x) \in Seq(S) /\ Len(Append(s, x)) = Len(s) + 1 /\ Append(s, x)[Len(s) + 1] = x
           /\ Len(s) \in Nat /\ DOMAIN s = 1..Len(s) /\ DOMAIN Append(s, x) = 1..(Len(s) + 1)
           /\ \A i \in 1..Len(s) : Append(s, x)[i] = s[i]
OBVIOUS

-----------------------------------------------------------------------------
(* The Nado lifecycle.                                                     *)

NadoIntents == [kind : {"ENTRY", "CANCEL_ALL", "CLOSE"}, amount : Int, start : Int,
                state : {"PREPARED", "REJECTED", "AMBIGUOUS", "DISPATCHED", "RESTING", "PARTIAL", "RECONCILED"},
                fills : Nat]
NadoSent == [at : {"UNSENT", "FLYING", "RESTING", "GONE"}, left : Int, filled : Nat]

NadoReading == {"orders", "positions", "fills"}
Judging == {"record", "judge", "halt", "go"}

RunnerTyped ==
    /\ nOrder \in Seq(NadoSent) /\ intents \in Seq(NadoIntents) /\ Len(nOrder) = Len(intents)
    /\ nSeen.open \in Nat /\ nSeen.position \in Int
    /\ nSeen = [open |-> nSeen.open, position |-> nSeen.position, fills |-> nSeen.fills]
    /\ late \subseteq N!Requests
    /\ nPc \in {"down", "failed", "enter", "cancel", "exposed", "send", "mark", "wait", "barrier"}
               \cup NadoReading \cup Judging
    /\ task \in {"START", "JUDGE", "FINAL"}

\* One entry, which is the first; cancellations do not trade, and only the entry rests.
OrderedAt(i) ==
    /\ i = 1 <=> intents[i].kind = "ENTRY"
    /\ intents[i].kind = "CANCEL_ALL" => nOrder[i].filled = 0
    /\ intents[i].kind = "ENTRY" => /\ intents[i].amount = Amount /\ nOrder[i].filled + nOrder[i].left = Amount
                                    /\ nOrder[i].left \in Nat
    /\ nOrder[i].at = "RESTING" => i = 1 /\ nOrder[i].left # 0
    /\ i = 1 /\ Len(intents) > 1 => nOrder[i].at # "UNSENT"
    /\ i \in late => nOrder[i].at \in {"RESTING", "GONE"}
    /\ intents[i].fills <= nOrder[i].filled
NadoOrdered == \A i \in N!Requests : OrderedAt(i)

\* Of two orders that trade the first is over; what is reconciled is over, its fills on record.
InTurn ==
    /\ \A i, j \in N!Trades : i < j => nOrder[i].at = "GONE"
    /\ \A i \in N!Requests : intents[i].state = "RECONCILED" =>
           nOrder[i].at = "GONE" /\ intents[i].fills = nOrder[i].filled

\* An entry that the adapter holds a terminal status of is over.
Ended == 1 \in terminal => 1 \in N!Requests /\ nOrder[1].at = "GONE"

\* The position is what the last order that trades made of it.
NadoPositionFollows ==
    /\ intents = << >> => N!Position = 0
    /\ intents # << >> /\ N!OfKind("CLOSE") = {} => N!Position = nOrder[1].filled
    /\ \A i \in N!OfKind("CLOSE") : (\A j \in N!OfKind("CLOSE") : j <= i) =>
           /\ N!Position = intents[i].start - nOrder[i].filled
           /\ nOrder[i].at # "GONE" => nOrder[i].left = N!Position

About == nPc \in {"wait"} \cup Judging \/ (nPc \in NadoReading /\ task = "JUDGE")
Closing == N!Requests # {} /\ cur \in N!Requests /\ (intents[cur].kind = "CLOSE" \/ (intents[cur].kind = "ENTRY" /\ 1 \in terminal))
TradesOver == \A i \in N!Trades : nOrder[i].at = "GONE"

NadoSteps ==
    /\ nPc = "enter" \/ (nPc \in NadoReading /\ task = "START") => intents = << >>
    /\ nPc \in {"send", "mark"} => cur = Len(intents) /\ cur > 0
    /\ nPc \in {"send", "mark"} /\ intents[cur].kind = "CANCEL_ALL" => N!OfKind("CLOSE") = {}
    /\ nPc = "send" => nOrder[cur].at = "UNSENT"
    /\ nPc = "mark" => nOrder[cur].at # "UNSENT"
    /\ nPc = "cancel" => intents # << >> /\ N!OfKind("CLOSE") = {} /\ nOrder[1].at # "UNSENT"
    /\ nPc \in {"wait"} \cup Judging => task = "JUDGE"
    /\ About => /\ cur \in N!Requests /\ nOrder[cur].at # "UNSENT"
                /\ \A j \in N!Requests : j > cur => intents[j].kind = "CANCEL_ALL"
                /\ intents[cur].kind = "CANCEL_ALL" => N!OfKind("CLOSE") = {}
                /\ nPc # "wait" => cur \in late
    /\ nPc \in {"record", "judge", "barrier"} =>
           /\ nSeen.fills \in [N!Requests -> Nat]
           /\ \A i \in N!Requests : nSeen.fills[i] <= nOrder[i].filled
    /\ nPc = "judge" => \A i \in N!Requests : nSeen.fills[i] <= intents[i].fills

\* What was seen of the position, once nothing trades any more, is the position.
SeesJudging ==
    nPc \in {"fills", "record", "judge"} /\ About /\ Closing => nSeen.position = N!Position
SeesJudged ==
    nPc \in {"go", "halt"} /\ nOutcome \in {"FILLED", "CANCELLED"} /\ intents[cur].kind # "CANCEL_ALL" =>
        nOrder[cur].at = "GONE" /\ nSeen.position = N!Position
SeesExposed == nPc = "exposed" => TradesOver /\ nSeen.position = N!Position
SeesFinal == nPc = "barrier" \/ (nPc \in NadoReading /\ task = "FINAL") => TradesOver /\ N!Position = 0

BookFlat == N!Position = 0 /\ \A i \in N!Requests : ~N!Live(i) /\ intents[i].fills = nOrder[i].filled
Completed == status = "COMPLETE" => nPc \in {"down", "failed"} /\ BookFlat

NadoInv == /\ RunnerTyped /\ NadoOrdered /\ InTurn /\ Ended /\ NadoPositionFollows /\ NadoSteps
           /\ SeesJudging /\ SeesJudged /\ SeesExposed /\ SeesFinal /\ Completed

NadoBook == [i \in N!Requests |-> N!Signed(i, nOrder[i].filled)]

NadoBookFits ==
    /\ NadoBook \in Seq(Int) /\ Len(NadoBook) = Len(intents) /\ N!Position = Total(NadoBook) /\ N!Position \in Int
    /\ N!Requests = 1..Len(intents) /\ DOMAIN nOrder = N!Requests /\ Len(intents) \in Nat
    /\ \A i \in N!Requests : nOrder[i] \in NadoSent /\ intents[i] \in NadoIntents

LEMMA NadoTotals == N!Position = Total(NadoBook) /\ N!Position' = Total(NadoBook')
BY DEF N!Position, NadoBook, N!Total, Total

\* What the fills of the orders come to.
LEMMA NadoBookTyped == RunnerTyped => NadoBookFits
<1>. SUFFICES ASSUME RunnerTyped PROVE NadoBookFits OBVIOUS
<1>1. /\ N!Requests = 1..Len(intents) /\ DOMAIN nOrder = N!Requests /\ Len(intents) \in Nat
      /\ \A i \in N!Requests : nOrder[i] \in NadoSent /\ intents[i] \in NadoIntents
  BY DEF RunnerTyped, N!Requests
<1>2. NadoBook \in [1..Len(intents) -> Int] BY <1>1 DEF NadoBook, N!Signed, NadoSent
<1>3. NadoBook \in Seq(Int) /\ Len(NadoBook) = Len(intents) BY <1>1, <1>2
<1>. QED BY <1>1, <1>3, TotalType, NadoTotals DEF NadoBook, NadoBookFits

\* A step that fills nothing leaves the position alone; a trade moves it by what
\* it fills, and a new order adds nothing to it.
LEMMA NadoBookStands ==
    ASSUME RunnerTyped, N!Requests' = N!Requests,
           \A i \in N!Requests : intents'[i].kind = intents[i].kind /\ nOrder'[i].filled = nOrder[i].filled
    PROVE  N!Position' = N!Position
BY NadoTotals DEF NadoBook, N!Signed

LEMMA BookTrades ==
    ASSUME RunnerTyped, RunnerTyped', NEW i \in N!Requests, NEW n \in Nat, NEW w, N!Trade(i, n, w), intents' = intents
    PROVE  N!Position' = N!Position + N!Signed(i, n)
<1>1. /\ NadoBook \in Seq(Int) /\ Len(NadoBook) = Len(intents) /\ N!Position = Total(NadoBook) /\ N!Requests = 1..Len(intents)
      /\ DOMAIN nOrder = N!Requests /\ \A k \in N!Requests : nOrder[k] \in NadoSent
  BY NadoBookTyped DEF NadoBookFits
<1>2. /\ NadoBook' \in Seq(Int) /\ Len(NadoBook') = Len(intents) /\ N!Position' = Total(NadoBook') /\ N!Requests' = N!Requests
    <2>1. (RunnerTyped => NadoBookFits)' BY NadoBookTyped, PTL
    <2>2. N!Requests' = N!Requests BY DEF N!Requests
    <2>. QED BY <2>1, <2>2 DEF NadoBookFits
<1>3. \A k \in 1..Len(NadoBook) : k # i => NadoBook'[k] = NadoBook[k] BY <1>1, <1>2 DEF NadoBook, N!Signed, N!Trade
<1>4. NadoBook'[i] - NadoBook[i] = N!Signed(i, n) BY <1>1, <1>2 DEF NadoBook, N!Signed, N!Trade, NadoSent
<1>5. Total(NadoBook') = Total(NadoBook) + (NadoBook'[i] - NadoBook[i]) BY <1>1, <1>2, <1>3, TotalChange
<1>. QED BY <1>1, <1>2, <1>4, <1>5

LEMMA BookGrows ==
    ASSUME RunnerTyped, NEW k \in {"ENTRY", "CANCEL_ALL", "CLOSE"}, NEW n \in Int, N!Prepare(k, n)
    PROVE  /\ N!Position' = N!Position
           /\ N!Requests' = N!Requests \cup {Len(intents) + 1} /\ Len(intents') = Len(intents) + 1
           /\ nOrder' \in Seq(NadoSent) /\ intents' \in Seq(NadoIntents) /\ Len(nOrder') = Len(intents')
           /\ \A i \in N!Requests : nOrder'[i] = nOrder[i] /\ intents'[i] = intents[i]
           /\ intents'[Len(intents) + 1] = [kind |-> k, amount |-> n, start |-> nSeen.position,
                                            state |-> "PREPARED", fills |-> 0]
           /\ nOrder'[Len(intents) + 1] = [at |-> "UNSENT", left |-> n, filled |-> 0]
<1>1. /\ NadoBook \in Seq(Int) /\ Len(NadoBook) = Len(intents) /\ N!Position = Total(NadoBook) /\ N!Requests = 1..Len(intents)
      /\ DOMAIN nOrder = N!Requests /\ Len(intents) \in Nat /\ N!Position \in Int
  BY NadoBookTyped DEF NadoBookFits
<1>. DEFINE r == [kind |-> k, amount |-> n, start |-> nSeen.position, state |-> "PREPARED", fills |-> 0]
            o == [at |-> "UNSENT", left |-> n, filled |-> 0]
<1>2. intents' = Append(intents, r) /\ nOrder' = Append(nOrder, o) BY DEF N!Prepare
<1>3. r \in NadoIntents /\ o \in NadoSent /\ r.kind = k /\ o.filled = 0 BY DEF RunnerTyped, NadoIntents, NadoSent
<1>. HIDE DEF r, o
<1>4. /\ N!Requests' = N!Requests \cup {Len(intents) + 1} /\ Len(intents') = Len(intents) + 1
      /\ nOrder' \in Seq(NadoSent) /\ intents' \in Seq(NadoIntents) /\ Len(nOrder') = Len(intents')
      /\ \A i \in N!Requests : nOrder'[i] = nOrder[i] /\ intents'[i] = intents[i]
      /\ intents'[Len(intents) + 1] = r /\ nOrder'[Len(intents) + 1] = o
  BY <1>1, <1>2, <1>3 DEF RunnerTyped, N!Requests
<1>5. NadoBook' = Append(NadoBook, 0)
    <2>1. NadoBook' = [i \in N!Requests \cup {Len(intents) + 1} |-> IF i = Len(intents) + 1 THEN 0 ELSE NadoBook[i]]
      BY <1>1, <1>3, <1>4 DEF NadoBook, N!Signed
    <2>2. N!Requests \cup {Len(intents) + 1} = 1..(Len(NadoBook) + 1) BY <1>1
    <2>3. Append(NadoBook, 0) = [i \in 1..(Len(NadoBook) + 1) |-> IF i = Len(NadoBook) + 1 THEN 0 ELSE NadoBook[i]]
        <3>. DEFINE a == Append(NadoBook, 0)
        <3>1. a \in [1..(Len(NadoBook) + 1) -> Int]
            <4>1. a \in Seq(Int) /\ Len(a) = Len(NadoBook) + 1 BY <1>1
            <4>. HIDE DEF a
            <4>. QED BY <1>1, <4>1
        <3>2. \A i \in 1..(Len(NadoBook) + 1) : a[i] = IF i = Len(NadoBook) + 1 THEN 0 ELSE NadoBook[i] BY <1>1
        <3>. HIDE DEF a
        <3>3. a = [i \in 1..(Len(NadoBook) + 1) |-> a[i]] BY <3>1
        <3>. QED BY <3>2, <3>3 DEF a
    <2>. QED BY <1>1, <2>1, <2>2, <2>3
<1>6. N!Position' = Total(NadoBook') BY NadoTotals DEF NadoBook
<1>7. N!Position' = N!Position BY <1>1, <1>5, <1>6, TotalAppend
<1>. QED BY <1>4, <1>7 DEF r, o

\* What stands when no order and no intent changes.
LEMMA NadoStanding ==
    ASSUME NadoInv, UNCHANGED <<nOrder, late, intents>>
    PROVE  /\ NadoOrdered' /\ InTurn' /\ NadoPositionFollows' /\ N!Position' = N!Position
           /\ N!Requests' = N!Requests /\ N!Trades' = N!Trades /\ N!OfKind("CLOSE")' = N!OfKind("CLOSE")
           /\ N!OfKind("CANCEL_ALL")' = N!OfKind("CANCEL_ALL")
           /\ TradesOver' = TradesOver /\ BookFlat' = BookFlat
<1>1. N!Position' = N!Position BY DEF N!Position, N!Requests, N!Signed
<1>2. N!Requests' = N!Requests /\ N!Trades' = N!Trades /\ \A k : N!OfKind(k)' = N!OfKind(k)
  BY DEF N!Requests, N!Trades, N!OfKind
<1>3. NadoOrdered' BY <1>2 DEF NadoInv, NadoOrdered, OrderedAt
<1>4. InTurn' BY <1>2 DEF NadoInv, InTurn
<1>5. NadoPositionFollows' BY <1>1, <1>2 DEF NadoInv, NadoPositionFollows
<1>6. TradesOver' = TradesOver BY <1>2 DEF TradesOver
<1>7. BookFlat' = BookFlat BY <1>1, <1>2 DEF BookFlat, N!Live
<1>. QED BY <1>1, <1>2, <1>3, <1>4, <1>5, <1>6, <1>7

LEMMA StandsWhole ==
    ASSUME NadoInv
    PROVE  /\ N!Requests = 1..Len(intents) /\ DOMAIN nOrder = N!Requests /\ Len(intents) \in Nat /\ N!Position \in Int
           /\ \A i \in N!Requests : nOrder[i] \in NadoSent /\ intents[i] \in NadoIntents
BY NadoBookTyped DEF NadoInv, NadoBookFits

\* The steps of the program that touch no order, each keeping the invariant.
LEMMA StartKeeps == ASSUME NadoInv, N!Start PROVE NadoInv'
<1>1. UNCHANGED <<nOrder, late, intents>> BY DEF N!Start, N!venue, N!store
<1>2. /\ NadoOrdered' /\ InTurn' /\ NadoPositionFollows' /\ N!Position' = N!Position
      /\ N!Requests' = N!Requests /\ N!Trades' = N!Trades /\ N!OfKind("CLOSE")' = N!OfKind("CLOSE")
      /\ N!OfKind("CANCEL_ALL")' = N!OfKind("CANCEL_ALL")
      /\ TradesOver' = TradesOver /\ BookFlat' = BookFlat
  BY <1>1, NadoStanding
<1>3. /\ N!Requests = 1..Len(intents) /\ DOMAIN nOrder = N!Requests /\ Len(intents) \in Nat /\ N!Position \in Int
      /\ \A i \in N!Requests : nOrder[i] \in NadoSent /\ intents[i] \in NadoIntents
  BY StandsWhole
<1>4. RunnerTyped'
  BY <1>1, <1>2, <1>3 DEF NadoInv, RunnerTyped, N!Start, N!Goto, NadoReading, Judging, N!NotSeen, NadoSent
<1>5. Ended' BY <1>1, <1>2 DEF NadoInv, Ended, N!Start
<1>6. NadoSteps'
  BY <1>1, <1>2, <1>3 DEF NadoInv, RunnerTyped, NadoSteps, About, NadoReading, Judging, N!Start, N!Goto,
    N!WindowIsOver
<1>. USE <1>1, <1>2 DEF NadoInv, RunnerTyped, About, NadoReading, Judging, N!Goto, N!venue, N!store, N!WindowIsOver
<1>7. SeesJudging' BY DEF SeesJudging, Closing, NadoSteps, N!Start
<1>8. SeesJudged' BY DEF SeesJudged, NadoSteps, N!Start
<1>9. SeesExposed' BY DEF SeesExposed, SeesJudged, NadoSteps, N!Start
<1>10. SeesFinal' BY DEF SeesFinal, NadoSteps, N!Start
<1>11. Completed' BY DEF Completed, N!Start
<1>. QED BY <1>2, <1>4, <1>5, <1>6, <1>7, <1>8, <1>9, <1>10, <1>11

LEMMA FailKeeps == ASSUME NadoInv, N!Fail PROVE NadoInv'
<1>1. UNCHANGED <<nOrder, late, intents>> BY DEF N!Fail, N!venue, N!store
<1>2. /\ NadoOrdered' /\ InTurn' /\ NadoPositionFollows' /\ N!Position' = N!Position
      /\ N!Requests' = N!Requests /\ N!Trades' = N!Trades /\ N!OfKind("CLOSE")' = N!OfKind("CLOSE")
      /\ N!OfKind("CANCEL_ALL")' = N!OfKind("CANCEL_ALL")
      /\ TradesOver' = TradesOver /\ BookFlat' = BookFlat
  BY <1>1, NadoStanding
<1>3. /\ N!Requests = 1..Len(intents) /\ DOMAIN nOrder = N!Requests /\ Len(intents) \in Nat /\ N!Position \in Int
      /\ \A i \in N!Requests : nOrder[i] \in NadoSent /\ intents[i] \in NadoIntents
  BY StandsWhole
<1>4. RunnerTyped'
  BY <1>1, <1>2, <1>3 DEF NadoInv, RunnerTyped, N!Fail, N!Goto, NadoReading, Judging, N!NotSeen, NadoSent
<1>5. Ended' BY <1>1, <1>2 DEF NadoInv, Ended, N!Fail
<1>6. NadoSteps'
  BY <1>1, <1>2, <1>3 DEF NadoInv, RunnerTyped, NadoSteps, About, NadoReading, Judging, N!Fail, N!Goto,
    N!WindowIsOver
<1>. USE <1>1, <1>2 DEF NadoInv, RunnerTyped, About, NadoReading, Judging, N!Goto, N!venue, N!store, N!WindowIsOver
<1>7. SeesJudging' BY DEF SeesJudging, Closing, NadoSteps, N!Fail
<1>8. SeesJudged' BY DEF SeesJudged, NadoSteps, N!Fail
<1>9. SeesExposed' BY DEF SeesExposed, SeesJudged, NadoSteps, N!Fail
<1>10. SeesFinal' BY DEF SeesFinal, NadoSteps, N!Fail
<1>11. Completed' BY DEF Completed, N!Fail
<1>. QED BY <1>2, <1>4, <1>5, <1>6, <1>7, <1>8, <1>9, <1>10, <1>11

LEMMA BreaksKeeps == ASSUME NadoInv, N!Breaks PROVE NadoInv'
<1>1. UNCHANGED <<nOrder, late, intents>> BY DEF N!Breaks, N!venue, N!store
<1>2. /\ NadoOrdered' /\ InTurn' /\ NadoPositionFollows' /\ N!Position' = N!Position
      /\ N!Requests' = N!Requests /\ N!Trades' = N!Trades /\ N!OfKind("CLOSE")' = N!OfKind("CLOSE")
      /\ N!OfKind("CANCEL_ALL")' = N!OfKind("CANCEL_ALL")
      /\ TradesOver' = TradesOver /\ BookFlat' = BookFlat
  BY <1>1, NadoStanding
<1>3. /\ N!Requests = 1..Len(intents) /\ DOMAIN nOrder = N!Requests /\ Len(intents) \in Nat /\ N!Position \in Int
      /\ \A i \in N!Requests : nOrder[i] \in NadoSent /\ intents[i] \in NadoIntents
  BY StandsWhole
<1>4. RunnerTyped'
  BY <1>1, <1>2, <1>3 DEF NadoInv, RunnerTyped, N!Breaks, N!Goto, NadoReading, Judging, N!NotSeen, NadoSent
<1>5. Ended' BY <1>1, <1>2 DEF NadoInv, Ended, N!Breaks
<1>6. NadoSteps'
  BY <1>1, <1>2, <1>3 DEF NadoInv, RunnerTyped, NadoSteps, About, NadoReading, Judging, N!Breaks, N!Goto,
    N!WindowIsOver
<1>. USE <1>1, <1>2 DEF NadoInv, RunnerTyped, About, NadoReading, Judging, N!Goto, N!venue, N!store, N!WindowIsOver
<1>7. SeesJudging' BY DEF SeesJudging, Closing, NadoSteps, N!Breaks
<1>8. SeesJudged' BY DEF SeesJudged, NadoSteps, N!Breaks
<1>9. SeesExposed' BY DEF SeesExposed, SeesJudged, NadoSteps, N!Breaks
<1>10. SeesFinal' BY DEF SeesFinal, NadoSteps, N!Breaks
<1>11. Completed' BY DEF Completed, N!Breaks
<1>. QED BY <1>2, <1>4, <1>5, <1>6, <1>7, <1>8, <1>9, <1>10, <1>11

LEMMA CrashKeeps == ASSUME NadoInv, N!Crash PROVE NadoInv'
<1>1. UNCHANGED <<nOrder, late, intents>> BY DEF N!Crash, N!venue, N!store
<1>2. /\ NadoOrdered' /\ InTurn' /\ NadoPositionFollows' /\ N!Position' = N!Position
      /\ N!Requests' = N!Requests /\ N!Trades' = N!Trades /\ N!OfKind("CLOSE")' = N!OfKind("CLOSE")
      /\ N!OfKind("CANCEL_ALL")' = N!OfKind("CANCEL_ALL")
      /\ TradesOver' = TradesOver /\ BookFlat' = BookFlat
  BY <1>1, NadoStanding
<1>3. /\ N!Requests = 1..Len(intents) /\ DOMAIN nOrder = N!Requests /\ Len(intents) \in Nat /\ N!Position \in Int
      /\ \A i \in N!Requests : nOrder[i] \in NadoSent /\ intents[i] \in NadoIntents
  BY StandsWhole
<1>4. RunnerTyped'
  BY <1>1, <1>2, <1>3 DEF NadoInv, RunnerTyped, N!Crash, N!Goto, NadoReading, Judging, N!NotSeen, NadoSent
<1>5. Ended' BY <1>1, <1>2 DEF NadoInv, Ended, N!Crash
<1>6. NadoSteps'
  BY <1>1, <1>2, <1>3 DEF NadoInv, RunnerTyped, NadoSteps, About, NadoReading, Judging, N!Crash, N!Goto,
    N!WindowIsOver
<1>. USE <1>1, <1>2 DEF NadoInv, RunnerTyped, About, NadoReading, Judging, N!Goto, N!venue, N!store, N!WindowIsOver
<1>7. SeesJudging' BY DEF SeesJudging, Closing, NadoSteps, N!Crash
<1>8. SeesJudged' BY DEF SeesJudged, NadoSteps, N!Crash
<1>9. SeesExposed' BY DEF SeesExposed, SeesJudged, NadoSteps, N!Crash
<1>10. SeesFinal' BY DEF SeesFinal, NadoSteps, N!Crash
<1>11. Completed' BY DEF Completed, N!Crash
<1>. QED BY <1>2, <1>4, <1>5, <1>6, <1>7, <1>8, <1>9, <1>10, <1>11

LEMMA ReadOrdersKeeps == ASSUME NadoInv, N!ReadOrders PROVE NadoInv'
<1>1. UNCHANGED <<nOrder, late, intents>> BY DEF N!ReadOrders, N!venue, N!store
<1>2. /\ NadoOrdered' /\ InTurn' /\ NadoPositionFollows' /\ N!Position' = N!Position
      /\ N!Requests' = N!Requests /\ N!Trades' = N!Trades /\ N!OfKind("CLOSE")' = N!OfKind("CLOSE")
      /\ N!OfKind("CANCEL_ALL")' = N!OfKind("CANCEL_ALL")
      /\ TradesOver' = TradesOver /\ BookFlat' = BookFlat
  BY <1>1, NadoStanding
<1>3. /\ N!Requests = 1..Len(intents) /\ DOMAIN nOrder = N!Requests /\ Len(intents) \in Nat /\ N!Position \in Int
      /\ \A i \in N!Requests : nOrder[i] \in NadoSent /\ intents[i] \in NadoIntents
  BY StandsWhole
<1>4. RunnerTyped'
    <2>. DEFINE c == CHOOSE i \in N!Requests : nOrder[i].at = "RESTING"
    <2>1. (\E i \in N!Requests : nOrder[i].at = "RESTING") => c \in N!Requests /\ nOrder[c].at = "RESTING" OBVIOUS
    <2>2. nSeen' = [nSeen EXCEPT !.open = IF \E i \in N!Requests : nOrder[i].at = "RESTING" THEN nOrder[c].left ELSE 0]
      BY DEF N!ReadOrders, c
    <2>. HIDE DEF c
    <2>3. (\E i \in N!Requests : nOrder[i].at = "RESTING") => nOrder[c].left \in Nat
      BY <2>1 DEF NadoInv, NadoOrdered, OrderedAt
    <2>. QED
      BY <1>1, <1>2, <1>3, <2>2, <2>3 DEF NadoInv, RunnerTyped, N!ReadOrders, N!Goto, NadoReading, Judging,
        NadoSent, NadoOrdered, OrderedAt
<1>5. Ended' BY <1>1, <1>2 DEF NadoInv, Ended, N!ReadOrders
<1>6. NadoSteps'
  BY <1>1, <1>2, <1>3 DEF NadoInv, RunnerTyped, NadoSteps, About, NadoReading, Judging, N!ReadOrders, N!Goto,
    N!WindowIsOver
<1>. USE <1>1, <1>2 DEF NadoInv, RunnerTyped, About, NadoReading, Judging, N!Goto, N!venue, N!store, N!WindowIsOver
<1>7. SeesJudging' BY DEF SeesJudging, Closing, NadoSteps, N!ReadOrders
<1>8. SeesJudged' BY DEF SeesJudged, NadoSteps, N!ReadOrders
<1>9. SeesExposed' BY DEF SeesExposed, SeesJudged, NadoSteps, N!ReadOrders
<1>10. SeesFinal' BY DEF SeesFinal, NadoSteps, N!ReadOrders
<1>11. Completed' BY DEF Completed, N!ReadOrders
<1>. QED BY <1>2, <1>4, <1>5, <1>6, <1>7, <1>8, <1>9, <1>10, <1>11

LEMMA ReadPositionsKeeps == ASSUME NadoInv, N!ReadPositions PROVE NadoInv'
<1>1. UNCHANGED <<nOrder, late, intents>> BY DEF N!ReadPositions, N!venue, N!store
<1>2. /\ NadoOrdered' /\ InTurn' /\ NadoPositionFollows' /\ N!Position' = N!Position
      /\ N!Requests' = N!Requests /\ N!Trades' = N!Trades /\ N!OfKind("CLOSE")' = N!OfKind("CLOSE")
      /\ N!OfKind("CANCEL_ALL")' = N!OfKind("CANCEL_ALL")
      /\ TradesOver' = TradesOver /\ BookFlat' = BookFlat
  BY <1>1, NadoStanding
<1>3. /\ N!Requests = 1..Len(intents) /\ DOMAIN nOrder = N!Requests /\ Len(intents) \in Nat /\ N!Position \in Int
      /\ \A i \in N!Requests : nOrder[i] \in NadoSent /\ intents[i] \in NadoIntents
  BY StandsWhole
<1>4. RunnerTyped'
  BY <1>1, <1>2, <1>3 DEF NadoInv, RunnerTyped, N!ReadPositions, N!Goto, NadoReading, Judging, N!NotSeen,
    NadoSent
<1>5. Ended' BY <1>1, <1>2 DEF NadoInv, Ended, N!ReadPositions
<1>6. NadoSteps'
  BY <1>1, <1>2, <1>3 DEF NadoInv, RunnerTyped, NadoSteps, About, NadoReading, Judging, N!ReadPositions,
    N!Goto, N!WindowIsOver
<1>. USE <1>1, <1>2 DEF NadoInv, RunnerTyped, About, NadoReading, Judging, N!Goto, N!venue, N!store, N!WindowIsOver
<1>7. SeesJudging' BY DEF SeesJudging, Closing, NadoSteps, N!ReadPositions
<1>8. SeesJudged' BY DEF SeesJudged, NadoSteps, N!ReadPositions
<1>9. SeesExposed' BY DEF SeesExposed, SeesJudged, NadoSteps, N!ReadPositions
<1>10. SeesFinal' BY DEF SeesFinal, NadoSteps, N!ReadPositions
<1>11. Completed' BY DEF Completed, N!ReadPositions
<1>. QED BY <1>2, <1>4, <1>5, <1>6, <1>7, <1>8, <1>9, <1>10, <1>11

LEMMA ReadFillsKeeps == ASSUME NadoInv, N!ReadFills PROVE NadoInv'
<1>1. UNCHANGED <<nOrder, late, intents>> BY DEF N!ReadFills, N!venue, N!store
<1>2. /\ NadoOrdered' /\ InTurn' /\ NadoPositionFollows' /\ N!Position' = N!Position
      /\ N!Requests' = N!Requests /\ N!Trades' = N!Trades /\ N!OfKind("CLOSE")' = N!OfKind("CLOSE")
      /\ N!OfKind("CANCEL_ALL")' = N!OfKind("CANCEL_ALL")
      /\ TradesOver' = TradesOver /\ BookFlat' = BookFlat
  BY <1>1, NadoStanding
<1>3. /\ N!Requests = 1..Len(intents) /\ DOMAIN nOrder = N!Requests /\ Len(intents) \in Nat /\ N!Position \in Int
      /\ \A i \in N!Requests : nOrder[i] \in NadoSent /\ intents[i] \in NadoIntents
  BY StandsWhole
<1>4. RunnerTyped'
  BY <1>1, <1>2, <1>3 DEF NadoInv, RunnerTyped, N!ReadFills, N!Goto, NadoReading, Judging, N!NotSeen, NadoSent
<1>5. Ended' BY <1>1, <1>2 DEF NadoInv, Ended, N!ReadFills
<1>6. NadoSteps'
  BY <1>1, <1>2, <1>3 DEF NadoInv, RunnerTyped, NadoSteps, About, NadoReading, Judging, N!ReadFills, N!Goto,
    N!WindowIsOver
<1>. USE <1>1, <1>2 DEF NadoInv, RunnerTyped, About, NadoReading, Judging, N!Goto, N!venue, N!store, N!WindowIsOver
<1>7. SeesJudging' BY DEF SeesJudging, Closing, NadoSteps, N!ReadFills
<1>8. SeesJudged' BY DEF SeesJudged, NadoSteps, N!ReadFills
<1>9. SeesExposed' BY DEF SeesExposed, SeesJudged, NadoSteps, N!ReadFills
<1>10. SeesFinal' BY DEF SeesFinal, NadoSteps, N!ReadFills
<1>11. Completed' BY DEF Completed, N!ReadFills
<1>. QED BY <1>2, <1>4, <1>5, <1>6, <1>7, <1>8, <1>9, <1>10, <1>11

LEMMA RefusedKeeps == ASSUME NadoInv, N!Refused PROVE NadoInv'
<1>1. UNCHANGED <<nOrder, late, intents>> BY DEF N!Refused, N!venue, N!store
<1>2. /\ NadoOrdered' /\ InTurn' /\ NadoPositionFollows' /\ N!Position' = N!Position
      /\ N!Requests' = N!Requests /\ N!Trades' = N!Trades /\ N!OfKind("CLOSE")' = N!OfKind("CLOSE")
      /\ N!OfKind("CANCEL_ALL")' = N!OfKind("CANCEL_ALL")
      /\ TradesOver' = TradesOver /\ BookFlat' = BookFlat
  BY <1>1, NadoStanding
<1>3. /\ N!Requests = 1..Len(intents) /\ DOMAIN nOrder = N!Requests /\ Len(intents) \in Nat /\ N!Position \in Int
      /\ \A i \in N!Requests : nOrder[i] \in NadoSent /\ intents[i] \in NadoIntents
  BY StandsWhole
<1>4. RunnerTyped'
  BY <1>1, <1>2, <1>3 DEF NadoInv, RunnerTyped, N!Refused, N!Goto, NadoReading, Judging, N!NotSeen, NadoSent
<1>5. Ended' BY <1>1, <1>2 DEF NadoInv, Ended, N!Refused
<1>6. NadoSteps'
  BY <1>1, <1>2, <1>3 DEF NadoInv, RunnerTyped, NadoSteps, About, NadoReading, Judging, N!Refused, N!Goto,
    N!WindowIsOver
<1>. USE <1>1, <1>2 DEF NadoInv, RunnerTyped, About, NadoReading, Judging, N!Goto, N!venue, N!store, N!WindowIsOver
<1>7. SeesJudging' BY DEF SeesJudging, Closing, NadoSteps, N!Refused
<1>8. SeesJudged' BY DEF SeesJudged, NadoSteps, N!Refused
<1>9. SeesExposed' BY DEF SeesExposed, SeesJudged, NadoSteps, N!Refused
<1>10. SeesFinal' BY DEF SeesFinal, NadoSteps, N!Refused
<1>11. Completed' BY DEF Completed, N!Refused
<1>. QED BY <1>2, <1>4, <1>5, <1>6, <1>7, <1>8, <1>9, <1>10, <1>11

LEMMA NothingLeftKeeps == ASSUME NadoInv, N!NothingLeft PROVE NadoInv'
<1>1. UNCHANGED <<nOrder, late, intents>> BY DEF N!NothingLeft, N!venue, N!store
<1>2. /\ NadoOrdered' /\ InTurn' /\ NadoPositionFollows' /\ N!Position' = N!Position
      /\ N!Requests' = N!Requests /\ N!Trades' = N!Trades /\ N!OfKind("CLOSE")' = N!OfKind("CLOSE")
      /\ N!OfKind("CANCEL_ALL")' = N!OfKind("CANCEL_ALL")
      /\ TradesOver' = TradesOver /\ BookFlat' = BookFlat
  BY <1>1, NadoStanding
<1>3. /\ N!Requests = 1..Len(intents) /\ DOMAIN nOrder = N!Requests /\ Len(intents) \in Nat /\ N!Position \in Int
      /\ \A i \in N!Requests : nOrder[i] \in NadoSent /\ intents[i] \in NadoIntents
  BY StandsWhole
<1>4. RunnerTyped'
  BY <1>1, <1>2, <1>3 DEF NadoInv, RunnerTyped, N!NothingLeft, N!Goto, NadoReading, Judging, N!NotSeen,
    NadoSent
<1>5. Ended' BY <1>1, <1>2 DEF NadoInv, Ended, N!NothingLeft
<1>6. NadoSteps'
  BY <1>1, <1>2, <1>3 DEF NadoInv, RunnerTyped, NadoSteps, About, NadoReading, Judging, N!NothingLeft, N!Goto,
    N!WindowIsOver
<1>. USE <1>1, <1>2 DEF NadoInv, RunnerTyped, About, NadoReading, Judging, N!Goto, N!venue, N!store, N!WindowIsOver
<1>7. SeesJudging' BY DEF SeesJudging, Closing, NadoSteps, N!NothingLeft
<1>8. SeesJudged' BY DEF SeesJudged, NadoSteps, N!NothingLeft
<1>9. SeesExposed' BY DEF SeesExposed, SeesJudged, NadoSteps, N!NothingLeft
<1>10. SeesFinal' BY DEF SeesFinal, SeesExposed, N!NothingLeft
<1>11. Completed' BY DEF Completed, N!NothingLeft
<1>. QED BY <1>2, <1>4, <1>5, <1>6, <1>7, <1>8, <1>9, <1>10, <1>11

LEMMA WaitKeeps == ASSUME NadoInv, N!Wait PROVE NadoInv'
<1>1. UNCHANGED <<nOrder, late, intents>> BY DEF N!Wait, N!venue, N!store
<1>2. /\ NadoOrdered' /\ InTurn' /\ NadoPositionFollows' /\ N!Position' = N!Position
      /\ N!Requests' = N!Requests /\ N!Trades' = N!Trades /\ N!OfKind("CLOSE")' = N!OfKind("CLOSE")
      /\ N!OfKind("CANCEL_ALL")' = N!OfKind("CANCEL_ALL")
      /\ TradesOver' = TradesOver /\ BookFlat' = BookFlat
  BY <1>1, NadoStanding
<1>3. /\ N!Requests = 1..Len(intents) /\ DOMAIN nOrder = N!Requests /\ Len(intents) \in Nat /\ N!Position \in Int
      /\ \A i \in N!Requests : nOrder[i] \in NadoSent /\ intents[i] \in NadoIntents
  BY StandsWhole
<1>4. RunnerTyped'
  BY <1>1, <1>2, <1>3 DEF NadoInv, RunnerTyped, N!Wait, N!Goto, NadoReading, Judging, N!NotSeen, NadoSent
<1>5. Ended' BY <1>1, <1>2 DEF NadoInv, Ended, N!Wait
<1>6. NadoSteps'
  BY <1>1, <1>2, <1>3 DEF NadoInv, RunnerTyped, NadoSteps, About, NadoReading, Judging, N!Wait, N!Goto,
    N!WindowIsOver
<1>. USE <1>1, <1>2 DEF NadoInv, RunnerTyped, About, NadoReading, Judging, N!Goto, N!venue, N!store, N!WindowIsOver
<1>7. SeesJudging' BY DEF SeesJudging, Closing, NadoSteps, N!Wait
<1>8. SeesJudged' BY DEF SeesJudged, NadoSteps, N!Wait
<1>9. SeesExposed' BY DEF SeesExposed, SeesJudged, NadoSteps, N!Wait
<1>10. SeesFinal' BY DEF SeesFinal, NadoSteps, N!Wait
<1>11. Completed' BY DEF Completed, N!Wait
<1>. QED BY <1>2, <1>4, <1>5, <1>6, <1>7, <1>8, <1>9, <1>10, <1>11

LEMMA ObserveAgainKeeps == ASSUME NadoInv, N!ObserveAgain PROVE NadoInv'
<1>1. UNCHANGED <<nOrder, late, intents>> BY DEF N!ObserveAgain, N!venue, N!store
<1>2. /\ NadoOrdered' /\ InTurn' /\ NadoPositionFollows' /\ N!Position' = N!Position
      /\ N!Requests' = N!Requests /\ N!Trades' = N!Trades /\ N!OfKind("CLOSE")' = N!OfKind("CLOSE")
      /\ N!OfKind("CANCEL_ALL")' = N!OfKind("CANCEL_ALL")
      /\ TradesOver' = TradesOver /\ BookFlat' = BookFlat
  BY <1>1, NadoStanding
<1>3. /\ N!Requests = 1..Len(intents) /\ DOMAIN nOrder = N!Requests /\ Len(intents) \in Nat /\ N!Position \in Int
      /\ \A i \in N!Requests : nOrder[i] \in NadoSent /\ intents[i] \in NadoIntents
  BY StandsWhole
<1>4. RunnerTyped'
  BY <1>1, <1>2, <1>3 DEF NadoInv, RunnerTyped, N!ObserveAgain, N!Goto, NadoReading, Judging, N!NotSeen,
    NadoSent
<1>5. Ended' BY <1>1, <1>2 DEF NadoInv, Ended, N!ObserveAgain
<1>6. NadoSteps'
  BY <1>1, <1>2, <1>3 DEF NadoInv, RunnerTyped, NadoSteps, About, NadoReading, Judging, N!ObserveAgain,
    N!Goto, N!WindowIsOver
<1>. USE <1>1, <1>2 DEF NadoInv, RunnerTyped, About, NadoReading, Judging, N!Goto, N!venue, N!store, N!WindowIsOver
<1>7. SeesJudging' BY DEF SeesJudging, Closing, NadoSteps, N!ObserveAgain
<1>8. SeesJudged' BY DEF SeesJudged, NadoSteps, N!ObserveAgain
<1>9. SeesExposed' BY DEF SeesExposed, SeesJudged, NadoSteps, N!ObserveAgain
<1>10. SeesFinal' BY DEF SeesFinal, NadoSteps, N!ObserveAgain
<1>11. Completed' BY DEF Completed, N!ObserveAgain
<1>. QED BY <1>2, <1>4, <1>5, <1>6, <1>7, <1>8, <1>9, <1>10, <1>11

LEMMA HaltKeeps == ASSUME NadoInv, N!Halt PROVE NadoInv'
<1>1. UNCHANGED <<nOrder, late, intents>> BY DEF N!Halt, N!venue, N!store
<1>2. /\ NadoOrdered' /\ InTurn' /\ NadoPositionFollows' /\ N!Position' = N!Position
      /\ N!Requests' = N!Requests /\ N!Trades' = N!Trades /\ N!OfKind("CLOSE")' = N!OfKind("CLOSE")
      /\ N!OfKind("CANCEL_ALL")' = N!OfKind("CANCEL_ALL")
      /\ TradesOver' = TradesOver /\ BookFlat' = BookFlat
  BY <1>1, NadoStanding
<1>3. /\ N!Requests = 1..Len(intents) /\ DOMAIN nOrder = N!Requests /\ Len(intents) \in Nat /\ N!Position \in Int
      /\ \A i \in N!Requests : nOrder[i] \in NadoSent /\ intents[i] \in NadoIntents
  BY StandsWhole
<1>4. RunnerTyped'
  BY <1>1, <1>2, <1>3 DEF NadoInv, RunnerTyped, N!Halt, N!Goto, NadoReading, Judging, N!NotSeen, NadoSent
<1>5. Ended' BY <1>1, <1>2 DEF NadoInv, Ended, N!Halt
<1>6. NadoSteps'
  BY <1>1, <1>2, <1>3 DEF NadoInv, RunnerTyped, NadoSteps, About, NadoReading, Judging, N!Halt, N!Goto,
    N!WindowIsOver
<1>. USE <1>1, <1>2 DEF NadoInv, RunnerTyped, About, NadoReading, Judging, N!Goto, N!venue, N!store, N!WindowIsOver
<1>7. SeesJudging' BY DEF SeesJudging, Closing, NadoSteps, N!Halt
<1>8. SeesJudged' BY DEF SeesJudged, NadoSteps, N!Halt
<1>9. SeesExposed' BY DEF SeesExposed, SeesJudged, NadoSteps, N!Halt
<1>10. SeesFinal' BY DEF SeesFinal, NadoSteps, N!Halt
<1>11. Completed' BY DEF Completed, N!Halt
<1>. QED BY <1>2, <1>4, <1>5, <1>6, <1>7, <1>8, <1>9, <1>10, <1>11

LEMMA ContinueKeeps == ASSUME NadoInv, N!Continue PROVE NadoInv'
<1>1. UNCHANGED <<nOrder, late, intents>> BY DEF N!Continue, N!venue, N!store
<1>2. /\ NadoOrdered' /\ InTurn' /\ NadoPositionFollows' /\ N!Position' = N!Position
      /\ N!Requests' = N!Requests /\ N!Trades' = N!Trades /\ N!OfKind("CLOSE")' = N!OfKind("CLOSE")
      /\ N!OfKind("CANCEL_ALL")' = N!OfKind("CANCEL_ALL")
      /\ TradesOver' = TradesOver /\ BookFlat' = BookFlat
  BY <1>1, NadoStanding
<1>3. /\ N!Requests = 1..Len(intents) /\ DOMAIN nOrder = N!Requests /\ Len(intents) \in Nat /\ N!Position \in Int
      /\ \A i \in N!Requests : nOrder[i] \in NadoSent /\ intents[i] \in NadoIntents
  BY StandsWhole
<1>4. RunnerTyped'
  BY <1>1, <1>2, <1>3 DEF NadoInv, RunnerTyped, N!Continue, N!Goto, NadoReading, Judging, N!NotSeen, NadoSent
<1>5. Ended' BY <1>1, <1>2 DEF NadoInv, Ended, N!Continue
<1>6. NadoSteps'
    <2>1. /\ cur \in N!Requests /\ nOrder[cur].at # "UNSENT" /\ cur \in late /\ task = "JUDGE"
          /\ \A j \in N!Requests : j > cur => intents[j].kind = "CANCEL_ALL"
          /\ intents[cur].kind = "CANCEL_ALL" => N!OfKind("CLOSE") = {}
      BY DEF NadoInv, NadoSteps, About, Judging, N!Continue
    <2>2. CASE nPc' = "wait"
        <3>1. cur' = 1 /\ intents[cur].kind = "CANCEL_ALL" /\ task' = task /\ intents' = intents /\ nOrder' = nOrder
          BY <2>2 DEF N!Continue, N!Goto, N!venue, N!store
        <3>2. 1 \in N!Requests /\ nOrder[1].at # "UNSENT" /\ \A j \in N!Requests : j > 1 => intents[j].kind = "CANCEL_ALL"
          BY <1>3, <2>1, <3>1 DEF NadoInv, NadoOrdered, OrderedAt, N!OfKind, NadoIntents
        <3>3. intents[1].kind # "CANCEL_ALL" BY <3>2 DEF NadoInv, NadoOrdered, OrderedAt
        <3>. QED BY <1>2, <2>1, <2>2, <3>1, <3>2, <3>3 DEF NadoSteps, About, NadoReading, Judging
    <2>3. CASE nPc' = "cancel"
        <3>1. cur = 1 BY <2>1, <2>3 DEF NadoInv, NadoOrdered, OrderedAt, N!Continue, N!Goto
        <3>2. N!OfKind("CLOSE") = {} BY <1>3, <2>1, <3>1 DEF NadoInv, NadoOrdered, OrderedAt, N!OfKind
        <3>. QED BY <1>1, <1>2, <2>1, <2>3, <3>1, <3>2 DEF NadoSteps, About, NadoReading, Judging, N!Requests
    <2>4. CASE nPc' \in {"exposed", "failed"} BY <2>4 DEF NadoSteps, About, NadoReading, Judging
    <2>. QED BY <2>2, <2>3, <2>4 DEF N!Continue, N!Goto
<1>. USE <1>1, <1>2 DEF NadoInv, RunnerTyped, About, NadoReading, Judging, N!Goto, N!venue, N!store, N!WindowIsOver
<1>7. SeesJudging' BY DEF SeesJudging, Closing, NadoSteps, N!Continue
<1>8. SeesJudged' BY DEF SeesJudged, NadoSteps, N!Continue
<1>9. SeesExposed'
    <2>. SUFFICES ASSUME nPc' = "exposed" PROVE TradesOver' /\ nSeen'.position = N!Position' BY DEF SeesExposed
    <2>1. /\ cur \in N!Requests /\ \A j \in N!Requests : j > cur => intents[j].kind = "CANCEL_ALL"
          /\ nOrder[cur].at = "GONE" /\ nSeen.position = N!Position /\ nSeen' = nSeen /\ intents[cur].kind # "CANCEL_ALL"
      BY DEF SeesJudged, NadoSteps, N!Continue
    <2>2. TradesOver
        <3>1. cur \in N!Trades BY <1>3, <2>1 DEF N!Trades, N!OfKind, NadoIntents
        <3>2. SUFFICES ASSUME NEW i \in N!Trades PROVE nOrder[i].at = "GONE" BY DEF TradesOver
        <3>3. i \in N!Requests /\ intents[i].kind # "CANCEL_ALL" BY DEF N!Trades, N!OfKind
        <3>4. i = cur \/ i < cur BY <1>3, <2>1, <3>3
        <3>. QED BY <2>1, <3>1, <3>4 DEF InTurn
    <2>. QED BY <2>1, <2>2
<1>10. SeesFinal' BY DEF SeesFinal, NadoSteps, N!Continue
<1>11. Completed' BY DEF Completed, N!Continue
<1>. QED BY <1>2, <1>4, <1>5, <1>6, <1>7, <1>8, <1>9, <1>10, <1>11

LEMMA CompleteKeeps == ASSUME NadoInv, N!Complete PROVE NadoInv'
<1>1. UNCHANGED <<nOrder, late, intents>> BY DEF N!Complete, N!venue, N!store
<1>2. /\ NadoOrdered' /\ InTurn' /\ NadoPositionFollows' /\ N!Position' = N!Position
      /\ N!Requests' = N!Requests /\ N!Trades' = N!Trades /\ N!OfKind("CLOSE")' = N!OfKind("CLOSE")
      /\ N!OfKind("CANCEL_ALL")' = N!OfKind("CANCEL_ALL")
      /\ TradesOver' = TradesOver /\ BookFlat' = BookFlat
  BY <1>1, NadoStanding
<1>3. /\ N!Requests = 1..Len(intents) /\ DOMAIN nOrder = N!Requests /\ Len(intents) \in Nat /\ N!Position \in Int
      /\ \A i \in N!Requests : nOrder[i] \in NadoSent /\ intents[i] \in NadoIntents
  BY StandsWhole
<1>4. RunnerTyped'
  BY <1>1, <1>2, <1>3 DEF NadoInv, RunnerTyped, N!Complete, N!Goto, NadoReading, Judging, N!NotSeen, NadoSent
<1>5. Ended' BY <1>1, <1>2 DEF NadoInv, Ended, N!Complete
<1>6. NadoSteps'
  BY <1>1, <1>2, <1>3 DEF NadoInv, RunnerTyped, NadoSteps, About, NadoReading, Judging, N!Complete, N!Goto,
    N!WindowIsOver
<1>. USE <1>1, <1>2 DEF NadoInv, RunnerTyped, About, NadoReading, Judging, N!Goto, N!venue, N!store, N!WindowIsOver
<1>7. SeesJudging' BY DEF SeesJudging, Closing, NadoSteps, N!Complete
<1>8. SeesJudged' BY DEF SeesJudged, NadoSteps, N!Complete
<1>9. SeesExposed' BY DEF SeesExposed, SeesJudged, NadoSteps, N!Complete
<1>10. SeesFinal' BY DEF SeesFinal, NadoSteps, N!Complete
<1>11. Completed'
    <2>1. CASE N!Barrier BY <2>1 DEF SeesFinal, N!Complete, N!Barrier, InTurn, BookFlat, N!Live, Completed
    <2>2. CASE ~N!Barrier BY <2>2 DEF Completed, N!Complete
    <2>. QED BY <2>1, <2>2
<1>. QED BY <1>2, <1>4, <1>5, <1>6, <1>7, <1>8, <1>9, <1>10, <1>11

\* While an order can trade, the program is not past the point of judging it, and
\* no later order has been sent.
LEMMA TradingIsOpen ==
    ASSUME NadoInv, NEW i \in N!Trades, N!Live(i)
    PROVE  /\ ~(nPc \in {"fills", "record", "judge"} /\ About /\ Closing)
           /\ ~(nPc \in {"go", "halt"} /\ nOutcome \in {"FILLED", "CANCELLED"} /\ intents[cur].kind # "CANCEL_ALL")
           /\ nPc # "exposed" /\ ~(nPc = "barrier" \/ (nPc \in NadoReading /\ task = "FINAL"))
           /\ status # "COMPLETE"
           /\ \A j \in N!Trades : j <= i
           /\ i \in N!Requests /\ intents[i].kind \in {"ENTRY", "CLOSE"}
<1>1. i \in N!Requests /\ intents[i].kind \in {"ENTRY", "CLOSE"} BY DEF N!Trades, N!OfKind
<1>2. \A j \in N!Trades : j \in N!Requests /\ (j <= i \/ i < j) BY <1>1, StandsWhole DEF N!Trades, N!OfKind
<1>3. \A j \in N!Trades : ~(i < j) BY DEF NadoInv, InTurn, N!Live
<1>4. ~TradesOver /\ ~BookFlat BY <1>1 DEF TradesOver, BookFlat, N!Live
<1>5. About => cur \in N!Requests /\ ~(cur < i) BY <1>1, StandsWhole DEF NadoInv, NadoSteps
<1>6. About /\ intents[cur].kind # "CANCEL_ALL" => cur = i
    <2>. SUFFICES ASSUME About, intents[cur].kind # "CANCEL_ALL" PROVE cur = i OBVIOUS
    <2>1. cur \in N!Trades BY <1>5, StandsWhole DEF N!Trades, N!OfKind, NadoIntents
    <2>. QED BY <1>1, <1>2, <1>3, <1>5, <2>1, StandsWhole
<1>7. ~(nPc \in {"fills", "record", "judge"} /\ About /\ Closing)
    <2>. SUFFICES ASSUME nPc \in {"fills", "record", "judge"}, About, Closing PROVE FALSE OBVIOUS
    <2>1. cur = i /\ cur \in late BY <1>6 DEF Closing, NadoInv, NadoSteps
    <2>2. nOrder[i].at = "RESTING" /\ i = 1 BY <1>1, <2>1 DEF NadoInv, NadoOrdered, OrderedAt, N!Live
    <2>. QED BY <1>1, <2>1, <2>2 DEF Closing, NadoInv, Ended, NadoOrdered, OrderedAt
<1>8. ~(nPc \in {"go", "halt"} /\ nOutcome \in {"FILLED", "CANCELLED"} /\ intents[cur].kind # "CANCEL_ALL")
  BY <1>6 DEF NadoInv, SeesJudged, About, Judging, N!Live
<1>. QED BY <1>1, <1>2, <1>3, <1>4, <1>7, <1>8 DEF NadoInv, SeesExposed, SeesFinal, Completed

\* The steps of the venue.
LEMMA TradeKeeps ==
    ASSUME NadoInv, NEW i \in N!Trades, N!Live(i), NEW n \in Nat, n <= nOrder[i].left, NEW w \in {"GONE", "RESTING"},
           w = "RESTING" => i = 1 /\ n # nOrder[i].left, N!Trade(i, n, w),
           UNCHANGED <<late, intents, status, nPc, cur, task, nSeen, terminal, nOutcome>>
    PROVE  NadoInv'
<1>1. /\ ~(nPc \in {"fills", "record", "judge"} /\ About /\ Closing)
      /\ ~(nPc \in {"go", "halt"} /\ nOutcome \in {"FILLED", "CANCELLED"} /\ intents[cur].kind # "CANCEL_ALL")
      /\ nPc # "exposed" /\ ~(nPc = "barrier" \/ (nPc \in NadoReading /\ task = "FINAL"))
      /\ status # "COMPLETE"
      /\ \A j \in N!Trades : j <= i
      /\ i \in N!Requests /\ intents[i].kind \in {"ENTRY", "CLOSE"}
  BY TradingIsOpen
<1>2. /\ N!Requests = 1..Len(intents) /\ DOMAIN nOrder = N!Requests /\ Len(intents) \in Nat /\ N!Position \in Int
      /\ \A k \in N!Requests : nOrder[k] \in NadoSent /\ intents[k] \in NadoIntents
  BY StandsWhole
<1>3. /\ nOrder' = [nOrder EXCEPT ![i] = [at |-> w, left |-> nOrder[i].left - n, filled |-> nOrder[i].filled + n]]
      /\ nOrder'[i] = [at |-> w, left |-> nOrder[i].left - n, filled |-> nOrder[i].filled + n]
      /\ \A j \in N!Requests : j # i => nOrder'[j] = nOrder[j]
      /\ [at |-> w, left |-> nOrder[i].left - n, filled |-> nOrder[i].filled + n] \in NadoSent
  BY <1>1, <1>2 DEF N!Trade, NadoSent
<1>4. N!Requests' = N!Requests /\ N!Trades' = N!Trades /\ N!OfKind("CLOSE")' = N!OfKind("CLOSE") /\ About' = About /\ Closing' = Closing
  BY DEF N!Requests, N!Trades, N!OfKind, About, Closing
<1>5. RunnerTyped' BY <1>1, <1>2, <1>3, SequenceExcept, <1>4 DEF NadoInv, RunnerTyped
<1>6. N!Position' = N!Position + N!Signed(i, n) BY <1>1, <1>5, BookTrades DEF NadoInv
<1>7. NadoOrdered'
    <2>. SUFFICES ASSUME NEW j \in N!Requests PROVE OrderedAt(j)' BY <1>4 DEF NadoOrdered, OrderedAt
    <2>1. OrderedAt(j) BY DEF NadoInv, NadoOrdered, OrderedAt
    <2>2. CASE j # i BY <1>3, <2>1, <2>2 DEF OrderedAt
    <2>3. CASE j = i
        <3>1. nOrder[i].left \in Int /\ nOrder[i].filled \in Nat /\ intents[i].fills \in Nat
          BY <1>1, <1>2 DEF NadoSent, NadoIntents
        <3>2. nOrder'[i].at = w /\ nOrder'[i].left = nOrder[i].left - n /\ nOrder'[i].filled = nOrder[i].filled + n
          BY <1>3
        <3>. QED BY <1>1, <2>1, <2>3, <3>1, <3>2 DEF OrderedAt, NadoInv, NadoOrdered
    <2>. QED BY <2>2, <2>3
<1>8. InTurn' BY <1>1, <1>2, <1>3, <1>4 DEF NadoInv, InTurn, N!Live
<1>9. Ended' BY <1>3, <1>4 DEF NadoInv, Ended, N!Live
<1>10. NadoPositionFollows'
    <2>1. CASE intents[i].kind = "ENTRY"
        <3>1. i = 1 /\ N!Signed(i, n) = n BY <1>1, <2>1 DEF NadoInv, NadoOrdered, OrderedAt, N!Signed
        <3>2. N!OfKind("CLOSE") = {}
          BY <1>1, <1>2, <2>1, <3>1 DEF NadoInv, NadoOrdered, OrderedAt, N!OfKind, N!Trades
        <3>3. intents # << >> BY <1>1, <1>2
        <3>. QED BY <1>3, <1>4, <1>6, <3>1, <3>2, <3>3 DEF NadoInv, NadoPositionFollows
    <2>2. CASE intents[i].kind = "CLOSE"
        <3>1. i \in N!OfKind("CLOSE") /\ N!Signed(i, n) = 0 - n /\ w = "GONE"
          BY <1>1, <2>2 DEF NadoInv, NadoOrdered, OrderedAt, N!Signed, N!OfKind
        <3>2. \A j \in N!OfKind("CLOSE") : j <= i /\ j \in N!Requests BY <1>1 DEF N!Trades, N!OfKind
        <3>3. N!Position = intents[i].start - nOrder[i].filled BY <3>1, <3>2 DEF NadoInv, NadoPositionFollows
        <3>4. N!Position' = intents[i].start - nOrder'[i].filled
          BY <1>2, <1>3, <1>6, <3>1, <3>3, <1>1 DEF NadoIntents, NadoSent
        <3>5. \A j \in N!OfKind("CLOSE") : i <= j => j = i BY <1>1, <1>2, <3>2
        <3>6. nOrder'[i].at = "GONE" /\ intents # << >> BY <1>1, <1>2, <1>3, <3>1
        <3>. QED BY <1>4, <3>1, <3>4, <3>5, <3>6 DEF NadoPositionFollows
    <2>. QED BY <1>1, <2>1, <2>2
<1>11. NadoSteps'
    <2>1. \A j \in N!Requests : nOrder[j].filled <= nOrder'[j].filled /\ (nOrder'[j].at = "UNSENT" <=> nOrder[j].at = "UNSENT")
      BY <1>1, <1>2, <1>3 DEF N!Live, NadoSent
    <2>2. intents # << >> => 1 \in N!Requests /\ Len(intents) \in N!Requests BY <1>2
    <2>3. \A j \in N!Requests : nOrder[j].filled \in Nat /\ nOrder'[j].filled \in Nat BY <1>2, <1>3 DEF NadoSent
    <2>4. nPc \in {"record", "judge", "barrier"} =>
               /\ nSeen.fills \in [N!Requests -> Nat]
               /\ \A j \in N!Requests : nSeen.fills[j] <= nOrder'[j].filled
      BY <2>1, <2>3 DEF NadoInv, NadoSteps
    <2>5. nPc = "send" => nOrder'[cur].at = "UNSENT" BY <2>1, <2>2, <1>2 DEF NadoInv, NadoSteps
    <2>. QED BY <1>4, <2>1, <2>2, <2>4, <2>5 DEF NadoInv, NadoSteps
<1>12. SeesJudging' /\ SeesJudged' /\ SeesExposed' /\ SeesFinal' /\ Completed'
  BY <1>1, <1>4 DEF SeesJudging, SeesJudged, SeesExposed, SeesFinal, Completed
<1>. QED BY <1>5, <1>7, <1>8, <1>9, <1>10, <1>11, <1>12 DEF NadoInv

LEMMA BookMoves ==
    ASSUME NadoInv, RunnerTyped', Len(intents') = Len(intents),
           \A j \in N!Requests :
               /\ nOrder'[j].filled = nOrder[j].filled /\ nOrder'[j].left = nOrder[j].left
               /\ \/ nOrder'[j].at = nOrder[j].at \/ nOrder'[j].at = "GONE"
                  \/ nOrder[j].at = "UNSENT" /\ nOrder'[j].at = "FLYING" /\ j = Len(intents)
               /\ j \in late' => nOrder'[j].at \in {"RESTING", "GONE"}
               /\ intents'[j].kind = intents[j].kind /\ intents'[j].amount = intents[j].amount
               /\ intents'[j].start = intents[j].start
               /\ intents'[j].fills <= nOrder[j].filled
               /\ intents'[j].state = "RECONCILED" => nOrder'[j].at = "GONE" /\ intents'[j].fills = nOrder[j].filled
    PROVE  /\ NadoOrdered' /\ InTurn' /\ NadoPositionFollows' /\ N!Position' = N!Position
           /\ N!Requests' = N!Requests /\ N!Trades' = N!Trades /\ \A k : N!OfKind(k)' = N!OfKind(k)
           /\ TradesOver => TradesOver'
<1>1. /\ N!Requests = 1..Len(intents) /\ DOMAIN nOrder = N!Requests /\ Len(intents) \in Nat /\ N!Position \in Int
      /\ \A k \in N!Requests : nOrder[k] \in NadoSent /\ intents[k] \in NadoIntents
  BY StandsWhole
<1>2. N!Requests' = N!Requests BY <1>1 DEF RunnerTyped, N!Requests
<1>3. N!Trades' = N!Trades /\ \A k : N!OfKind(k)' = N!OfKind(k) BY <1>2 DEF N!Trades, N!OfKind
<1>4. N!Position' = N!Position BY <1>2, NadoBookStands DEF NadoInv
<1>5. NadoOrdered' BY <1>1, <1>2 DEF NadoInv, NadoOrdered, OrderedAt
<1>6. InTurn' BY <1>1, <1>2, <1>3 DEF NadoInv, InTurn, N!Trades, N!OfKind
<1>7. NadoPositionFollows'
    <2>1. (intents # << >> => 1 \in N!Requests) /\ (intents' # << >> => intents # << >>) /\ (intents' = << >> => intents = << >>)
      BY <1>1, <1>2 DEF RunnerTyped
    <2>2. \A i \in N!OfKind("CLOSE") : i \in N!Requests BY DEF N!OfKind
    <2>. QED BY <1>3, <1>4, <2>1, <2>2 DEF NadoInv, NadoPositionFollows
<1>8. TradesOver => TradesOver' BY <1>3 DEF TradesOver, N!Trades, N!OfKind
<1>. QED BY <1>2, <1>3, <1>4, <1>5, <1>6, <1>7, <1>8

LEMMA SettleKeeps ==
    ASSUME NadoInv, nOrder' \in Seq(NadoSent), Len(nOrder') = Len(nOrder), late' \subseteq N!Requests, late \subseteq late',
           \A j \in N!Requests : nOrder'[j] = nOrder[j] \/ (N!Live(j) /\ nOrder'[j] = [nOrder[j] EXCEPT !.at = "GONE"]),
           \A j \in late' : j \in late \/ nOrder'[j].at \in {"RESTING", "GONE"},
           UNCHANGED <<intents, status, nPc, cur, task, nSeen, terminal, nOutcome>>
    PROVE  NadoInv'
<1>1. RunnerTyped' BY DEF NadoInv, RunnerTyped, N!Requests
<1>2. /\ NadoOrdered' /\ InTurn' /\ NadoPositionFollows' /\ N!Position' = N!Position
      /\ N!Requests' = N!Requests /\ N!Trades' = N!Trades /\ N!OfKind("CLOSE")' = N!OfKind("CLOSE")
      /\ TradesOver => TradesOver'
    <2>1. \A j \in N!Requests : intents[j].fills <= nOrder[j].filled /\ (j \in late => nOrder[j].at \in {"RESTING", "GONE"})
      BY DEF NadoInv, NadoOrdered, OrderedAt
    <2>2. \A j \in N!Requests : intents[j].state = "RECONCILED" => nOrder[j].at = "GONE" /\ intents[j].fills = nOrder[j].filled
      BY DEF NadoInv, InTurn
    <2>3. \A k \in N!Requests : nOrder[k] \in NadoSent BY StandsWhole
    <2>4. \A j \in N!Requests : /\ nOrder'[j].filled = nOrder[j].filled /\ nOrder'[j].left = nOrder[j].left
                                /\ nOrder'[j].at = nOrder[j].at \/ nOrder'[j].at = "GONE"
      BY <2>3 DEF NadoSent
    <2>. QED BY <1>1, <2>1, <2>2, <2>4, BookMoves
<1>3. /\ N!Requests = 1..Len(intents) /\ DOMAIN nOrder = N!Requests /\ Len(intents) \in Nat
      /\ \A k \in N!Requests : nOrder[k] \in NadoSent /\ intents[k] \in NadoIntents
  BY StandsWhole
<1>4. \A j \in N!Requests : /\ nOrder'[j].filled = nOrder[j].filled
                            /\ nOrder'[j].at = nOrder[j].at \/ nOrder'[j].at = "GONE"
                            /\ nOrder[j].at = "UNSENT" => nOrder'[j].at = "UNSENT"
    <2>1. ASSUME NEW e \in NadoSent, NEW c, c = [e EXCEPT !.at = "GONE"]
          PROVE  c.filled = e.filled /\ c.at = "GONE"
      BY <2>1 DEF NadoSent
    <2>2. ASSUME NEW j \in N!Requests
          PROVE  /\ nOrder'[j].filled = nOrder[j].filled
                 /\ nOrder'[j].at = nOrder[j].at \/ nOrder'[j].at = "GONE"
                 /\ nOrder[j].at = "UNSENT" => nOrder'[j].at = "UNSENT"
        <3>1. CASE nOrder'[j] = nOrder[j] BY <3>1
        <3>2. CASE N!Live(j) /\ nOrder'[j] = [nOrder[j] EXCEPT !.at = "GONE"] BY <1>3, <2>1, <3>2 DEF N!Live
        <3>. QED BY <3>1, <3>2
    <2>. QED BY <2>2
<1>5. About' = About /\ Closing' = Closing BY <1>2 DEF About, Closing
<1>6. Ended' BY <1>2, <1>4 DEF NadoInv, Ended
<1>7. NadoSteps' BY <1>2, <1>3, <1>4, <1>5 DEF NadoInv, NadoSteps
<1>8. SeesJudging' /\ SeesExposed' /\ SeesFinal' /\ Completed'
  BY <1>2, <1>4, <1>5 DEF BookFlat, N!Live, NadoInv, SeesJudging, SeesExposed, SeesFinal, Completed
<1>9. SeesJudged' BY <1>2, <1>4 DEF NadoInv, SeesJudged, NadoSteps, About, Judging
<1>. QED BY <1>1, <1>2, <1>6, <1>7, <1>8, <1>9 DEF NadoInv

LEMMA ArrivesKeeps == ASSUME NadoInv, NEW i \in N!Requests, N!Arrives(i) PROVE NadoInv'
<1>1. /\ N!Requests = 1..Len(intents) /\ DOMAIN nOrder = N!Requests /\ Len(intents) \in Nat
      /\ \A k \in N!Requests : nOrder[k] \in NadoSent /\ intents[k] \in NadoIntents
  BY StandsWhole
<1>2. CASE intents[i].kind = "ENTRY"
    <2>1. PICK n \in 0..nOrder[i].left, w \in {"GONE", "RESTING"} : (w = "RESTING" => n < nOrder[i].left) /\ N!Trade(i, n, w)
      BY <1>2 DEF N!Arrives
    <2>2. i = 1 /\ nOrder[i].left \in Nat /\ i \in N!Trades /\ N!Live(i)
      BY <1>2 DEF NadoInv, NadoOrdered, OrderedAt, N!Trades, N!OfKind, N!Live, N!Arrives
    <2>. QED BY <2>1, <2>2, TradeKeeps DEF N!Arrives, N!store
<1>3. CASE intents[i].kind = "CLOSE"
    <2>1. PICK n \in 0..nOrder[i].left : N!Trade(i, n, "GONE") BY <1>3 DEF N!Arrives
    <2>2. i \in N!Trades /\ N!Live(i) /\ n \in Nat /\ n <= nOrder[i].left
      BY <1>1, <1>3, <2>1 DEF N!Trades, N!OfKind, N!Live, N!Arrives, NadoSent
    <2>. QED BY <2>1, <2>2, TradeKeeps DEF N!Arrives, N!store
<1>4. CASE intents[i].kind = "CANCEL_ALL"
    <2>1. nOrder' = [j \in N!Requests |-> IF N!Live(j) THEN [nOrder[j] EXCEPT !.at = "GONE"] ELSE nOrder[j]]
      BY <1>4 DEF N!Arrives
    <2>2. nOrder' \in Seq(NadoSent) /\ Len(nOrder') = Len(nOrder)
        <3>1. nOrder' \in [1..Len(intents) -> NadoSent] BY <1>1, <2>1 DEF NadoSent
        <3>. QED BY <1>1, <3>1 DEF NadoInv, RunnerTyped
    <2>. QED BY <2>1, <2>2, SettleKeeps DEF N!Arrives, N!store, NadoInv, RunnerTyped
<1>. QED BY <1>1, <1>2, <1>3, <1>4 DEF NadoIntents

LEMMA RestingFillsKeeps == ASSUME NadoInv, NEW i \in N!Requests, N!RestingFills(i) PROVE NadoInv'
<1>1. i = 1 /\ i \in N!Trades /\ N!Live(i) /\ nOrder[i].left \in Nat
  BY DEF NadoInv, NadoOrdered, OrderedAt, N!Trades, N!OfKind, N!Live, N!RestingFills
<1>2. PICK n \in 1..nOrder[i].left : N!Trade(i, n, IF n = nOrder[i].left THEN "GONE" ELSE "RESTING")
  BY DEF N!RestingFills
<1>. DEFINE w == IF n = nOrder[i].left THEN "GONE" ELSE "RESTING"
<1>3. w \in {"GONE", "RESTING"} /\ (w = "RESTING" => i = 1 /\ n # nOrder[i].left) /\ n \in Nat /\ n <= nOrder[i].left
  BY <1>1, <1>2
<1>4. N!Trade(i, n, w) BY <1>2
<1>. HIDE DEF w
<1>. QED BY <1>1, <1>3, <1>4, TradeKeeps DEF N!RestingFills, N!store

LEMMA WindowClosesKeeps == ASSUME NadoInv, NEW i \in N!Requests, N!WindowCloses(i) PROVE NadoInv'
<1>1. /\ N!Requests = 1..Len(intents) /\ DOMAIN nOrder = N!Requests /\ Len(intents) \in Nat
      /\ \A k \in N!Requests : nOrder[k] \in NadoSent
  BY StandsWhole
<1>2. nOrder' = [nOrder EXCEPT ![i].at = IF nOrder[i].at = "FLYING" THEN "GONE" ELSE nOrder[i].at] /\ late' = late \cup {i}
      /\ nOrder[i].at # "UNSENT"
  BY DEF N!WindowCloses
<1>3. nOrder' \in Seq(NadoSent) /\ Len(nOrder') = Len(nOrder)
    <2>. DEFINE o == [nOrder[i] EXCEPT !.at = IF nOrder[i].at = "FLYING" THEN "GONE" ELSE nOrder[i].at]
    <2>1. nOrder' = [nOrder EXCEPT ![i] = o] /\ o \in NadoSent BY <1>1, <1>2 DEF NadoSent
    <2>. HIDE DEF o
    <2>. QED BY <1>1, <2>1, SequenceExcept DEF NadoInv, RunnerTyped
<1>4. \A j \in N!Requests : nOrder'[j] = nOrder[j] \/ (N!Live(j) /\ nOrder'[j] = [nOrder[j] EXCEPT !.at = "GONE"])
  BY <1>1, <1>2 DEF N!Live, NadoSent
<1>5. nOrder'[i].at \in {"RESTING", "GONE"} BY <1>1, <1>2 DEF NadoSent
<1>. QED BY <1>2, <1>3, <1>4, <1>5, SettleKeeps DEF N!WindowCloses, N!store, NadoInv, RunnerTyped

\* The steps that write an intent down.
LEMMA PrepareKeeps ==
    ASSUME NadoInv, NEW k \in {"ENTRY", "CANCEL_ALL", "CLOSE"}, NEW n \in Int, N!Prepare(k, n), status = "RUNNING",
           k = "ENTRY" <=> intents = << >>,
           k = "ENTRY" => n = Amount,
           k = "CANCEL_ALL" => N!OfKind("CLOSE") = {},
           intents # << >> => nOrder[1].at # "UNSENT",
           k = "CLOSE" => TradesOver /\ nSeen.position = N!Position /\ n = N!Position
    PROVE  NadoInv'
<1>. DEFINE m == Len(intents) + 1
<1>1. /\ N!Position' = N!Position
      /\ N!Requests' = N!Requests \cup {m} /\ Len(intents') = m
      /\ nOrder' \in Seq(NadoSent) /\ intents' \in Seq(NadoIntents) /\ Len(nOrder') = Len(intents')
      /\ \A i \in N!Requests : nOrder'[i] = nOrder[i] /\ intents'[i] = intents[i]
      /\ intents'[m] = [kind |-> k, amount |-> n, start |-> nSeen.position, state |-> "PREPARED", fills |-> 0]
      /\ nOrder'[m] = [at |-> "UNSENT", left |-> n, filled |-> 0]
  BY BookGrows DEF NadoInv
<1>2. /\ N!Requests = 1..Len(intents) /\ DOMAIN nOrder = N!Requests /\ Len(intents) \in Nat /\ N!Position \in Int
      /\ \A i \in N!Requests : nOrder[i] \in NadoSent /\ intents[i] \in NadoIntents
  BY StandsWhole
<1>3. /\ cur' = m /\ nPc' = "send" /\ m \notin N!Requests /\ m \in Nat \ {0} /\ m \notin late
      /\ UNCHANGED <<late, status, nSeen, terminal, nOutcome, task>>
  BY <1>2 DEF N!Prepare, N!Goto, NadoInv, RunnerTyped
<1>4. (k = "ENTRY" <=> m = 1) /\ (m > 1 => 1 \in N!Requests /\ nOrder[1].at # "UNSENT") BY <1>2
<1>. HIDE DEF m
<1>5. /\ \A i \in N!Requests : i \in N!Trades' <=> i \in N!Trades
      /\ N!Trades' \subseteq N!Trades \cup {m} /\ (m \in N!Trades' => k # "CANCEL_ALL")
      /\ N!OfKind("CLOSE")' = IF k = "CLOSE" THEN N!OfKind("CLOSE") \cup {m} ELSE N!OfKind("CLOSE")
  BY <1>1, <1>3 DEF N!Trades, N!OfKind
<1>6. RunnerTyped' BY <1>1, <1>3 DEF NadoInv, RunnerTyped
<1>7. NadoOrdered'
    <2>. SUFFICES ASSUME NEW i \in N!Requests' PROVE OrderedAt(i)' BY DEF NadoOrdered
    <2>1. CASE i \in N!Requests BY <1>1, <1>3, <1>4, <2>1 DEF NadoInv, NadoOrdered, OrderedAt
    <2>2. CASE i = m BY <1>1, <1>3, <1>4, <2>2, AmountAssumption DEF OrderedAt
    <2>. QED BY <1>1, <2>1, <2>2
<1>8. InTurn'
    <2>1. \A i, j \in N!Trades' : i < j => nOrder'[i].at = "GONE"
        <3>. SUFFICES ASSUME NEW i \in N!Trades', NEW j \in N!Trades', i < j PROVE nOrder'[i].at = "GONE" OBVIOUS
        <3>1. i \in N!Requests /\ i \in N!Trades BY <1>1, <1>2, <1>3, <1>5 DEF N!Trades, N!OfKind, m
        <3>2. CASE j = m BY <1>2, <1>5, <3>1, <3>2, <1>1 DEF TradesOver
        <3>3. CASE j # m BY <1>1, <1>5, <3>1, <3>3 DEF NadoInv, InTurn
        <3>. QED BY <3>2, <3>3
    <2>2. \A i \in N!Requests' : intents'[i].state = "RECONCILED" =>
              nOrder'[i].at = "GONE" /\ intents'[i].fills = nOrder'[i].filled
      BY <1>1 DEF NadoInv, InTurn
    <2>. QED BY <2>1, <2>2 DEF InTurn
<1>9. Ended' BY <1>1, <1>3 DEF NadoInv, Ended
<1>10. NadoPositionFollows'
    <2>0. \A i \in N!OfKind("CLOSE") : i \in N!Requests /\ i < m BY <1>2 DEF N!OfKind, m
    <2>1. CASE k = "ENTRY" BY <1>1, <1>2, <1>4, <2>1, <1>5 DEF NadoInv, NadoPositionFollows, N!OfKind
    <2>2. CASE k = "CANCEL_ALL"
        <3>1. intents # << >> /\ nOrder'[1] = nOrder[1] /\ intents' # << >> BY <1>1, <1>3, <2>2, <1>2
        <3>. QED BY <1>1, <1>5, <2>2, <3>1 DEF NadoInv, NadoPositionFollows
    <2>3. CASE k = "CLOSE" BY <1>2, <1>3, <1>5, <2>0, <2>3, <1>1 DEF NadoPositionFollows
    <2>. QED BY <2>1, <2>2, <2>3
<1>11. NadoSteps' BY <1>1, <1>3, <1>5 DEF NadoSteps, About, NadoReading, Judging
<1>12. SeesJudging' /\ SeesJudged' /\ SeesExposed' /\ SeesFinal' /\ Completed'
  BY <1>3 DEF SeesJudging, SeesJudged, SeesExposed, SeesFinal, Completed, NadoReading
<1>. QED BY <1>6, <1>7, <1>8, <1>9, <1>10, <1>11, <1>12 DEF NadoInv

LEMMA PrepareEntryKeeps == ASSUME NadoInv, N!PrepareEntry PROVE NadoInv'
BY PrepareKeeps, AmountAssumption DEF N!PrepareEntry, NadoInv, NadoSteps

LEMMA PrepareCancelKeeps == ASSUME NadoInv, N!PrepareCancel PROVE NadoInv'
BY PrepareKeeps DEF N!PrepareCancel, NadoInv, NadoSteps

LEMMA PrepareCloseKeeps == ASSUME NadoInv, N!PrepareClose PROVE NadoInv'
<1>1. TradesOver /\ nSeen.position = N!Position /\ N!Position \in Int
  BY StandsWhole DEF N!PrepareClose, NadoInv, SeesExposed
<1>2. intents # << >> /\ 1 \in N!Trades
  BY <1>1, StandsWhole DEF N!PrepareClose, NadoInv, NadoPositionFollows, NadoOrdered, OrderedAt, N!Trades,
    N!OfKind
<1>3. nOrder[1].at # "UNSENT" BY <1>1, <1>2 DEF TradesOver
<1>. QED BY <1>1, <1>2, <1>3, PrepareKeeps DEF N!PrepareClose, N!MayClose

\* The steps that send, and those that judge what came of it.
LEMMA SendAcceptedKeeps == ASSUME NadoInv, N!SendAccepted PROVE NadoInv'
<1>1. /\ cur = Len(intents) /\ cur \in N!Requests /\ nOrder[cur].at = "UNSENT" /\ nPc' = "mark"
      /\ UNCHANGED <<late, intents, status, cur, task, nSeen, nOutcome>> /\ status # "COMPLETE"
      /\ intents[cur].kind = "CANCEL_ALL" => N!OfKind("CLOSE") = {}
  BY StandsWhole DEF NadoInv, NadoSteps, N!SendAccepted, N!Goto, N!store, Completed
<1>2. /\ N!Requests = 1..Len(intents) /\ DOMAIN nOrder = N!Requests /\ Len(intents) \in Nat
      /\ \A i \in N!Requests : nOrder[i] \in NadoSent /\ intents[i] \in NadoIntents
  BY StandsWhole
<1>3. CASE intents[cur].kind = "CANCEL_ALL"
    <2>. DEFINE o == [nOrder EXCEPT ![1].at = "GONE"]
                q == [o EXCEPT ![cur].at = "GONE"]
    <2>1. nOrder' = [nOrder EXCEPT ![1].at = "GONE", ![cur].at = "GONE"] /\ terminal' = terminal \cup {1, cur}
      BY <1>3 DEF N!SendAccepted
    <2>2. 1 \in N!Requests /\ cur # 1 BY <1>1, <1>2, <1>3 DEF NadoInv, NadoOrdered, OrderedAt
    <2>3. /\ nOrder' \in Seq(NadoSent) /\ Len(nOrder') = Len(nOrder)
          /\ \A j \in N!Requests : nOrder'[j] = IF j \in {1, cur} THEN [nOrder[j] EXCEPT !.at = "GONE"] ELSE nOrder[j]
        <3>1. o \in Seq(NadoSent) /\ Len(o) = Len(nOrder) /\ o[1] = [nOrder[1] EXCEPT !.at = "GONE"]
              /\ \A j \in N!Requests : j # 1 => o[j] = nOrder[j]
            <4>1. [nOrder[1] EXCEPT !.at = "GONE"] \in NadoSent /\ nOrder \in Seq(NadoSent)
              BY <1>2, <2>2 DEF NadoInv, RunnerTyped, NadoSent
            <4>. QED BY <1>2, <2>2, <4>1, SequenceExcept
        <3>2. nOrder' = q BY <1>2, <2>1, <2>2
        <3>. HIDE DEF o
        <3>3. DOMAIN o = N!Requests BY <1>2, <3>1 DEF NadoInv, RunnerTyped
        <3>4. q \in Seq(NadoSent) /\ Len(q) = Len(o) /\ q[cur] = [o[cur] EXCEPT !.at = "GONE"]
              /\ \A j \in N!Requests : j # cur => q[j] = o[j]
            <4>1. [o[cur] EXCEPT !.at = "GONE"] \in NadoSent BY <1>1, <1>2, <2>2, <3>1 DEF NadoSent
            <4>. QED BY <1>1, <3>1, <3>3, <4>1, SequenceExcept
        <3>. QED BY <1>2, <2>2, <3>1, <3>2, <3>4
    <2>4. RunnerTyped' BY <1>1, <1>2, <2>3 DEF NadoInv, RunnerTyped, N!Requests
    <2>5. \A j \in N!Requests : /\ nOrder'[j].filled = nOrder[j].filled /\ nOrder'[j].left = nOrder[j].left
                                /\ nOrder'[j].at = IF j \in {1, cur} THEN "GONE" ELSE nOrder[j].at
      BY <1>2, <2>3 DEF NadoSent
    <2>6. \A j \in N!Requests : intents[j].fills <= nOrder[j].filled /\ (j \in late => nOrder[j].at \in {"RESTING", "GONE"})
      BY DEF NadoInv, NadoOrdered, OrderedAt
    <2>7. \A j \in N!Requests : intents[j].state = "RECONCILED" => nOrder[j].at = "GONE" /\ intents[j].fills = nOrder[j].filled
      BY DEF NadoInv, InTurn
    <2>8. NadoOrdered' /\ InTurn' /\ NadoPositionFollows' /\ N!Requests' = N!Requests /\ N!OfKind("CLOSE")' = N!OfKind("CLOSE")
      BY <1>1, <2>4, <2>5, <2>6, <2>7, BookMoves
    <2>9. Ended' BY <2>2, <2>5, <2>8 DEF Ended
    <2>10. NadoSteps' BY <1>1, <1>2, <2>5, <2>8 DEF NadoSteps, About, NadoReading, Judging
    <2>11. SeesJudging' /\ SeesJudged' /\ SeesExposed' /\ SeesFinal' /\ Completed'
      BY <1>1 DEF SeesJudging, SeesJudged, SeesExposed, SeesFinal, Completed, NadoReading
    <2>. QED BY <2>4, <2>8, <2>9, <2>10, <2>11 DEF NadoInv
<1>4. CASE intents[cur].kind # "CANCEL_ALL"
    <2>. DEFINE f == [nOrder[cur] EXCEPT !.at = "FLYING"]
    <2>1. nOrder' = [nOrder EXCEPT ![cur] = f] /\ f \in NadoSent
          /\ terminal' = IF intents[cur].kind = "CLOSE" THEN terminal \cup {cur} ELSE terminal
      BY <1>1, <1>2, <1>4 DEF N!SendAccepted, NadoSent
    <2>2. f.filled = nOrder[cur].filled /\ f.left = nOrder[cur].left /\ f.at = "FLYING" BY <1>1, <1>2 DEF NadoSent
    <2>. HIDE DEF f
    <2>3. nOrder' \in Seq(NadoSent) /\ Len(nOrder') = Len(nOrder) /\ nOrder'[cur] = f
          /\ \A j \in N!Requests : j # cur => nOrder'[j] = nOrder[j]
      BY <1>1, <1>2, <2>1, SequenceExcept DEF NadoInv, RunnerTyped
    <2>4. RunnerTyped' BY <1>1, <1>2, <2>3 DEF NadoInv, RunnerTyped, N!Requests
    <2>6. \A j \in N!Requests : intents[j].fills <= nOrder[j].filled /\ (j \in late => nOrder[j].at \in {"RESTING", "GONE"})
      BY DEF NadoInv, NadoOrdered, OrderedAt
    <2>7. \A j \in N!Requests : intents[j].state = "RECONCILED" => nOrder[j].at = "GONE" /\ intents[j].fills = nOrder[j].filled
      BY DEF NadoInv, InTurn
    <2>8. NadoOrdered' /\ InTurn' /\ NadoPositionFollows' /\ N!Requests' = N!Requests /\ N!OfKind("CLOSE")' = N!OfKind("CLOSE")
      BY <1>1, <2>2, <2>3, <2>4, <2>6, <2>7, BookMoves
    <2>9. Ended' BY <1>1, <2>1, <2>3, <2>8 DEF NadoInv, Ended, NadoOrdered, OrderedAt
    <2>10. NadoSteps' BY <1>1, <1>2, <2>2, <2>3, <2>8 DEF NadoSteps, About, NadoReading, Judging
    <2>11. SeesJudging' /\ SeesJudged' /\ SeesExposed' /\ SeesFinal' /\ Completed'
      BY <1>1 DEF SeesJudging, SeesJudged, SeesExposed, SeesFinal, Completed, NadoReading
    <2>. QED BY <2>4, <2>8, <2>9, <2>10, <2>11 DEF NadoInv
<1>. QED BY <1>3, <1>4

\* The store alone moves: what becomes of one intent or of the fills on record.
LEMMA StoreMoves ==
    ASSUME NadoInv, intents' \in Seq(NadoIntents), Len(intents') = Len(intents), UNCHANGED <<nOrder, late>>,
           \A j \in N!Requests :
               /\ intents'[j].kind = intents[j].kind /\ intents'[j].amount = intents[j].amount
               /\ intents'[j].start = intents[j].start /\ intents'[j].fills <= nOrder[j].filled
               /\ intents'[j].state = "RECONCILED" => nOrder[j].at = "GONE" /\ intents'[j].fills = nOrder[j].filled
    PROVE  /\ NadoOrdered' /\ InTurn' /\ NadoPositionFollows' /\ N!Position' = N!Position /\ N!Requests' = N!Requests
           /\ N!OfKind("CLOSE")' = N!OfKind("CLOSE") /\ (TradesOver => TradesOver')
<1>1. /\ N!Requests = 1..Len(intents) /\ DOMAIN nOrder = N!Requests /\ Len(intents) \in Nat /\ N!Position \in Int
      /\ \A k \in N!Requests : nOrder[k] \in NadoSent /\ intents[k] \in NadoIntents
  BY StandsWhole
<1>2. N!Requests' = N!Requests BY <1>1 DEF N!Requests
<1>3. N!Trades' = N!Trades /\ \A k : N!OfKind(k)' = N!OfKind(k) BY <1>2 DEF N!Trades, N!OfKind
<1>4. N!Position' = N!Position BY <1>2, NadoBookStands DEF NadoInv
<1>5. NadoOrdered' BY <1>1, <1>2 DEF NadoInv, NadoOrdered, OrderedAt
<1>6. InTurn' BY <1>1, <1>2, <1>3 DEF NadoInv, InTurn, N!Trades, N!OfKind
<1>7. NadoPositionFollows'
    <2>1. (intents # << >> => 1 \in N!Requests) /\ (intents' # << >> => intents # << >>) /\ (intents' = << >> => intents = << >>)
      BY <1>1, <1>2 DEF NadoInv, RunnerTyped
    <2>2. \A i \in N!OfKind("CLOSE") : i \in N!Requests BY DEF N!OfKind
    <2>. QED BY <1>3, <1>4, <2>1, <2>2 DEF NadoInv, NadoPositionFollows
<1>8. TradesOver => TradesOver' BY <1>3 DEF TradesOver, N!Trades, N!OfKind
<1>. QED BY <1>2, <1>3, <1>4, <1>5, <1>6, <1>7, <1>8

\* One intent gets another state.
LEMMA StateMoves ==
    ASSUME NadoInv, NEW s \in {"PREPARED", "REJECTED", "AMBIGUOUS", "DISPATCHED", "RESTING", "PARTIAL", "RECONCILED"},
           cur \in N!Requests, intents' = [intents EXCEPT ![cur].state = s]
    PROVE  /\ intents' \in Seq(NadoIntents) /\ Len(intents') = Len(intents)
           /\ \A j \in N!Requests :
               /\ intents'[j].kind = intents[j].kind /\ intents'[j].amount = intents[j].amount
               /\ intents'[j].start = intents[j].start /\ intents'[j].fills = intents[j].fills
               /\ intents'[j].state = IF j = cur THEN s ELSE intents[j].state
<1>. DEFINE r == [intents[cur] EXCEPT !.state = s]
<1>1. /\ DOMAIN intents = N!Requests /\ \A i \in N!Requests : intents[i] \in NadoIntents
  BY StandsWhole DEF N!Requests
<1>2. intents' = [intents EXCEPT ![cur] = r] /\ r \in NadoIntents BY <1>1 DEF NadoIntents
<1>3. r.kind = intents[cur].kind /\ r.amount = intents[cur].amount /\ r.start = intents[cur].start
      /\ r.fills = intents[cur].fills /\ r.state = s
  BY <1>1 DEF NadoIntents
<1>. HIDE DEF r
<1>4. intents' \in Seq(NadoIntents) /\ Len(intents') = Len(intents) /\ intents'[cur] = r
      /\ \A j \in N!Requests : j # cur => intents'[j] = intents[j]
    <2>1. intents \in Seq(NadoIntents) BY DEF NadoInv, RunnerTyped
    <2>2. cur \in DOMAIN intents BY <1>1
    <2>. QED BY <1>1, <1>2, <2>1, <2>2, SequenceExcept
<1>. QED BY <1>3, <1>4

LEMMA MarkDispatchedKeeps == ASSUME NadoInv, N!MarkDispatched PROVE NadoInv'
<1>1. /\ cur = Len(intents) /\ cur \in N!Requests /\ nOrder[cur].at # "UNSENT" /\ nPc' = "wait" /\ task' = "JUDGE"
      /\ UNCHANGED <<nOrder, late, status, cur, nSeen, terminal, nOutcome>> /\ status # "COMPLETE"
      /\ intents' = [intents EXCEPT ![cur].state = "DISPATCHED"]
  BY StandsWhole DEF NadoInv, NadoSteps, N!MarkDispatched, N!Goto, N!venue, Completed
<1>2. /\ N!Requests = 1..Len(intents) /\ DOMAIN nOrder = N!Requests /\ Len(intents) \in Nat
      /\ \A i \in N!Requests : nOrder[i] \in NadoSent /\ intents[i] \in NadoIntents
  BY StandsWhole
<1>3. /\ intents' \in Seq(NadoIntents) /\ Len(intents') = Len(intents)
      /\ \A j \in N!Requests :
          /\ intents'[j].kind = intents[j].kind /\ intents'[j].amount = intents[j].amount
          /\ intents'[j].start = intents[j].start /\ intents'[j].fills = intents[j].fills
          /\ intents'[j].state = IF j = cur THEN "DISPATCHED" ELSE intents[j].state
  BY <1>1, StateMoves
<1>4. \A j \in N!Requests : /\ intents[j].fills <= nOrder[j].filled
                            /\ intents[j].state = "RECONCILED" => nOrder[j].at = "GONE" /\ intents[j].fills = nOrder[j].filled
  BY DEF NadoInv, NadoOrdered, OrderedAt, InTurn
<1>5. NadoOrdered' /\ InTurn' /\ NadoPositionFollows' /\ N!Requests' = N!Requests /\ N!OfKind("CLOSE")' = N!OfKind("CLOSE")
  BY <1>1, <1>3, <1>4, StoreMoves
<1>6. RunnerTyped' BY <1>1, <1>3, <1>5 DEF NadoInv, RunnerTyped
<1>7. Ended' BY <1>1, <1>5 DEF NadoInv, Ended
<1>8. intents[cur].kind = "CANCEL_ALL" => N!OfKind("CLOSE") = {} BY DEF NadoInv, NadoSteps, N!MarkDispatched
<1>9. NadoSteps' BY <1>1, <1>2, <1>3, <1>5, <1>8 DEF NadoSteps, About, NadoReading, Judging
<1>10. SeesJudging' /\ SeesJudged' /\ SeesExposed' /\ SeesFinal' /\ Completed'
  BY <1>1 DEF SeesJudging, SeesJudged, SeesExposed, SeesFinal, Completed, NadoReading
<1>. QED BY <1>5, <1>6, <1>7, <1>9, <1>10 DEF NadoInv

LEMMA SendFailsKeeps == ASSUME NadoInv, N!SendFails PROVE NadoInv'
<1>1. /\ cur = Len(intents) /\ cur \in N!Requests /\ nOrder[cur].at = "UNSENT" /\ nPc' = "failed" /\ status' = "HALTED"
      /\ UNCHANGED <<late, cur, task, nSeen, terminal>>
  BY StandsWhole DEF NadoInv, NadoSteps, N!SendFails, N!Goto
<1>2. /\ N!Requests = 1..Len(intents) /\ DOMAIN nOrder = N!Requests /\ Len(intents) \in Nat
      /\ \A i \in N!Requests : nOrder[i] \in NadoSent /\ intents[i] \in NadoIntents
  BY StandsWhole
<1>3. PICK s \in {"REJECTED", "AMBIGUOUS"} :
          /\ nOrder' = [nOrder EXCEPT ![cur].at = IF s = "REJECTED" THEN "GONE" ELSE "FLYING"]
          /\ intents' = [intents EXCEPT ![cur].state = s]
  BY DEF N!SendFails
<1>. s \in {"PREPARED", "REJECTED", "AMBIGUOUS", "DISPATCHED", "RESTING", "PARTIAL", "RECONCILED"} /\ s # "RECONCILED"
    OBVIOUS
<1>. DEFINE f == [nOrder[cur] EXCEPT !.at = IF s = "REJECTED" THEN "GONE" ELSE "FLYING"]
<1>4. nOrder' = [nOrder EXCEPT ![cur] = f] /\ f \in NadoSent BY <1>1, <1>2, <1>3 DEF NadoSent
<1>5. f.filled = nOrder[cur].filled /\ f.left = nOrder[cur].left /\ f.at \in {"GONE", "FLYING"}
  BY <1>1, <1>2 DEF NadoSent
<1>. HIDE DEF f
<1>6. nOrder' \in Seq(NadoSent) /\ Len(nOrder') = Len(nOrder) /\ nOrder'[cur] = f
      /\ \A j \in N!Requests : j # cur => nOrder'[j] = nOrder[j]
  BY <1>1, <1>2, <1>4, SequenceExcept DEF NadoInv, RunnerTyped
<1>7. /\ intents' \in Seq(NadoIntents) /\ Len(intents') = Len(intents)
      /\ \A j \in N!Requests :
          /\ intents'[j].kind = intents[j].kind /\ intents'[j].amount = intents[j].amount
          /\ intents'[j].start = intents[j].start /\ intents'[j].fills = intents[j].fills
          /\ intents'[j].state = IF j = cur THEN s ELSE intents[j].state
  BY <1>1, <1>3, StateMoves
<1>8. RunnerTyped' BY <1>1, <1>2, <1>6, <1>7 DEF NadoInv, RunnerTyped, N!Requests
<1>9. \A j \in N!Requests : /\ intents[j].fills <= nOrder[j].filled /\ (j \in late => nOrder[j].at \in {"RESTING", "GONE"})
                            /\ intents[j].state = "RECONCILED" => nOrder[j].at = "GONE" /\ intents[j].fills = nOrder[j].filled
  BY DEF NadoInv, NadoOrdered, OrderedAt, InTurn
<1>10. NadoOrdered' /\ InTurn' /\ NadoPositionFollows' /\ N!Requests' = N!Requests
  BY <1>1, <1>5, <1>6, <1>7, <1>8, <1>9, BookMoves
<1>11. Ended' BY <1>1, <1>6, <1>10 DEF NadoInv, Ended
<1>12. NadoSteps' BY <1>1 DEF NadoSteps, About, NadoReading, Judging
<1>13. SeesJudging' /\ SeesJudged' /\ SeesExposed' /\ SeesFinal' /\ Completed'
  BY <1>1 DEF SeesJudging, SeesJudged, SeesExposed, SeesFinal, Completed, NadoReading
<1>. QED BY <1>8, <1>10, <1>11, <1>12, <1>13 DEF NadoInv

LEMMA RecordFillsKeeps == ASSUME NadoInv, N!RecordFills PROVE NadoInv'
<1>1. /\ nPc = "record" /\ nPc' = "judge" /\ UNCHANGED <<nOrder, late, status, cur, task, nSeen, terminal, nOutcome>>
      /\ intents' = [i \in N!Requests |-> [intents[i] EXCEPT !.fills =
                         IF nSeen.fills[i] > intents[i].fills THEN nSeen.fills[i] ELSE intents[i].fills]]
  BY DEF N!RecordFills, N!Goto, N!venue
<1>2. /\ N!Requests = 1..Len(intents) /\ DOMAIN nOrder = N!Requests /\ Len(intents) \in Nat
      /\ \A i \in N!Requests : nOrder[i] \in NadoSent /\ intents[i] \in NadoIntents
  BY StandsWhole
<1>3. \A i \in N!Requests : nSeen.fills[i] \in Nat /\ nSeen.fills[i] <= nOrder[i].filled
  BY <1>1 DEF NadoInv, NadoSteps
<1>4. \A i \in N!Requests :
          /\ intents'[i].kind = intents[i].kind /\ intents'[i].amount = intents[i].amount
          /\ intents'[i].start = intents[i].start /\ intents'[i].state = intents[i].state
          /\ intents'[i].fills = (IF nSeen.fills[i] > intents[i].fills THEN nSeen.fills[i] ELSE intents[i].fills)
          /\ intents'[i] \in NadoIntents
    <2>1. ASSUME NEW e \in NadoIntents, NEW f \in Nat, NEW c, c = [e EXCEPT !.fills = f]
          PROVE  c \in NadoIntents /\ c.kind = e.kind /\ c.amount = e.amount /\ c.start = e.start
                 /\ c.state = e.state /\ c.fills = f
      BY <2>1 DEF NadoIntents
    <2>2. ASSUME NEW i \in N!Requests
          PROVE  /\ intents'[i].kind = intents[i].kind /\ intents'[i].amount = intents[i].amount
                 /\ intents'[i].start = intents[i].start /\ intents'[i].state = intents[i].state
                 /\ intents'[i].fills = (IF nSeen.fills[i] > intents[i].fills THEN nSeen.fills[i]
                                         ELSE intents[i].fills)
                 /\ intents'[i] \in NadoIntents
        <3>. DEFINE f == IF nSeen.fills[i] > intents[i].fills THEN nSeen.fills[i] ELSE intents[i].fills
        <3>1. intents[i] \in NadoIntents /\ nSeen.fills[i] \in Nat BY <1>2, <1>3
        <3>2. f \in Nat BY <3>1 DEF NadoIntents
        <3>3. intents'[i] = [intents[i] EXCEPT !.fills = f] BY <1>1
        <3>. HIDE DEF f
        <3>4. /\ intents'[i].kind = intents[i].kind /\ intents'[i].amount = intents[i].amount
              /\ intents'[i].start = intents[i].start /\ intents'[i].state = intents[i].state
              /\ intents'[i].fills = f /\ intents'[i] \in NadoIntents
          BY <2>1, <3>1, <3>2, <3>3
        <3>. QED BY <3>4 DEF f
    <2>. QED BY <2>2
<1>5. intents' \in Seq(NadoIntents) /\ Len(intents') = Len(intents) BY <1>1, <1>2, <1>4
<1>6. \A j \in N!Requests : /\ intents[j].fills <= nOrder[j].filled /\ intents[j].fills \in Nat /\ nOrder[j].filled \in Nat
                            /\ intents[j].state = "RECONCILED" => nOrder[j].at = "GONE" /\ intents[j].fills = nOrder[j].filled
    <2>1. \A j \in N!Requests : intents[j].fills \in Nat /\ nOrder[j].filled \in Nat
      BY <1>2 DEF NadoIntents, NadoSent
    <2>2. \A j \in N!Requests : intents[j].fills <= nOrder[j].filled BY DEF NadoInv, NadoOrdered, OrderedAt
    <2>3. \A j \in N!Requests : intents[j].state = "RECONCILED" =>
            nOrder[j].at = "GONE" /\ intents[j].fills = nOrder[j].filled
      BY DEF NadoInv, InTurn
    <2>. QED BY <2>1, <2>2, <2>3
<1>7. \A j \in N!Requests : intents'[j].fills <= nOrder[j].filled /\ nSeen.fills[j] <= intents'[j].fills
          /\ (intents[j].state = "RECONCILED" => intents'[j].fills = nOrder[j].filled)
  BY <1>3, <1>4, <1>6
<1>8. /\ NadoOrdered' /\ InTurn' /\ NadoPositionFollows' /\ N!Position' = N!Position /\ N!Requests' = N!Requests
      /\ N!OfKind("CLOSE")' = N!OfKind("CLOSE")
  BY <1>1, <1>4, <1>5, <1>6, <1>7, StoreMoves
<1>9. RunnerTyped' BY <1>1, <1>5, <1>8 DEF NadoInv, RunnerTyped, Judging
<1>10. Ended' BY <1>1, <1>8 DEF NadoInv, Ended
<1>11. About /\ About' BY <1>1 DEF About, Judging
<1>12. Closing' => Closing BY <1>1, <1>4, <1>8 DEF Closing
<1>13. NadoSteps'
    <2>1. /\ cur \in N!Requests /\ nOrder[cur].at # "UNSENT" /\ cur \in late /\ task = "JUDGE"
          /\ \A j \in N!Requests : j > cur => intents[j].kind = "CANCEL_ALL"
          /\ intents[cur].kind = "CANCEL_ALL" => N!OfKind("CLOSE") = {}
          /\ nSeen.fills \in [N!Requests -> Nat]
      BY <1>1, <1>11 DEF NadoInv, NadoSteps, Judging
    <2>. QED BY <1>1, <1>3, <1>4, <1>7, <1>8, <2>1 DEF NadoSteps, NadoReading
<1>14. SeesJudging' BY <1>1, <1>8, <1>11, <1>12 DEF NadoInv, SeesJudging
<1>15. SeesJudged' /\ SeesExposed' /\ SeesFinal' /\ Completed'
  BY <1>1 DEF SeesJudged, SeesExposed, SeesFinal, Completed, NadoReading, NadoInv
<1>. QED BY <1>8, <1>9, <1>10, <1>13, <1>14, <1>15 DEF NadoInv

\* What a judgement may say: reconciled only when the order is over and its
\* fills are on record, filled or cancelled only when the position seen is so.
Right(v) ==
    /\ v.state \in {"PREPARED", "REJECTED", "AMBIGUOUS", "DISPATCHED", "RESTING", "PARTIAL", "RECONCILED"}
    /\ v.state = "RECONCILED" => nOrder[cur].at = "GONE" /\ intents[cur].fills = nOrder[cur].filled
    /\ v.outcome \in {"FILLED", "CANCELLED"} /\ intents[cur].kind # "CANCEL_ALL" =>
           nOrder[cur].at = "GONE" /\ nSeen.position = N!Position

\* What the program concludes of an order is what became of it.
LEMMA JudgedRight ==
    ASSUME NadoInv, nPc = "judge"
    PROVE  /\ Right(N!Contradictory)
           /\ intents[cur].kind = "CANCEL_ALL" => Right(N!OfCancel)
           /\ intents[cur].kind = "ENTRY" => Right(N!OfEntry)
           /\ intents[cur].kind = "CLOSE" => Right(N!OfClose)
<1>1. /\ N!Requests = 1..Len(intents) /\ Len(intents) \in Nat
      /\ \A i \in N!Requests : nOrder[i] \in NadoSent /\ intents[i] \in NadoIntents
  BY StandsWhole
<1>2. About BY DEF About, Judging
<1>3. /\ cur \in N!Requests /\ cur \in late /\ \A j \in N!Requests : j > cur => intents[j].kind = "CANCEL_ALL"
      /\ intents[cur].kind = "CANCEL_ALL" => N!OfKind("CLOSE") = {}
      /\ nSeen.fills[cur] \in Nat /\ nSeen.fills[cur] <= nOrder[cur].filled /\ nSeen.fills[cur] <= intents[cur].fills
  BY <1>2 DEF NadoInv, NadoSteps
<1>4. /\ OrderedAt(cur) /\ nOrder[cur] \in NadoSent /\ intents[cur] \in NadoIntents
      /\ intents[cur].state = "RECONCILED" => nOrder[cur].at = "GONE" /\ intents[cur].fills = nOrder[cur].filled
  BY <1>1, <1>3 DEF NadoInv, NadoOrdered, InTurn
<1>5. nOrder[cur].filled \in Nat /\ intents[cur].fills \in Nat /\ intents[cur].fills <= nOrder[cur].filled
  BY <1>4 DEF NadoSent, NadoIntents, OrderedAt
<1>6. Right(N!Contradictory) BY <1>4 DEF Right, N!Contradictory, N!Verdict, NadoIntents
<1>7. Right(N!Ambiguous) BY DEF Right, N!Ambiguous, N!Verdict
<1>8. cur # 1 => nOrder[cur].at = "GONE" BY <1>3, <1>4 DEF OrderedAt
<1>9. ASSUME intents[cur].kind = "CANCEL_ALL" PROVE Right(N!OfCancel)
  BY <1>4, <1>5, <1>8, <1>9, <1>7 DEF OrderedAt, Right, N!Verdict, N!OfCancel
<1>10. ASSUME intents[cur].kind = "ENTRY" PROVE Right(N!OfEntry)
    <2>. DEFINE f == nSeen.fills[1]
               ended == 1 \in terminal
    <2>1. /\ cur = 1 /\ nOrder[1].filled + nOrder[1].left = Amount /\ nOrder[1].left \in Nat /\ intents[1].amount = Amount
          /\ nOrder[1].at \in {"RESTING", "GONE"} /\ (nOrder[1].at = "RESTING" => nOrder[1].left # 0)
      BY <1>3, <1>4, <1>10 DEF OrderedAt
    <2>2. N!OfKind("CLOSE") = {} /\ intents # << >> BY <1>1, <1>3, <1>10, <2>1 DEF N!OfKind
    <2>3. N!Position = nOrder[1].filled BY <2>2 DEF NadoInv, NadoPositionFollows
    <2>4. f \in Nat /\ f <= intents[1].fills /\ intents[1].fills <= nOrder[1].filled /\ nSeen.open \in Nat
          /\ nSeen.position \in Int /\ Amount \in Nat \ {0}
      BY <1>3, <1>5, <2>1, AmountAssumption DEF NadoInv, RunnerTyped
    <2>5. ended => nOrder[1].at = "GONE" /\ nSeen.position = nOrder[1].filled
      BY <1>2, <1>3, <1>10, <2>3 DEF NadoInv, Ended, SeesJudging, Closing
    <2>6. ASSUME ~(nSeen.open > 0 /\ (ended \/ f + nSeen.open # intents[1].amount)),
                 ~((f > 0 \/ (nSeen.open = 0 /\ ended)) /\ nSeen.position # f)
          PROVE  /\ f = intents[1].amount \/ ended => nOrder[1].at = "GONE" /\ intents[1].fills = nOrder[1].filled
                                                      /\ nSeen.position = N!Position
        <3>1. CASE ended BY <2>4, <2>6, <3>1, <1>5, <2>1, <2>3, <2>5
        <3>2. CASE ~ended /\ f = intents[1].amount BY <1>5, <2>1, <2>4, <3>2, <2>3, <2>6
        <3>. QED BY <3>1, <3>2
    <2>. HIDE DEF f, ended
    <2>7. N!OfEntry =
              IF \/ nSeen.open > 0 /\ (ended \/ f + nSeen.open # intents[1].amount)
                 \/ (f > 0 \/ (nSeen.open = 0 /\ ended)) /\ nSeen.position # f
                                               THEN N!Contradictory
              ELSE IF f = intents[1].amount    THEN N!Verdict("FILLED", "RECONCILED", FALSE)
              ELSE IF ended                    THEN N!Verdict("CANCELLED", "RECONCILED", FALSE)
              ELSE IF f > 0                    THEN N!Verdict("PARTIAL", "PARTIAL", nSeen.open = 0)
              ELSE IF nSeen.open > 0            THEN N!Verdict("RESTING", "RESTING", FALSE)
              ELSE N!Ambiguous
      BY DEF N!OfEntry, f, ended
    <2>8. /\ Right(N!Verdict("PARTIAL", "PARTIAL", nSeen.open = 0))
          /\ Right(N!Verdict("RESTING", "RESTING", FALSE))
      BY DEF Right, N!Verdict
    <2>9. ASSUME nOrder[1].at = "GONE", intents[1].fills = nOrder[1].filled, nSeen.position = N!Position
          PROVE  Right(N!Verdict("FILLED", "RECONCILED", FALSE)) /\ Right(N!Verdict("CANCELLED", "RECONCILED", FALSE))
      BY <2>1, <2>9 DEF Right, N!Verdict
    <2>. QED BY <1>6, <1>7, <2>6, <2>7, <2>8, <2>9
<1>11. ASSUME intents[cur].kind = "CLOSE" PROVE Right(N!OfClose)
    <2>. DEFINE f == nSeen.fills[cur]
    <2>1. nOrder[cur].at = "GONE" BY <1>4, <1>8, <1>11 DEF OrderedAt
    <2>2. N!Position = intents[cur].start - nOrder[cur].filled
      BY <1>1, <1>3, <1>11 DEF N!OfKind, NadoInv, NadoPositionFollows
    <2>3. nSeen.position = N!Position BY <1>2, <1>3, <1>11 DEF NadoInv, SeesJudging, Closing
    <2>4. intents[cur].start \in Int BY <1>4 DEF NadoIntents
    <2>5. nSeen.position = intents[cur].start - f => intents[cur].fills = nOrder[cur].filled
      BY <1>3, <1>5, <2>2, <2>3, <2>4
    <2>6. N!OfClose \in {N!Contradictory} \cup
              IF nSeen.position = intents[cur].start - f
              THEN {N!Verdict("FILLED", "RECONCILED", FALSE), N!Verdict("PARTIAL", "RECONCILED", TRUE),
                    N!Verdict("CANCELLED", "RECONCILED",
                        Len(SelectSeq(intents, LAMBDA r : r.kind = "CLOSE")) >= MAX_CLOSE_ATTEMPTS)}
              ELSE {}
      BY DEF N!OfClose
    <2>. QED BY <1>6, <2>1, <2>3, <2>5, <2>6 DEF Right, N!Verdict
<1>. QED BY <1>6, <1>9, <1>10, <1>11

LEMMA JudgeKeeps == ASSUME NadoInv, N!Judge PROVE NadoInv'
<1>. DEFINE v == IF ~N!OrderEvidenceFits THEN N!Contradictory
                 ELSE CASE intents[cur].kind = "ENTRY" -> N!OfEntry
                        [] intents[cur].kind = "CLOSE" -> N!OfClose
                        [] OTHER                       -> N!OfCancel
<1>1. /\ nPc = "judge" /\ nPc' \in {"halt", "go"} /\ UNCHANGED <<nOrder, late, status, cur, task, nSeen, terminal>>
      /\ intents' = [intents EXCEPT ![cur].state = v.state] /\ nOutcome' = v.outcome
  BY DEF N!Judge, N!Goto, N!venue
<1>2. /\ N!Requests = 1..Len(intents) /\ DOMAIN nOrder = N!Requests /\ Len(intents) \in Nat
      /\ \A i \in N!Requests : nOrder[i] \in NadoSent /\ intents[i] \in NadoIntents
  BY StandsWhole
<1>3. About /\ About' BY <1>1 DEF About, Judging, NadoInv, NadoSteps
<1>4. /\ cur \in N!Requests /\ nOrder[cur].at # "UNSENT" /\ cur \in late /\ task = "JUDGE"
      /\ \A j \in N!Requests : j > cur => intents[j].kind = "CANCEL_ALL"
      /\ intents[cur].kind = "CANCEL_ALL" => N!OfKind("CLOSE") = {}
  BY <1>1, <1>3 DEF NadoInv, NadoSteps, Judging
<1>5. Right(v) BY <1>1, JudgedRight, <1>2, <1>4 DEF NadoIntents
<1>. HIDE DEF v
<1>6. v.state \in {"PREPARED", "REJECTED", "AMBIGUOUS", "DISPATCHED", "RESTING", "PARTIAL", "RECONCILED"}
  BY <1>5 DEF Right
<1>7. /\ intents' \in Seq(NadoIntents) /\ Len(intents') = Len(intents)
      /\ \A j \in N!Requests :
          /\ intents'[j].kind = intents[j].kind /\ intents'[j].amount = intents[j].amount
          /\ intents'[j].start = intents[j].start /\ intents'[j].fills = intents[j].fills
          /\ intents'[j].state = IF j = cur THEN v.state ELSE intents[j].state
  BY <1>1, <1>4, <1>6, StateMoves
<1>8. \A j \in N!Requests : /\ intents[j].fills <= nOrder[j].filled
                            /\ intents[j].state = "RECONCILED" => nOrder[j].at = "GONE" /\ intents[j].fills = nOrder[j].filled
  BY DEF NadoInv, NadoOrdered, OrderedAt, InTurn
<1>9. /\ NadoOrdered' /\ InTurn' /\ NadoPositionFollows' /\ N!Position' = N!Position /\ N!Requests' = N!Requests
      /\ N!OfKind("CLOSE")' = N!OfKind("CLOSE")
  BY <1>1, <1>5, <1>7, <1>8, StoreMoves DEF Right
<1>10. RunnerTyped' BY <1>1, <1>7, <1>9 DEF NadoInv, RunnerTyped, Judging
<1>11. Ended' BY <1>1, <1>9 DEF NadoInv, Ended
<1>12. NadoSteps' BY <1>1, <1>4, <1>7, <1>9 DEF NadoSteps, NadoReading
<1>13. SeesJudged' BY <1>1, <1>4, <1>5, <1>7, <1>9 DEF SeesJudged, Right
<1>14. SeesJudging' /\ SeesExposed' /\ SeesFinal' /\ Completed'
  BY <1>1 DEF SeesJudging, SeesExposed, SeesFinal, Completed, NadoReading, NadoInv
<1>. QED BY <1>9, <1>10, <1>11, <1>12, <1>13, <1>14 DEF NadoInv

\* The invariant holds from the start and is kept.
LEMMA NadoInit == N!Init => NadoInv
<1>. SUFFICES ASSUME N!Init PROVE NadoInv OBVIOUS
<1>1. N!Requests = {} /\ NadoBook = << >> /\ N!Position = 0
  BY TotalEmpty, NadoTotals DEF N!Init, N!Requests, NadoBook
<1>2. RunnerTyped BY <1>1 DEF N!Init, RunnerTyped, N!NotSeen
<1>3. NadoOrdered /\ InTurn /\ Ended /\ NadoPositionFollows
  BY <1>1 DEF N!Init, NadoOrdered, InTurn, N!Trades, N!OfKind, Ended, NadoPositionFollows
<1>4. NadoSteps /\ SeesJudging /\ SeesJudged /\ SeesExposed /\ SeesFinal /\ Completed
  BY DEF N!Init, NadoSteps, About, NadoReading, Judging, SeesJudging, SeesJudged, SeesExposed, SeesFinal,
    Completed
<1>. QED BY <1>2, <1>3, <1>4 DEF NadoInv

LEMMA NadoStutters == NadoInv /\ UNCHANGED N!vars => NadoInv'
<1>. SUFFICES ASSUME NadoInv, UNCHANGED N!vars PROVE NadoInv' OBVIOUS
<1>1. /\ NadoOrdered' /\ InTurn' /\ NadoPositionFollows' /\ N!Position' = N!Position
      /\ N!Requests' = N!Requests /\ TradesOver' = TradesOver /\ BookFlat' = BookFlat
      /\ N!OfKind("CLOSE")' = N!OfKind("CLOSE")
  BY NadoStanding DEF N!vars
<1>2. About' = About /\ Closing' = Closing BY <1>1 DEF About, Closing, N!vars
<1>3. RunnerTyped' /\ Ended' /\ NadoSteps' BY <1>1, <1>2 DEF N!vars, NadoInv, RunnerTyped, Ended, NadoSteps
<1>4. SeesJudging' /\ SeesJudged' /\ SeesExposed' /\ SeesFinal' /\ Completed'
  BY <1>1, <1>2 DEF N!vars, NadoInv, SeesJudging, SeesJudged, SeesExposed, SeesFinal, Completed
<1>. QED BY <1>1, <1>3, <1>4 DEF NadoInv

LEMMA NadoStep == NadoInv /\ [N!Next]_(N!vars) => NadoInv'
<1>. SUFFICES ASSUME NadoInv, [N!Next]_(N!vars) PROVE NadoInv' OBVIOUS
<1>1. CASE N!Venue BY <1>1, ArrivesKeeps, RestingFillsKeeps, WindowClosesKeeps DEF N!Venue
<1>2. CASE N!Runner
  BY <1>2, FailKeeps, BreaksKeeps, ReadOrdersKeeps, ReadPositionsKeeps, ReadFillsKeeps, PrepareEntryKeeps,
    PrepareCancelKeeps, PrepareCloseKeeps, RefusedKeeps, NothingLeftKeeps, SendAcceptedKeeps, SendFailsKeeps,
    MarkDispatchedKeeps, WaitKeeps, ObserveAgainKeeps, RecordFillsKeeps, JudgeKeeps, HaltKeeps, ContinueKeeps,
    CompleteKeeps DEF N!Runner
<1>. QED BY <1>1, <1>2, StartKeeps, CrashKeeps, NadoStutters DEF N!Next

LEMMA NadoInvariant == N!Spec => []NadoInv
BY NadoInit, NadoStep, PTL DEF N!Spec

LEMMA NadoTells == NadoInv => N!CompleteIsFlat /\ N!OneOrderAtATime
<1>1. NadoInv => N!CompleteIsFlat BY DEF NadoInv, Completed, BookFlat, N!CompleteIsFlat
<1>2. NadoInv => N!OneOrderAtATime
    <2>. SUFFICES ASSUME NadoInv, NEW i \in N!Trades, N!Live(i)
                  PROVE  /\ \A j \in N!Trades : N!Live(j) => i = j
                         /\ intents[i].kind = "CLOSE" => nOrder[i].left = N!Position
      BY DEF N!OneOrderAtATime
    <2>1. i \in N!Requests /\ \A j \in N!Trades : j <= i /\ j \in N!Requests BY TradingIsOpen DEF N!Trades, N!OfKind
    <2>2. \A j \in N!Trades : N!Live(j) => i <= j BY TradingIsOpen
    <2>3. \A j \in N!Trades : N!Live(j) => i = j BY <2>1, <2>2, StandsWhole
    <2>4. ASSUME intents[i].kind = "CLOSE" PROVE nOrder[i].left = N!Position
      BY <2>1, <2>4 DEF N!OfKind, N!Trades, NadoInv, NadoPositionFollows, N!Live
    <2>. QED BY <2>3, <2>4
<1>. QED BY <1>1, <1>2

\* A Nado lifecycle that says it is complete is flat with nothing left to fill, and
\* of the orders that trade one is live at most, for every amount and every run.
THEOREM NadoCorrect == N!Spec => [](N!CompleteIsFlat /\ N!OneOrderAtATime)
BY NadoInvariant, NadoTells, PTL

-----------------------------------------------------------------------------
(* The Lighter lifecycle.                                                  *)

Request == [kind : L!Kinds, nonce : Nat, at : {"FLYING", "RESTING", "GONE"}, filled : Int, target : Int]
ViewOf == [pos |-> view.pos, active |-> view.active, gone |-> view.gone, fill |-> view.fill,
           fills |-> view.fills]

LighterType ==
    /\ tx \in Seq(Request) /\ nonce \in Nat /\ using \in Nat
    /\ mine \in [L!Kinds -> Nat] /\ row = [k \in L!Kinds |-> row[k]] /\ view = ViewOf

Sending == {"prepare", "claim", "send"}
Market == {"OPEN", "CLOSE"}

\* Requests leave in the order of their nonces, none beyond the venue's.
LighterNonces ==
    /\ \A i \in L!Sent : tx[i].nonce <= nonce
    /\ \A i, j \in L!Sent : i < j => tx[i].nonce <= tx[j].nonce
    /\ step \in Sending => using <= nonce /\ \A i \in L!Sent : tx[i].nonce <= using
    /\ \A i \in L!Sent : /\ tx[i].at # "FLYING" => tx[i].nonce < nonce
                         /\ L!Resting(i) => tx[i].kind = "PLACE"

\* What a run has sent: its maker order is the last one there is, its close the
\* last request.
LighterMine ==
    /\ lPhase = "down" <=> step = "down"
    /\ step \in Sending \cup {"nonce"} => lPhase \in L!Kinds
    /\ \A k \in L!Kinds : mine[k] <= Len(tx)
    /\ mine["PLACE"] # 0 => \A i \in L!Sent : i > mine["PLACE"] => tx[i].kind # "PLACE"
    /\ lPhase \in {"preflight", "PLACE", "CANCEL", "OPEN", "funding"} => mine["CLOSE"] = 0
    /\ lPhase \in {"CLOSE", "first", "second"} /\ mine["CLOSE"] # 0 => mine["CLOSE"] = Len(tx)

\* Past the maker order of the run no request of an earlier one can act.
Arrived == mine["PLACE"] \in L!Sent /\ tx[mine["PLACE"]].nonce < nonce
Placed  == Arrived /\ \A i \in L!Sent : L!Resting(i) => i = mine["PLACE"]
Cleared == Arrived /\ \A i \in L!Sent : ~L!Resting(i)
Idle    == \A i \in L!Sent : ~L!Able(i)

\* What a snapshot shows as over is over; what it shows as the only order is.
LighterSeen ==
    /\ step \in {"active", "target"} => ~view.gone
    /\ step \in {"fills", "judge"} /\ view.gone => L!Asked # 0 /\ tx[L!Asked].at = "GONE"
    /\ lPhase = "PLACE" /\ row["PLACE"] # "NONE" /\ step \in {"target", "fills", "judge"}
         /\ view.active = {mine["PLACE"]} => Placed

LighterPhases ==
    /\ lPhase = "CANCEL" => Placed
    /\ lPhase \in {"OPEN", "funding", "CLOSE", "first", "second"} => Cleared
    /\ lPhase \in {"first", "second"} => Idle
    /\ lPhase = "second" /\ step \in {"active", "target", "fills", "judge"} => view.pos = L!Position

LighterEnds ==
    /\ result = "COMPLETE" => /\ Idle /\ L!Position = 0
                              /\ lPhase = "down" \/ (lPhase = "second" /\ step = "finish")
    /\ life = "COMPLETE" => Idle /\ L!Position = 0 /\ lPhase = "down"

\* Beside a market order that may still trade nothing rests.
LighterAlone ==
    \A i \in L!Sent : L!Able(i) /\ tx[i].kind \in Market => \A j \in L!Sent : ~L!Resting(j)

LighterInv ==
    /\ LighterType /\ LighterNonces /\ LighterMine /\ LighterSeen /\ LighterPhases /\ LighterEnds
    /\ LighterAlone

\* The invariant holds from the start.
LEMMA LighterInit == L!Init => LighterInv
<1>. SUFFICES ASSUME L!Init PROVE LighterInv OBVIOUS
<1>1. tx = << >> /\ L!Sent = {} BY DEF L!Init, L!Sent
<1>2. LighterType
    <2>1. tx \in Seq(Request) BY <1>1
    <2>2. view = ViewOf BY DEF L!Init, ViewOf, L!NoView
    <2>. QED BY <2>1, <2>2 DEF L!Init, LighterType
<1>3. LighterNonces /\ LighterAlone /\ LighterEnds
  BY <1>1 DEF L!Init, LighterNonces, LighterAlone, LighterEnds, Sending
<1>4. LighterMine /\ LighterSeen /\ LighterPhases
  BY <1>1 DEF L!Init, LighterMine, LighterSeen, LighterPhases, Sending, L!Kinds
<1>. QED BY <1>2, <1>3, <1>4 DEF LighterInv

LEMMA LighterSent ==
    ASSUME LighterType
    PROVE  L!Sent = 1..Len(tx) /\ Len(tx) \in Nat /\ \A i \in L!Sent : tx[i] \in Request
BY DEF LighterType, L!Sent

\* A step of the venue changes no request's kind or nonce, nothing that is
\* over, and what begins to rest was the maker order of the nonce it takes.
LighterVenueStep ==
    /\ tx' \in Seq(Request) /\ Len(tx') = Len(tx) /\ nonce' \in {nonce, nonce + 1}
    /\ \A i \in L!Sent : /\ tx'[i].kind = tx[i].kind /\ tx'[i].nonce = tx[i].nonce
                         /\ tx[i].at = "GONE" => tx'[i].at = "GONE"
                         /\ tx[i].at # "FLYING" => tx'[i].at # "FLYING"
                         /\ tx'[i].at # "FLYING" => tx[i].nonce < nonce'
                         /\ tx'[i].at = "RESTING" => tx[i].kind = "PLACE"
                         /\ tx'[i].at = "RESTING" /\ tx[i].at # "RESTING" =>
                                tx[i].nonce = nonce /\ nonce' = nonce + 1
    /\ ~Idle

\* What the venue does to a request.
LEMMA LighterBecomes ==
    ASSUME NEW q \in Request, NEW w \in {"RESTING", "GONE"}, NEW n \in Int
    PROVE  [q EXCEPT !.at = w, !.filled = q.filled + n] \in Request
<1>. DEFINE r == [q EXCEPT !.at = w]
<1>1. r \in Request BY DEF Request
<1>2. r.filled = q.filled /\ q.filled + n \in Int BY DEF Request
<1>3. [r EXCEPT !.filled = q.filled + n] \in Request BY <1>1, <1>2 DEF Request
<1>. QED BY <1>3

LEMMA LighterArrives ==
    ASSUME LighterInv, NEW i \in L!Sent, L!Arrives(i)
    PROVE  LighterVenueStep
<1>. USE LighterSent DEF LighterInv
<1>1. /\ tx[i].at = "FLYING" /\ tx[i].nonce = nonce /\ nonce' = nonce + 1 /\ nonce \in Nat
      /\ tx[i] \in Request /\ L!Sent = 1..Len(tx) /\ Len(tx) \in Nat
  BY DEF L!Arrives, LighterType
<1>2. ~Idle BY <1>1 DEF Idle, L!Able
<1>3. ASSUME NEW w \in {"RESTING", "GONE"}, NEW n \in Int, L!Becomes(i, w, n),
             w = "RESTING" => tx[i].kind = "PLACE"
      PROVE  LighterVenueStep
    <2>1. tx' = [tx EXCEPT ![i] = [tx[i] EXCEPT !.at = w, !.filled = tx[i].filled + n]]
      BY <1>1, <1>3 DEF L!Becomes, LighterType, Request
    <2>2. [tx[i] EXCEPT !.at = w, !.filled = tx[i].filled + n] \in Request BY <1>1, <1>3, LighterBecomes
    <2>3. tx' \in Seq(Request) /\ Len(tx') = Len(tx) BY <1>1, <2>1, <2>2 DEF LighterType
    <2>4. \A j \in L!Sent : tx'[j] = IF j = i THEN [tx[i] EXCEPT !.at = w, !.filled = tx[i].filled + n] ELSE tx[j]
      BY <1>1, <2>1 DEF LighterType
    <2>5. /\ tx'[i].kind = tx[i].kind /\ tx'[i].nonce = tx[i].nonce /\ tx'[i].at = w BY <1>1, <2>4 DEF Request
    <2>6. \A j \in L!Sent : tx[j].at # "FLYING" => tx[j].nonce < nonce /\ tx[j].nonce \in Nat
      BY DEF LighterNonces, Request
    <2>. QED BY <1>1, <1>2, <1>3, <2>3, <2>4, <2>5, <2>6 DEF LighterVenueStep, LighterNonces, L!Resting
<1>4. ASSUME tx' = [j \in L!Sent |-> IF j = i \/ (j = tx[i].target /\ L!Resting(j))
                                  THEN [tx[j] EXCEPT !.at = "GONE"] ELSE tx[j]]
      PROVE  LighterVenueStep
    <2>1. \A j \in L!Sent : /\ tx'[j] \in Request
                            /\ tx'[j].kind = tx[j].kind /\ tx'[j].nonce = tx[j].nonce
                            /\ tx'[j].at = tx[j].at \/ (tx'[j].at = "GONE" /\ (j = i \/ L!Resting(j)))
      BY <1>4 DEF Request
    <2>2. tx' \in Seq(Request) /\ Len(tx') = Len(tx) BY <1>1, <1>4, <2>1
    <2>3. \A j \in L!Sent : tx[j].at # "FLYING" => tx[j].nonce < nonce /\ tx[j].nonce \in Nat
      BY DEF LighterNonces, Request
    <2>. QED BY <1>1, <1>2, <2>1, <2>2, <2>3 DEF LighterVenueStep, LighterNonces, L!Resting
<1>5. CASE tx[i].kind = "PLACE" BY <1>3, <1>5 DEF L!Arrives
<1>6. CASE tx[i].kind = "CANCEL" BY <1>4, <1>6 DEF L!Arrives
<1>7. CASE tx[i].kind = "OPEN" BY <1>3, <1>7 DEF L!Arrives
<1>8. CASE tx[i].kind = "CLOSE" BY <1>3, <1>8 DEF L!Arrives
<1>. QED BY <1>1, <1>5, <1>6, <1>7, <1>8 DEF Request, L!Kinds

LEMMA LighterFills ==
    ASSUME LighterInv, NEW i \in L!Sent, L!MakerFills(i)
    PROVE  LighterVenueStep
<1>. USE LighterSent DEF LighterInv
<1>1. /\ tx[i].at = "RESTING" /\ nonce' = nonce /\ nonce \in Nat
      /\ tx[i] \in Request /\ L!Sent = 1..Len(tx) /\ Len(tx) \in Nat
  BY DEF L!MakerFills, LighterType, L!Resting
<1>2. ~Idle BY <1>1 DEF Idle, L!Able, L!Resting
<1>3. PICK n \in Int, w \in {"RESTING", "GONE"} : L!Becomes(i, w, n) BY DEF L!MakerFills
<1>4. tx' = [tx EXCEPT ![i] = [tx[i] EXCEPT !.at = w, !.filled = tx[i].filled + n]]
  BY <1>1, <1>3 DEF L!Becomes, LighterType, Request
<1>5. [tx[i] EXCEPT !.at = w, !.filled = tx[i].filled + n] \in Request BY <1>1, <1>3, LighterBecomes
<1>6. tx' \in Seq(Request) /\ Len(tx') = Len(tx) BY <1>1, <1>4, <1>5 DEF LighterType
<1>7. \A j \in L!Sent : tx'[j] = IF j = i THEN [tx[i] EXCEPT !.at = w, !.filled = tx[i].filled + n] ELSE tx[j]
  BY <1>1, <1>4 DEF LighterType
<1>8. /\ tx'[i].kind = tx[i].kind /\ tx'[i].nonce = tx[i].nonce /\ tx'[i].at = w BY <1>1, <1>7 DEF Request
<1>. QED BY <1>1, <1>2, <1>6, <1>7, <1>8 DEF LighterVenueStep, LighterNonces, L!Resting

LEMMA LighterVenue ==
    ASSUME LighterInv, LighterVenueStep, UNCHANGED <<L!store, L!runner>>
    PROVE  LighterInv'
<1>. USE LighterSent DEF LighterInv, L!store, L!runner
<1>1. /\ L!Sent = 1..Len(tx) /\ Len(tx) \in Nat /\ L!Sent' = L!Sent /\ nonce \in Nat /\ nonce' \in Nat
      /\ \A i \in L!Sent : tx[i] \in Request /\ tx'[i] \in Request
  BY DEF LighterVenueStep, LighterType, L!Sent
<1>2. \A i \in L!Sent : tx[i].nonce \in Nat /\ tx'[i].nonce = tx[i].nonce /\ tx'[i].kind = tx[i].kind
  BY <1>1 DEF LighterVenueStep, Request
<1>3. LighterType' BY <1>1 DEF LighterType, LighterVenueStep, ViewOf
<1>4. LighterNonces'
    <2>1. step \in Sending => using <= nonce' /\ \A i \in L!Sent : tx'[i].nonce <= using
        <3>1. using \in Nat /\ using' = using /\ step' = step BY DEF LighterType
        <3>. QED BY <1>1, <1>2, <3>1 DEF LighterNonces, LighterVenueStep
    <2>2. \A i \in L!Sent : /\ tx'[i].nonce <= nonce'
                            /\ tx'[i].at # "FLYING" => tx'[i].nonce < nonce'
                            /\ L!Resting(i)' => tx'[i].kind = "PLACE"
      BY <1>1, <1>2 DEF LighterNonces, LighterVenueStep, L!Resting
    <2>3. \A i, j \in L!Sent : i < j => tx'[i].nonce <= tx'[j].nonce BY <1>2 DEF LighterNonces
    <2>. QED BY <1>1, <2>1, <2>2, <2>3 DEF LighterNonces
<1>5. LighterMine' BY <1>1, <1>2 DEF LighterMine, LighterVenueStep
<1>6. Arrived => \A i \in L!Sent : L!Resting(i)' => L!Resting(i)
    <2>. SUFFICES ASSUME Arrived, NEW i \in L!Sent, L!Resting(i)' PROVE L!Resting(i) OBVIOUS
    <2>1. CASE tx[i].at # "RESTING"
        <3>1. tx[i].nonce = nonce /\ tx[i].kind = "PLACE" BY <1>1, <2>1 DEF LighterVenueStep, L!Resting
        <3>2. mine["PLACE"] \in L!Sent /\ tx[mine["PLACE"]].nonce < nonce BY DEF Arrived
        <3>3. i > mine["PLACE"] BY <1>1, <1>2, <3>1, <3>2 DEF LighterNonces
        <3>. QED BY <1>1, <3>1, <3>2, <3>3 DEF LighterMine
    <2>. QED BY <2>1 DEF L!Resting
<1>7. /\ Arrived => Arrived'
      /\ Placed => Placed'
      /\ Cleared => Cleared'
  BY <1>1, <1>2, <1>6 DEF Arrived, Placed, Cleared, LighterVenueStep
<1>8. LighterSeen' BY <1>1, <1>2, <1>7 DEF LighterSeen, LighterVenueStep, L!Asked, L!Kinds, LighterMine, LighterType
<1>9. LighterPhases' /\ LighterEnds' BY <1>7 DEF LighterPhases, LighterEnds, LighterVenueStep
<1>10. LighterAlone'
    <2>. SUFFICES ASSUME NEW i \in L!Sent, L!Able(i)', tx[i].kind \in Market,
                         NEW j \in L!Sent, L!Resting(j)'
                  PROVE  FALSE
      BY <1>1, <1>2 DEF LighterAlone
    <2>1. tx'[i].at = "FLYING" /\ tx'[i].nonce >= nonce' BY <1>1 DEF L!Able, L!Resting, LighterVenueStep, Market
    <2>2. nonce' = nonce /\ tx[i].at = "FLYING" /\ tx[i].nonce >= nonce
      BY <1>1, <1>2, <2>1 DEF LighterVenueStep, LighterNonces
    <2>3. L!Resting(j) BY <1>1, <2>2 DEF LighterVenueStep, L!Resting
    <2>. QED BY <2>2, <2>3 DEF LighterAlone, L!Able
<1>. QED BY <1>3, <1>4, <1>5, <1>8, <1>9, <1>10

\* What leaves the venue alone and no new request behind.
LEMMA LighterQuiet ==
    ASSUME LighterInv, UNCHANGED <<tx, nonce>>,
           LighterType', LighterMine', LighterSeen', LighterPhases', LighterEnds',
           step' \in Sending => \/ step \in Sending /\ using' = using
                                \/ using' = nonce
    PROVE  LighterInv'
BY LighterSent DEF LighterInv, LighterNonces, LighterType, L!Resting, L!Sent, Request, LighterAlone, L!Able

USE DEF L!Goto, L!Ends

LEMMA LighterNext ==
    /\ L!After("PLACE") = "CANCEL" /\ L!After("CANCEL") = "OPEN"
    /\ L!After("OPEN") = "funding" /\ L!After("CLOSE") = "first"
<1>1. Len(L!Phases) = 8 /\ DOMAIN L!Phases = 1..8 BY DEF L!Phases
<1>2. \A p \in {"PLACE", "CANCEL", "OPEN", "CLOSE"}, k \in 1..8 : L!Phases[k] = p =>
          k = (IF p = "PLACE" THEN 2 ELSE IF p = "CANCEL" THEN 3 ELSE IF p = "OPEN" THEN 4 ELSE 6)
  BY DEF L!Phases
<1>3. L!Phases[2] = "PLACE" /\ L!Phases[3] = "CANCEL" /\ L!Phases[4] = "OPEN" /\ L!Phases[5] = "funding"
      /\ L!Phases[6] = "CLOSE" /\ L!Phases[7] = "first"
  BY DEF L!Phases
<1>. QED BY <1>1, <1>2, <1>3 DEF L!After

\* What stands when no request and no nonce changes.
LEMMA LighterSame ==
    ASSUME UNCHANGED <<tx, nonce>>
    PROVE  /\ (Idle' <=> Idle) /\ L!Position' = L!Position
           /\ mine' = mine => (Arrived' <=> Arrived) /\ (Placed' <=> Placed) /\ (Cleared' <=> Cleared)
BY DEF Idle, L!Position, L!Able, L!Resting, L!Sent, Arrived, Placed, Cleared

\* The ends of a run, and its beginning.
LEMMA LighterStart == ASSUME LighterInv, L!Start PROVE LighterInv'
<1>. USE LighterSame DEF LighterInv, L!Start
<1>1. LighterType' BY DEF LighterType, ViewOf, L!NoView
<1>2. LighterMine' BY LighterSent DEF LighterMine, Sending, L!Kinds
<1>3. LighterSeen' /\ LighterPhases' BY DEF LighterSeen, LighterPhases
<1>4. LighterEnds' BY DEF LighterEnds
<1>. QED BY <1>1, <1>2, <1>3, <1>4, LighterQuiet DEF Sending

\* The steps of the program, each keeping the invariant.
LEMMA LighterStops ==
    ASSUME LighterInv, L!Finish \/ L!Crash \/ L!Breaks \/ L!MarkAmbiguous
    PROVE  LighterInv'
<1>. USE LighterSame DEF LighterInv, L!store
<1>0. /\ UNCHANGED <<tx, nonce, mine, using, view>>
      /\ step' \in {"down", "finish"} /\ (lPhase' = lPhase \/ lPhase' = "down")
      /\ (lPhase' = "down" <=> step' = "down")
      /\ row' = row \/ row' = [row EXCEPT ![lPhase] = "AMBIGUOUS"]
  BY DEF L!Finish, L!Crash, L!Breaks, L!MarkAmbiguous, LighterMine
<1>1. LighterType' BY <1>0 DEF LighterType, ViewOf
<1>2. LighterMine' BY <1>0 DEF LighterMine, Sending, L!Sent
<1>3. LighterSeen' /\ LighterPhases' BY <1>0 DEF LighterSeen, LighterPhases
<1>4. LighterEnds'
    <2>1. CASE L!Finish BY <2>1 DEF L!Finish, LighterEnds
    <2>2. CASE L!Crash BY <2>2 DEF L!Crash, LighterEnds
    <2>3. CASE L!Breaks BY <2>3 DEF L!Breaks, LighterEnds, LighterMine
    <2>4. CASE L!MarkAmbiguous BY <2>4 DEF L!MarkAmbiguous, LighterEnds, LighterMine
    <2>. QED BY <2>1, <2>2, <2>3, <2>4
<1>. QED BY <1>0, <1>1, <1>2, <1>3, <1>4, LighterQuiet DEF Sending

\* The four reads of a snapshot.
LEMMA LighterReads ==
    ASSUME LighterInv, L!ReadAccount \/ L!ReadActive \/ L!ReadTarget \/ L!ReadFills
    PROVE  LighterInv'
<1>. USE LighterSame, LighterSent DEF LighterInv, L!store
<1>0. /\ UNCHANGED <<tx, nonce, life, row, mine, using, result, lPhase>>
      /\ step \in {"account", "active", "target", "fills"}
      /\ step' \in {"active", "target", "fills", "judge"}
      /\ lPhase # "down" /\ view = ViewOf
  BY DEF L!ReadAccount, L!ReadActive, L!ReadTarget, L!ReadFills, LighterMine, LighterType
<1>1. CASE L!ReadAccount
    <2>1. step' = "active" /\ view' = [pos |-> L!Position, active |-> {}, gone |-> FALSE, fill |-> 0, fills |-> 0]
      BY <1>1 DEF L!ReadAccount, L!NoView
    <2>2. LighterType' BY <1>0, <2>1 DEF LighterType, ViewOf
    <2>3. LighterMine' /\ LighterSeen' BY <1>0, <2>1 DEF LighterMine, LighterSeen, Sending, L!Sent
    <2>4. LighterPhases' /\ LighterEnds' BY <1>0, <2>1 DEF LighterPhases, LighterEnds
    <2>. QED BY <1>0, <2>1, <2>2, <2>3, <2>4, LighterQuiet DEF Sending
<1>2. CASE L!ReadActive
    <2>1. step = "active" /\ step' = "target" /\ view' = [view EXCEPT !.active = {i \in L!Sent : L!Resting(i)}]
      BY <1>2 DEF L!ReadActive
    <2>2. /\ view'.pos = view.pos /\ view'.gone = view.gone /\ view'.active = {i \in L!Sent : L!Resting(i)}
          /\ LighterType'
      BY <1>0, <2>1 DEF LighterType, ViewOf
    <2>3. view'.active = {mine["PLACE"]} => Placed BY <2>2 DEF Placed, Arrived, LighterNonces, L!Resting
    <2>4. LighterMine' /\ LighterSeen' BY <1>0, <2>1, <2>2, <2>3 DEF LighterMine, LighterSeen, Sending, L!Sent
    <2>5. LighterPhases' /\ LighterEnds' BY <1>0, <2>1, <2>2 DEF LighterPhases, LighterEnds
    <2>. QED BY <1>0, <2>1, <2>2, <2>4, <2>5, LighterQuiet DEF Sending
<1>3. CASE L!ReadTarget
    <2>1. step = "target" /\ step' = "fills" /\ L!Asked' = L!Asked BY <1>0, <1>3 DEF L!ReadTarget, L!Asked
    <2>2. /\ view'.pos = view.pos /\ view'.active = view.active
          /\ view'.gone => L!Asked # 0 /\ tx[L!Asked].at = "GONE"
          /\ LighterType'
        <3>1. CASE L!Asked = 0 BY <1>3, <3>1, <1>0 DEF L!ReadTarget, LighterSeen, LighterType, ViewOf
        <3>2. CASE L!Asked # 0
            <4>1. PICK there \in BOOLEAN :
                      view' = [view EXCEPT !.gone = there /\ tx[L!Asked].at = "GONE" /\ tx[L!Asked].nonce < nonce,
                                           !.fill = tx[L!Asked].filled]
              BY <1>3, <3>2 DEF L!ReadTarget
            <4>. QED BY <1>0, <3>2, <4>1 DEF LighterType, ViewOf
        <3>. QED BY <3>1, <3>2
    <2>4. LighterMine' /\ LighterSeen' BY <1>0, <2>1, <2>2 DEF LighterMine, LighterSeen, Sending, L!Sent
    <2>5. LighterPhases' /\ LighterEnds' BY <1>0, <2>1, <2>2 DEF LighterPhases, LighterEnds
    <2>. QED BY <1>0, <2>1, <2>2, <2>4, <2>5, LighterQuiet DEF Sending
<1>4. CASE L!ReadFills
    <2>1. step = "fills" /\ step' = "judge" /\ L!Asked' = L!Asked BY <1>0, <1>4 DEF L!ReadFills, L!Asked
    <2>2. /\ view'.pos = view.pos /\ view'.active = view.active /\ view'.gone = view.gone
          /\ LighterType'
      BY <1>0, <1>4 DEF L!ReadFills, LighterType, ViewOf
    <2>4. LighterMine' /\ LighterSeen' BY <1>0, <2>1, <2>2 DEF LighterMine, LighterSeen, Sending, L!Sent
    <2>5. LighterPhases' /\ LighterEnds' BY <1>0, <2>1, <2>2 DEF LighterPhases, LighterEnds
    <2>. QED BY <1>0, <2>1, <2>2, <2>4, <2>5, LighterQuiet DEF Sending
<1>. QED BY <1>1, <1>2, <1>3, <1>4

\* A request up to its sending, and what is recorded of it.
LEMMA LighterAsks ==
    ASSUME LighterInv, L!ReadNonce \/ L!CreateIntent \/ L!ClaimDispatch \/ L!RecordDispatch
    PROVE  LighterInv'
<1>. USE LighterSame, LighterSent DEF LighterInv, L!store
<1>0. /\ UNCHANGED <<tx, nonce, life, mine, view, lPhase>>
      /\ lPhase # "down" /\ step \notin {"down", "finish"}
      /\ step' \in {"prepare", "claim", "send", "account", "finish"}
      /\ step' \in Sending => step' = "prepare" \/ step \in Sending
      /\ step' \in Sending => lPhase \in L!Kinds
      /\ row' = row \/ \E s : row' = [row EXCEPT ![lPhase] = s]
      /\ result' \in {result, "BLOCKED"}
      /\ using' = nonce \/ (using' = using /\ (step' \in Sending => step \in Sending))
  BY DEF L!ReadNonce, L!CreateIntent, L!ClaimDispatch, L!RecordDispatch, LighterMine, Sending
<1>1. LighterType' BY <1>0 DEF LighterType, ViewOf
<1>2. LighterMine' BY <1>0 DEF LighterMine, L!Sent
<1>3. LighterSeen' /\ LighterPhases' /\ LighterEnds' BY <1>0 DEF LighterSeen, LighterPhases, LighterEnds
<1>. QED BY <1>0, <1>1, <1>2, <1>3, LighterQuiet

LEMMA LighterSend == ASSUME LighterInv, L!Send PROVE LighterInv'
<1>. USE LighterSent DEF LighterInv, L!store
<1>0. /\ UNCHANGED <<nonce, life, row, using, view, result, lPhase>>
      /\ step = "send" /\ step' \in {"accepted", "rejected", "lost"}
      /\ lPhase \in L!Kinds /\ lPhase # "down"
  BY DEF L!Send, LighterMine, Sending, L!Kinds
<1>1. CASE UNCHANGED <<tx, mine>>
  BY <1>0, <1>1, LighterSame, LighterQuiet DEF LighterType, ViewOf, LighterMine, Sending, L!Sent, LighterSeen,
    LighterPhases, LighterEnds
<1>2. CASE L!Leaves
    <2>. DEFINE q == [kind |-> lPhase, nonce |-> using, at |-> "FLYING", filled |-> 0, target |-> mine["PLACE"]]
                n == Len(tx) + 1
    <2>1. q \in Request BY <1>0 DEF LighterType, Request, L!Kinds
    <2>2. tx' = Append(tx, q) /\ mine' = [mine EXCEPT ![lPhase] = n] BY <1>2 DEF L!Leaves
    <2>3. /\ tx' \in Seq(Request) /\ Len(tx') = n /\ L!Sent' = L!Sent \cup {n} /\ n \notin L!Sent /\ n \in Nat
          /\ tx'[n] = q /\ \A i \in L!Sent : tx'[i] = tx[i]
      BY <2>1, <2>2 DEF LighterType, L!Sent
    <2>4. /\ mine' \in [L!Kinds -> Nat] /\ mine'[lPhase] = n
          /\ \A k \in L!Kinds : k # lPhase => mine'[k] = mine[k]
      BY <1>0, <2>2, <2>3 DEF LighterType
    <2>5. \A i \in L!Sent : tx[i].nonce <= using /\ using <= nonce /\ i < n BY <1>0, <2>3 DEF LighterNonces, Sending
    <2>6. LighterType' BY <1>0, <2>3, <2>4 DEF LighterType, ViewOf
    <2>7. using \in Nat /\ nonce \in Nat /\ using <= nonce BY <1>0 DEF LighterType, LighterNonces, Sending
    <2>8. LighterNonces' BY <1>0, <2>3, <2>5, <2>7 DEF LighterNonces, L!Resting, Sending
    <2>9. LighterMine' BY <1>0, <2>3, <2>4 DEF LighterMine, Sending, L!Kinds
    <2>10. LighterSeen' BY <1>0 DEF LighterSeen
    <2>11. /\ Placed /\ lPhase # "PLACE" => Placed'
           /\ Cleared /\ lPhase # "PLACE" => Cleared'
      BY <1>0, <2>3, <2>4 DEF Placed, Cleared, Arrived, L!Resting, L!Kinds
    <2>12. LighterPhases' /\ LighterEnds' BY <1>0, <2>11 DEF LighterPhases, LighterEnds, L!Kinds
    <2>13. LighterAlone' BY <1>0, <2>3, <2>11 DEF LighterAlone, LighterPhases, L!Able, L!Resting, Market, Cleared
    <2>. QED BY <2>6, <2>8, <2>9, <2>10, <2>12, <2>13
<1>. QED BY <1>1, <1>2 DEF L!Send

\* What a snapshot decides.
LEMMA LighterJudges ==
    ASSUME LighterInv, L!PollAgain \/ L!Unresolved \/ L!Prewrite \/ L!Funding \/ L!Terminal
    PROVE  LighterInv'
<1>. USE LighterSame, LighterSent DEF LighterInv, L!store
<1>1. CASE L!PollAgain \/ L!Unresolved
  BY <1>1, LighterQuiet DEF L!PollAgain, L!Unresolved, LighterMine, LighterType, ViewOf, Sending, L!Sent,
    LighterSeen, LighterPhases, LighterEnds
<1>2. CASE L!Prewrite
  BY <1>2, LighterQuiet DEF L!Prewrite, LighterMine, LighterType, ViewOf, Sending, L!Sent, LighterSeen,
    LighterPhases, LighterEnds
<1>3. CASE L!Funding
  BY <1>3, LighterQuiet DEF L!Funding, LighterType, ViewOf, LighterMine, Sending, L!Sent, LighterSeen,
    LighterPhases, LighterEnds
<1>4. CASE L!Terminal
  BY <1>4, LighterQuiet DEF L!Terminal, L!Flat, LighterType, ViewOf, LighterMine, Sending, L!Sent, LighterSeen,
    LighterPhases, LighterEnds
<1>. QED BY <1>1, <1>2, <1>3, <1>4

LEMMA LighterReconciles == ASSUME LighterInv, L!Reconcile PROVE LighterInv'
<1>. USE LighterSame, LighterSent DEF LighterInv, L!store
<1>0. /\ UNCHANGED <<tx, nonce, life, mine, using, view, result>>
      /\ lPhase \in L!Kinds /\ step = "judge" /\ L!Proven /\ row[lPhase] = "DISPATCHED"
      /\ lPhase' = L!After(lPhase) /\ step' \in {"nonce", "account"}
      /\ step' = "nonce" => lPhase' = "CANCEL"
      /\ row' = [row EXCEPT ![lPhase] = "RECONCILED"]
  BY DEF L!Reconcile
<1>1. /\ lPhase = "PLACE" => lPhase' = "CANCEL"
      /\ lPhase = "CANCEL" => lPhase' = "OPEN"
      /\ lPhase = "OPEN" => lPhase' = "funding"
      /\ lPhase = "CLOSE" => lPhase' = "first"
  BY <1>0, LighterNext
<1>2. lPhase = "PLACE" => Placed BY <1>0 DEF L!Proven, L!Rests, L!Asked, LighterSeen, L!Kinds
<1>3. lPhase \in {"CANCEL", "OPEN", "CLOSE"} => L!Asked # 0 /\ tx[L!Asked].at = "GONE"
  BY <1>0 DEF L!Proven, L!CancelProven, L!Filled, LighterSeen
<1>4. lPhase = "CANCEL" => Cleared
    <2>. SUFFICES ASSUME lPhase = "CANCEL" PROVE Cleared OBVIOUS
    <2>1. tx[mine["PLACE"]].at = "GONE" /\ Placed BY <1>0, <1>3 DEF L!Asked, LighterPhases, L!Kinds
    <2>. QED BY <2>1 DEF Placed, Cleared, L!Resting
<1>5. lPhase = "CLOSE" => Idle
    <2>. SUFFICES ASSUME lPhase = "CLOSE" PROVE Idle OBVIOUS
    <2>1. mine["CLOSE"] = Len(tx) /\ Len(tx) # 0 /\ tx[Len(tx)].at = "GONE" /\ Cleared
      BY <1>0, <1>3 DEF L!Asked, LighterPhases, LighterMine, L!Kinds
    <2>2. Len(tx) \in L!Sent /\ tx[Len(tx)].nonce < nonce BY <2>1 DEF LighterNonces
    <2>3. \A i \in L!Sent : tx[i].nonce <= tx[Len(tx)].nonce /\ tx[i].nonce \in Nat
      BY <2>2 DEF LighterNonces, Request
    <2>. QED BY <2>1, <2>2, <2>3 DEF Idle, L!Able, Cleared, LighterType
<1>6. LighterType' BY <1>0 DEF LighterType, ViewOf
<1>7. LighterMine' /\ LighterSeen' BY <1>0, <1>1 DEF LighterMine, LighterSeen, Sending, L!Sent, L!Kinds
<1>8. LighterPhases' /\ LighterEnds' BY <1>0, <1>1, <1>2, <1>4, <1>5 DEF LighterPhases, LighterEnds, L!Kinds
<1>. QED BY <1>0, <1>6, <1>7, <1>8, LighterQuiet DEF Sending

LEMMA LighterStep == LighterInv /\ [L!Next]_(L!vars) => LighterInv'
<1>1. ASSUME LighterInv, [L!Next]_(L!vars) PROVE LighterInv'
    <2>1. ASSUME NEW i \in L!Sent, L!Arrives(i) \/ L!MakerFills(i) PROVE LighterInv'
      BY <2>1, <1>1, LighterArrives, LighterFills, LighterVenue DEF L!Arrives, L!MakerFills
    <2>2. CASE UNCHANGED L!vars
      BY <1>1, <2>2, LighterSame, LighterQuiet DEF L!vars, LighterInv, LighterType, ViewOf, LighterMine,
        LighterSeen, LighterPhases, LighterEnds, L!Asked, L!Sent
    <2>. QED
      BY <1>1, <2>1, <2>2, LighterStart, LighterStops, LighterReads, LighterAsks, LighterSend, LighterJudges,
        LighterReconciles DEF L!Next
<1>. QED BY <1>1

LEMMA LighterInvariant == L!Spec => []LighterInv
BY LighterStep, LighterInit, PTL DEF L!Spec

LEMMA LighterSettles == LighterInv => L!CompleteIsFlat /\ L!MarketStandsAlone
<1>. SUFFICES ASSUME LighterInv PROVE L!CompleteIsFlat /\ L!MarketStandsAlone OBVIOUS
<1>. USE DEF LighterInv
<1>1. L!CompleteIsFlat BY DEF L!CompleteIsFlat, LighterEnds, Idle
<1>2. ASSUME NEW i \in L!Sent, L!Able(i), tx[i].kind \in Market PROVE tx[i].nonce = nonce
  BY <1>2, LighterSent DEF L!Able, LighterNonces, Market, Request, LighterType
<1>3. ASSUME NEW i \in L!Sent, NEW j \in L!Sent, L!Able(i), L!Able(j), tx[i].kind \in Market
      PROVE  tx[j].nonce = nonce /\ ~L!Resting(j)
    <2>1. ~L!Resting(j) BY <1>3 DEF LighterAlone
    <2>2. tx[j].nonce >= nonce /\ tx[j].nonce <= nonce /\ tx[j].nonce \in Nat /\ nonce \in Nat
      BY <1>3, <2>1, LighterSent DEF L!Able, LighterNonces, Request, LighterType
    <2>. QED BY <2>1, <2>2
<1>. QED BY <1>1, <1>2, <1>3 DEF L!MarketStandsAlone, Market

\* A Lighter lifecycle that says it is complete is flat, and a market order is
\* never at the venue beside another order that can trade.
THEOREM LighterCorrect == L!Spec => [](L!CompleteIsFlat /\ L!MarketStandsAlone)
BY LighterInvariant, LighterSettles, PTL

-----------------------------------------------------------------------------
(* The RISEx level C lifecycle.                                            *)

LevelCIntents == [kind : {"OPEN", "CLOSE"}, size : Int, src : Int,
                  state : {"PREPARED", "DISPATCHING", "DISPATCHED", "VENUE_REJECTED", "AMBIGUOUS", "OPEN_KNOWN", "TERMINAL"},
                  known : BOOLEAN, after : Int]
LevelCSent == [at : {"flying", "open", "done", "dead"}, filled : Int]
Rows == [i : Nat, open : BOOLEAN, filled : Int]
Views == [on : BOOLEAN, pos : Int, open : SUBSET Nat, row : Rows, moved : BOOLEAN, verified : BOOLEAN]
Frames == [type : {"row"}, i : Nat, open : BOOLEAN, filled : Int] \cup [type : {"position"}, pos : Int]
Proofs == [terminal : BOOLEAN, filled : Int, pos : Int, known : BOOLEAN, cancel : BOOLEAN]

LevelTyped ==
    /\ rIntents \in Seq(LevelCIntents) /\ orders \in Seq(LevelCSent) /\ Len(cancels) = Len(rIntents)
    /\ cancels \in Seq({"none", "DISPATCHING", "AMBIGUOUS", "PENDING", "TERMINAL"})
    /\ Len(orders) = R!Cur \/ (R!Cur > 0 /\ Len(orders) = R!Cur - 1)
    /\ rOutcome \in {"ACTIVE", "FAILED", "NO_FILL", "SUCCESS"}
    /\ rSeen \in Views /\ (~rSeen.on => rSeen.row = R!NoRow)
    /\ evidence \in Proofs

\* One order opens, the others close what it opened, and each is sent when those before it are over.
Settled(i) == orders[i].at \in {"done", "dead"}
IntentFits(i) ==
    /\ rIntents[i].kind = IF i = 1 THEN "OPEN" ELSE "CLOSE"
    /\ rIntents[i].size = IF i = 1 THEN Lots ELSE rIntents[i].src
OrderFits(i) ==
    /\ orders[i].at # "done" => orders[i].filled = 0
    /\ i < R!Cur => Settled(i)
LevelCOrdered ==
    /\ \A i \in DOMAIN rIntents : IntentFits(i)
    /\ \A i \in DOMAIN orders : OrderFits(i)
    /\ cancelling \subseteq R!Open
    /\ R!Cur > 1 => orders[1].filled = Lots

\* The position is what the last order made of it.
Made == IF R!Cur \in DOMAIN orders THEN orders[R!Cur].filled ELSE 0
LevelCPositionFollows ==
    /\ R!Cur = 0 => R!Position = 0
    /\ R!Cur = 1 => R!Position = Made
    /\ R!Cur > 1 => R!Position = R!Now.src - Made

\* What the stream says of an order that is over is so.
RowTrue(i, open, n) == ~open => i \in DOMAIN orders /\ orders[i].at = "done" /\ orders[i].filled = n
TrueFrames == {f \in Frames : f.type = "row" => RowTrue(f.i, f.open, f.filled)}
StreamTrue ==
    /\ stream \in Seq(TrueFrames)
    /\ rSeen.row # R!NoRow => /\ rPc \in {"evidence", "position"} /\ rSeen.row.i = R!Cur
                              /\ RowTrue(rSeen.row.i, rSeen.row.open, rSeen.row.filled)
    /\ rPc = "position" => rSeen.row # R!NoRow

\* Nothing that was sent can trade any more.
LevelCOver == \A i \in DOMAIN orders : ~R!Able(i)
Never == LevelCOver /\ R!Position = 0
Last == R!Cur \in DOMAIN orders /\ orders[R!Cur].at = "done"
EvidenceTrue ==
    rPc \in {"judge", "cancelled"} /\ evidence.terminal =>
        IF evidence.known THEN Last /\ orders[R!Cur].filled = evidence.filled
        ELSE R!Cur = 1 /\ Never /\ evidence.filled = 0

LevelCSteps ==
    /\ rPc \in {"down", "begin", "open", "loop", "dispatch", "send", "answer", "evidence", "position", "expiry", "judge",
                "cancelled", "unfilled", "last", "final", "close", "cancel", "send_cancel", "cancel_answer"}
    /\ rPc \notin {"down", "begin", "open"} => R!Cur > 0
    /\ rPc = "open" => R!Cur = 0
    /\ R!Cur > 0 /\ (R!Now.state = "PREPARED" \/ rPc = "send") => Len(orders) = R!Cur - 1
    /\ rPc = "send" => R!Now.state # "PREPARED"
    /\ rPc = "expiry" => R!Cur = 1
    /\ rPc = "unfilled" => R!Cur = 1 /\ Never
    /\ rPc = "last" => rOutcome = "NO_FILL"
    /\ rPc \in {"close", "final"} => Last /\ R!Now.after = R!Position /\ orders[1].filled = Lots
    /\ rPc = "final" => R!Position = 0
    /\ rPc # "down" => rResult = "none"
    /\ rResult \in {"NO_FILL", "SUCCESS"} => rOutcome = rResult
    /\ rResult = "BLOCKED" => orders = << >>
    /\ rPc \in {"evidence", "position"} => rSeen.on
    /\ rOutcome # "ACTIVE" => rPc \in {"down", "begin", "last"}

Reported ==
    /\ rOutcome \in {"NO_FILL", "SUCCESS"} => Never
    /\ rOutcome = "NO_FILL" => R!Cur = 1
    /\ rOutcome = "SUCCESS" => R!Cur > 0 /\ 1 \in DOMAIN orders /\ orders[1].filled = Lots

LevelCInv == LevelTyped /\ LevelCOrdered /\ LevelCPositionFollows /\ StreamTrue /\ EvidenceTrue /\ LevelCSteps /\ Reported

LevelCBook == [i \in DOMAIN orders |-> R!Signed(i, orders[i].filled)]
LevelCBookFits ==
    /\ LevelCBook \in Seq(Int) /\ Len(LevelCBook) = Len(orders) /\ R!Position = Total(LevelCBook) /\ R!Position \in Int
    /\ DOMAIN rIntents = 1..R!Cur /\ R!Cur \in Nat /\ DOMAIN orders = 1..Len(orders) /\ Len(orders) \in Nat
    /\ \A i \in DOMAIN orders : orders[i] \in LevelCSent /\ i \in DOMAIN rIntents
    /\ \A i \in DOMAIN rIntents : rIntents[i] \in LevelCIntents

LEMMA LevelCTotals == R!Position = Total(LevelCBook) /\ R!Position' = Total(LevelCBook')
BY DEF R!Position, LevelCBook, R!Total, Total

LEMMA LevelCBookTyped == LevelTyped => LevelCBookFits
<1>. SUFFICES ASSUME LevelTyped PROVE LevelCBookFits OBVIOUS
<1>1. /\ DOMAIN rIntents = 1..R!Cur /\ R!Cur \in Nat /\ DOMAIN orders = 1..Len(orders) /\ Len(orders) \in Nat
      /\ \A i \in DOMAIN orders : orders[i] \in LevelCSent /\ i \in DOMAIN rIntents
      /\ \A i \in DOMAIN rIntents : rIntents[i] \in LevelCIntents
  BY DEF LevelTyped, R!Cur
<1>2. LevelCBook \in [1..Len(orders) -> Int] BY <1>1 DEF LevelCBook, R!Signed, LevelCSent
<1>3. LevelCBook \in Seq(Int) /\ Len(LevelCBook) = Len(orders) BY <1>1, <1>2
<1>. QED BY <1>1, <1>3, TotalType, LevelCTotals DEF LevelCBook, LevelCBookFits

\* A step that fills nothing leaves the position alone; a fill moves it by what
\* it fills, and a new order adds nothing to it.
LEMMA LevelCBookStands ==
    ASSUME DOMAIN orders' = DOMAIN orders,
           \A i \in DOMAIN orders : rIntents'[i].kind = rIntents[i].kind /\ orders'[i].filled = orders[i].filled
    PROVE  R!Position' = R!Position
BY LevelCTotals DEF LevelCBook, R!Signed

LEMMA BookExecutes ==
    ASSUME LevelTyped, NEW i \in DOMAIN orders, NEW n \in Int, rIntents' = rIntents, orders' \in Seq(LevelCSent),
           Len(orders') = Len(orders), orders[i].filled = 0, orders'[i].filled = n,
           \A j \in DOMAIN orders : j # i => orders'[j] = orders[j]
    PROVE  R!Position' = R!Position + R!Signed(i, n)
<1>1. /\ LevelCBook \in Seq(Int) /\ Len(LevelCBook) = Len(orders) /\ R!Position = Total(LevelCBook) /\ R!Position \in Int
      /\ DOMAIN orders = 1..Len(orders) /\ Len(orders) \in Nat /\ \A k \in DOMAIN orders : orders[k] \in LevelCSent
  BY LevelCBookTyped DEF LevelCBookFits
<1>2. DOMAIN orders' = DOMAIN orders /\ \A k \in DOMAIN orders : orders'[k] \in LevelCSent BY <1>1
<1>3. /\ LevelCBook' \in Seq(Int) /\ Len(LevelCBook') = Len(orders) /\ R!Position' = Total(LevelCBook')
  BY <1>1, <1>2, LevelCTotals DEF LevelCBook, R!Signed, LevelCSent
<1>4. \A k \in 1..Len(LevelCBook) : k # i => LevelCBook'[k] = LevelCBook[k] BY <1>1, <1>2 DEF LevelCBook, R!Signed
<1>5. LevelCBook'[i] - LevelCBook[i] = R!Signed(i, n) BY <1>1, <1>2 DEF LevelCBook, R!Signed, LevelCSent
<1>6. Total(LevelCBook') = Total(LevelCBook) + (LevelCBook'[i] - LevelCBook[i]) BY <1>1, <1>3, <1>4, TotalChange
<1>. QED BY <1>1, <1>3, <1>5, <1>6

LEMMA BookSends ==
    ASSUME LevelTyped, NEW o \in LevelCSent, o.filled = 0, orders' = Append(orders, o), rIntents' = rIntents
    PROVE  R!Position' = R!Position
<1>1. /\ LevelCBook \in Seq(Int) /\ Len(LevelCBook) = Len(orders) /\ R!Position = Total(LevelCBook) /\ R!Position \in Int
      /\ DOMAIN orders = 1..Len(orders) /\ Len(orders) \in Nat
  BY LevelCBookTyped DEF LevelCBookFits
<1>2. /\ DOMAIN orders' = 1..(Len(orders) + 1) /\ orders'[Len(orders) + 1] = o
      /\ \A i \in 1..Len(orders) : orders'[i] = orders[i]
  BY SequenceGrows DEF LevelTyped
<1>3. LevelCBook' = Append(LevelCBook, 0)
    <2>1. LevelCBook' = [i \in 1..(Len(LevelCBook) + 1) |-> IF i = Len(LevelCBook) + 1 THEN 0 ELSE LevelCBook[i]]
      BY <1>1, <1>2 DEF LevelCBook, R!Signed
    <2>. DEFINE a == Append(LevelCBook, 0)
    <2>2. a \in Seq(Int) /\ Len(a) = Len(LevelCBook) + 1 /\ \A i \in 1..(Len(LevelCBook) + 1) : a[i] = IF i = Len(LevelCBook) + 1 THEN 0 ELSE LevelCBook[i]
      BY <1>1
    <2>. HIDE DEF a
    <2>3. a = [i \in 1..(Len(LevelCBook) + 1) |-> a[i]] BY <1>1, <2>2
    <2>4. a = LevelCBook' BY <2>1, <2>2, <2>3
    <2>. QED BY <2>4 DEF a
<1>4. R!Position' = Total(LevelCBook') BY LevelCTotals DEF LevelCBook
<1>. QED BY <1>1, <1>3, <1>4, TotalAppend

\* What the invariant says of the types.
LEMMA LevelCWhole ==
    ASSUME LevelCInv
    PROVE  /\ DOMAIN rIntents = 1..R!Cur /\ R!Cur \in Nat /\ DOMAIN orders = 1..Len(orders) /\ Len(orders) \in Nat
           /\ R!Position \in Int
           /\ \A i \in DOMAIN orders : orders[i] \in LevelCSent /\ i \in 1..R!Cur
           /\ \A i \in 1..R!Cur : rIntents[i] \in LevelCIntents
           /\ Len(orders) = R!Cur \/ (R!Cur > 0 /\ Len(orders) = R!Cur - 1)
           /\ (rIntents = << >> <=> R!Cur = 0) /\ (orders = << >> <=> Len(orders) = 0)
           /\ (R!Cur > 0 => R!Now \in LevelCIntents)
BY LevelCBookTyped DEF LevelCInv, LevelTyped, R!Cur, LevelCBookFits, R!Now

LEMMA Blank ==
    /\ R!NoRow \in Rows /\ R!Unseen \in Views /\ R!Unseen.row = R!NoRow /\ << >> \in Seq(TrueFrames)
    /\ R!Nothing \in Proofs /\ ~R!Nothing.terminal
    /\ [R!Nothing EXCEPT !.cancel = TRUE] \in Proofs /\ [R!Nothing EXCEPT !.terminal = TRUE] \in Proofs
    /\ [R!Nothing EXCEPT !.terminal = TRUE].filled = 0 /\ ~[R!Nothing EXCEPT !.terminal = TRUE].known
    /\ ~[R!Nothing EXCEPT !.cancel = TRUE].terminal
<1>1. R!NoRow \in Rows BY DEF R!NoRow, Rows
<1>2. R!Unseen \in Views /\ R!Unseen.row = R!NoRow BY <1>1 DEF R!Unseen, Views
<1>3. << >> \in Seq(TrueFrames) OBVIOUS
<1>4. R!Nothing \in Proofs /\ ~R!Nothing.terminal /\ R!Nothing.filled = 0 /\ ~R!Nothing.known
  BY DEF R!Nothing, Proofs
<1>5. [R!Nothing EXCEPT !.cancel = TRUE] \in Proofs /\ ~[R!Nothing EXCEPT !.cancel = TRUE].terminal
  BY <1>4 DEF Proofs
<1>6. /\ [R!Nothing EXCEPT !.terminal = TRUE] \in Proofs
      /\ [R!Nothing EXCEPT !.terminal = TRUE].filled = 0 /\ ~[R!Nothing EXCEPT !.terminal = TRUE].known
  BY <1>4 DEF Proofs
<1>. QED BY <1>1, <1>2, <1>3, <1>4, <1>5, <1>6

\* After the last order is settled, none can trade.
LEMMA LastIsOver == ASSUME LevelCInv, Last PROVE LevelCOver
BY LevelCWhole DEF LevelCInv, LevelCOrdered, LevelCOver, R!Able, Last, OrderFits, Settled

\* What a new subscription starts from.
LEMMA SubscribedFits ==
    ASSUME LevelCInv
    PROVE  /\ R!Subscribed \in Views /\ R!Subscribed.row = rSeen.row
           /\ [R!Subscribed EXCEPT !.verified = TRUE] \in Views
           /\ [R!Subscribed EXCEPT !.verified = TRUE].row = rSeen.row
           /\ [R!Subscribed EXCEPT !.moved = ~rSeen.on] \in Views
           /\ [R!Subscribed EXCEPT !.moved = ~rSeen.on].row = rSeen.row
           /\ [R!Subscribed EXCEPT !.verified = TRUE].on /\ [R!Subscribed EXCEPT !.moved = ~rSeen.on].on
<1>1. rSeen \in Views /\ (~rSeen.on => rSeen.row = R!NoRow) /\ R!Position \in Int
  BY LevelCWhole DEF LevelCInv, LevelTyped
<1>2. R!Open \in SUBSET Nat BY LevelCWhole DEF R!Open
<1>. DEFINE u == [R!Unseen EXCEPT !.on = TRUE, !.pos = R!Position, !.open = R!Open]
<1>3. u \in Views /\ u.row = R!NoRow /\ u.on
    <2>. DEFINE v == [R!Unseen EXCEPT !.on = TRUE]
                w == [v EXCEPT !.pos = R!Position]
    <2>1. v \in Views /\ v.row = R!NoRow /\ v.on BY Blank DEF Views
    <2>2. u = [w EXCEPT !.open = R!Open] OBVIOUS
    <2>. HIDE DEF u, v
    <2>3. w \in Views /\ w.row = R!NoRow /\ w.on BY <1>1, <2>1 DEF Views
    <2>. HIDE DEF w
    <2>. QED BY <1>2, <2>2, <2>3 DEF Views
<1>. HIDE DEF u
<1>4. R!Subscribed = IF rSeen.on THEN rSeen ELSE u BY DEF R!Subscribed, u
<1>5. R!Subscribed \in Views /\ R!Subscribed.row = rSeen.row /\ R!Subscribed.on BY <1>1, <1>3, <1>4
<1>. QED BY <1>1, <1>5 DEF Views

\* What stands when no order and no intent changes.
LEMMA LevelCStanding ==
    ASSUME LevelCInv, UNCHANGED <<orders, rIntents>>, expired' = expired \/ expired' = TRUE, cancelling' \subseteq R!Open
    PROVE  /\ LevelCOrdered' /\ LevelCPositionFollows' /\ R!Position' = R!Position /\ R!Cur' = R!Cur /\ R!Now' = R!Now /\ Last' = Last
           /\ (LevelCOver => LevelCOver') /\ (Never => Never') /\ TrueFrames' = TrueFrames
           /\ \A i, o, n : RowTrue(i, o, n)' = RowTrue(i, o, n)
<1>1. R!Position' = R!Position BY LevelCBookStands
<1>2. R!Cur' = R!Cur /\ R!Now' = R!Now BY DEF R!Cur, R!Now
<1>3. Last' = Last /\ (LevelCOver => LevelCOver') /\ (Never => Never')
  BY <1>1, <1>2 DEF Last, LevelCOver, Never, R!Able
<1>4. \A i, o, n : RowTrue(i, o, n)' = RowTrue(i, o, n) BY DEF RowTrue
<1>5. TrueFrames' = TrueFrames BY <1>4 DEF TrueFrames
<1>6. LevelCOrdered' BY <1>2 DEF LevelCInv, LevelCOrdered, IntentFits, OrderFits, Settled, R!Open
<1>7. LevelCPositionFollows' BY <1>1, <1>2 DEF LevelCInv, LevelCPositionFollows, Made
<1>. QED BY <1>1, <1>2, <1>3, <1>4, <1>5, <1>6, <1>7

LEMMA StepsStand ==
    ASSUME LevelCSteps, UNCHANGED <<rPc, rOutcome, rResult, orders, rSeen>>, R!Cur' = R!Cur, R!Now' = R!Now, Last' = Last,
           R!Position' = R!Position, Never => Never'
    PROVE  LevelCSteps'
BY DEF LevelCSteps

\* The steps of the program that touch no order, each keeping the invariant.
LEMMA StartsKeeps == ASSUME LevelCInv, R!Starts PROVE LevelCInv'
<1>. USE DEF R!venue, R!store, R!Ends, R!Evidently, R!Reads, R!Cancels, R!Takes
<1>1. UNCHANGED <<orders, rIntents>> /\ (expired' = expired \/ expired' = TRUE) /\ cancelling' \subseteq R!Open
  BY DEF R!Starts, LevelCInv, LevelCOrdered, R!Cancels
<1>2. /\ LevelCOrdered' /\ LevelCPositionFollows' /\ R!Position' = R!Position /\ R!Cur' = R!Cur /\ R!Now' = R!Now /\ Last' = Last
      /\ (LevelCOver => LevelCOver') /\ (Never => Never') /\ TrueFrames' = TrueFrames
      /\ \A i, o, n : RowTrue(i, o, n)' = RowTrue(i, o, n)
  BY <1>1, LevelCStanding
<1>3. /\ R!Cur \in Nat /\ DOMAIN orders = 1..Len(orders) /\ Len(orders) \in Nat /\ R!Position \in Int /\ DOMAIN rIntents = 1..R!Cur
      /\ \A i \in DOMAIN orders : orders[i] \in LevelCSent /\ i \in 1..R!Cur
      /\ Len(orders) = R!Cur \/ (R!Cur > 0 /\ Len(orders) = R!Cur - 1)
      /\ (rIntents = << >> <=> R!Cur = 0) /\ (orders = << >> <=> Len(orders) = 0)
  BY LevelCWhole
<1>. USE <1>1, <1>2, <1>3, Blank, SubscribedFits DEF LevelCInv
<1>4. LevelTyped' BY DEF LevelTyped, R!Starts
<1>5. StreamTrue' BY DEF StreamTrue, R!Starts
<1>6. EvidenceTrue' BY DEF EvidenceTrue, R!Starts
<1>7. LevelCSteps' BY DEF LevelCSteps, R!Starts
<1>8. Reported' BY DEF Reported, LevelCSteps, R!Starts
<1>. QED BY <1>4, <1>5, <1>6, <1>7, <1>8

LEMMA CrashesKeeps == ASSUME LevelCInv, R!Crashes PROVE LevelCInv'
<1>. USE DEF R!venue, R!store, R!Ends, R!Evidently, R!Reads, R!Cancels, R!Takes
<1>1. UNCHANGED <<orders, rIntents>> /\ (expired' = expired \/ expired' = TRUE) /\ cancelling' \subseteq R!Open
  BY DEF R!Crashes, LevelCInv, LevelCOrdered, R!Cancels
<1>2. /\ LevelCOrdered' /\ LevelCPositionFollows' /\ R!Position' = R!Position /\ R!Cur' = R!Cur /\ R!Now' = R!Now /\ Last' = Last
      /\ (LevelCOver => LevelCOver') /\ (Never => Never') /\ TrueFrames' = TrueFrames
      /\ \A i, o, n : RowTrue(i, o, n)' = RowTrue(i, o, n)
  BY <1>1, LevelCStanding
<1>3. /\ R!Cur \in Nat /\ DOMAIN orders = 1..Len(orders) /\ Len(orders) \in Nat /\ R!Position \in Int /\ DOMAIN rIntents = 1..R!Cur
      /\ \A i \in DOMAIN orders : orders[i] \in LevelCSent /\ i \in 1..R!Cur
      /\ Len(orders) = R!Cur \/ (R!Cur > 0 /\ Len(orders) = R!Cur - 1)
      /\ (rIntents = << >> <=> R!Cur = 0) /\ (orders = << >> <=> Len(orders) = 0)
  BY LevelCWhole
<1>. USE <1>1, <1>2, <1>3, Blank, SubscribedFits DEF LevelCInv
<1>4. LevelTyped' BY DEF LevelTyped, R!Crashes
<1>5. StreamTrue' BY DEF StreamTrue, R!Crashes
<1>6. EvidenceTrue' BY DEF EvidenceTrue, R!Crashes
<1>7. LevelCSteps' BY DEF LevelCSteps, R!Crashes
<1>8. Reported' BY DEF Reported, LevelCSteps, R!Crashes
<1>. QED BY <1>4, <1>5, <1>6, <1>7, <1>8

LEMMA FailsKeeps == ASSUME LevelCInv, R!Fails PROVE LevelCInv'
<1>. USE DEF R!venue, R!store, R!Ends, R!Evidently, R!Reads, R!Cancels, R!Takes
<1>1. UNCHANGED <<orders, rIntents>> /\ (expired' = expired \/ expired' = TRUE) /\ cancelling' \subseteq R!Open
  BY DEF R!Fails, LevelCInv, LevelCOrdered, R!Cancels
<1>2. /\ LevelCOrdered' /\ LevelCPositionFollows' /\ R!Position' = R!Position /\ R!Cur' = R!Cur /\ R!Now' = R!Now /\ Last' = Last
      /\ (LevelCOver => LevelCOver') /\ (Never => Never') /\ TrueFrames' = TrueFrames
      /\ \A i, o, n : RowTrue(i, o, n)' = RowTrue(i, o, n)
  BY <1>1, LevelCStanding
<1>3. /\ R!Cur \in Nat /\ DOMAIN orders = 1..Len(orders) /\ Len(orders) \in Nat /\ R!Position \in Int /\ DOMAIN rIntents = 1..R!Cur
      /\ \A i \in DOMAIN orders : orders[i] \in LevelCSent /\ i \in 1..R!Cur
      /\ Len(orders) = R!Cur \/ (R!Cur > 0 /\ Len(orders) = R!Cur - 1)
      /\ (rIntents = << >> <=> R!Cur = 0) /\ (orders = << >> <=> Len(orders) = 0)
  BY LevelCWhole
<1>. USE <1>1, <1>2, <1>3, Blank, SubscribedFits DEF LevelCInv
<1>4. LevelTyped' BY DEF LevelTyped, R!Fails
<1>5. StreamTrue' BY DEF StreamTrue, R!Fails
<1>6. EvidenceTrue' BY DEF EvidenceTrue, R!Fails
<1>7. LevelCSteps' BY DEF LevelCSteps, R!Fails
<1>8. Reported' BY DEF Reported, LevelCSteps, R!Fails
<1>. QED BY <1>4, <1>5, <1>6, <1>7, <1>8

LEMMA BeginsKeeps == ASSUME LevelCInv, R!Begins PROVE LevelCInv'
<1>. USE DEF R!venue, R!store, R!Ends, R!Evidently, R!Reads, R!Cancels, R!Takes
<1>1. UNCHANGED <<orders, rIntents>> /\ (expired' = expired \/ expired' = TRUE) /\ cancelling' \subseteq R!Open
  BY DEF R!Begins, LevelCInv, LevelCOrdered, R!Cancels
<1>2. /\ LevelCOrdered' /\ LevelCPositionFollows' /\ R!Position' = R!Position /\ R!Cur' = R!Cur /\ R!Now' = R!Now /\ Last' = Last
      /\ (LevelCOver => LevelCOver') /\ (Never => Never') /\ TrueFrames' = TrueFrames
      /\ \A i, o, n : RowTrue(i, o, n)' = RowTrue(i, o, n)
  BY <1>1, LevelCStanding
<1>3. /\ R!Cur \in Nat /\ DOMAIN orders = 1..Len(orders) /\ Len(orders) \in Nat /\ R!Position \in Int /\ DOMAIN rIntents = 1..R!Cur
      /\ \A i \in DOMAIN orders : orders[i] \in LevelCSent /\ i \in 1..R!Cur
      /\ Len(orders) = R!Cur \/ (R!Cur > 0 /\ Len(orders) = R!Cur - 1)
      /\ (rIntents = << >> <=> R!Cur = 0) /\ (orders = << >> <=> Len(orders) = 0)
  BY LevelCWhole
<1>. USE <1>1, <1>2, <1>3, Blank, SubscribedFits DEF LevelCInv
<1>4. LevelTyped' BY DEF LevelTyped, R!Begins
<1>5. StreamTrue' BY DEF StreamTrue, R!Begins
<1>6. EvidenceTrue' BY DEF EvidenceTrue, R!Begins
<1>7. LevelCSteps' BY DEF LevelTyped, LevelCSteps, R!Begins
<1>8. Reported' BY DEF Reported, LevelCSteps, R!Begins
<1>. QED BY <1>4, <1>5, <1>6, <1>7, <1>8

LEMMA LoopsKeeps == ASSUME LevelCInv, R!Loops PROVE LevelCInv'
<1>. USE DEF R!venue, R!store, R!Ends, R!Evidently, R!Reads, R!Cancels, R!Takes
<1>1. UNCHANGED <<orders, rIntents>> /\ (expired' = expired \/ expired' = TRUE) /\ cancelling' \subseteq R!Open
  BY DEF R!Loops, LevelCInv, LevelCOrdered, R!Cancels
<1>2. /\ LevelCOrdered' /\ LevelCPositionFollows' /\ R!Position' = R!Position /\ R!Cur' = R!Cur /\ R!Now' = R!Now /\ Last' = Last
      /\ (LevelCOver => LevelCOver') /\ (Never => Never') /\ TrueFrames' = TrueFrames
      /\ \A i, o, n : RowTrue(i, o, n)' = RowTrue(i, o, n)
  BY <1>1, LevelCStanding
<1>3. /\ R!Cur \in Nat /\ DOMAIN orders = 1..Len(orders) /\ Len(orders) \in Nat /\ R!Position \in Int /\ DOMAIN rIntents = 1..R!Cur
      /\ \A i \in DOMAIN orders : orders[i] \in LevelCSent /\ i \in 1..R!Cur
      /\ Len(orders) = R!Cur \/ (R!Cur > 0 /\ Len(orders) = R!Cur - 1)
      /\ (rIntents = << >> <=> R!Cur = 0) /\ (orders = << >> <=> Len(orders) = 0)
  BY LevelCWhole
<1>. USE <1>1, <1>2, <1>3, Blank, SubscribedFits DEF LevelCInv
<1>4. LevelTyped' BY DEF LevelTyped, R!Loops
<1>5. StreamTrue' BY DEF StreamTrue, R!Loops
<1>6. EvidenceTrue' BY DEF EvidenceTrue, R!Loops
<1>7. LevelCSteps' BY DEF LevelCSteps, R!Loops
<1>8. Reported' BY DEF Reported, LevelCSteps, R!Loops
<1>. QED BY <1>4, <1>5, <1>6, <1>7, <1>8

LEMMA ReceivesKeeps == ASSUME LevelCInv, R!Receives PROVE LevelCInv'
<1>. USE DEF R!venue, R!store, R!Ends, R!Evidently, R!Reads, R!Cancels, R!Takes
<1>1. UNCHANGED <<orders, rIntents>> /\ (expired' = expired \/ expired' = TRUE) /\ cancelling' \subseteq R!Open
  BY DEF R!Receives, LevelCInv, LevelCOrdered, R!Cancels
<1>2. /\ LevelCOrdered' /\ LevelCPositionFollows' /\ R!Position' = R!Position /\ R!Cur' = R!Cur /\ R!Now' = R!Now /\ Last' = Last
      /\ (LevelCOver => LevelCOver') /\ (Never => Never') /\ TrueFrames' = TrueFrames
      /\ \A i, o, n : RowTrue(i, o, n)' = RowTrue(i, o, n)
  BY <1>1, LevelCStanding
<1>3. /\ R!Cur \in Nat /\ DOMAIN orders = 1..Len(orders) /\ Len(orders) \in Nat /\ R!Position \in Int /\ DOMAIN rIntents = 1..R!Cur
      /\ \A i \in DOMAIN orders : orders[i] \in LevelCSent /\ i \in 1..R!Cur
      /\ Len(orders) = R!Cur \/ (R!Cur > 0 /\ Len(orders) = R!Cur - 1)
      /\ (rIntents = << >> <=> R!Cur = 0) /\ (orders = << >> <=> Len(orders) = 0)
  BY LevelCWhole
<1>. USE <1>1, <1>2, <1>3, Blank, SubscribedFits DEF LevelCInv
<1>4. LevelTyped'
    <2>1. stream \in Seq(TrueFrames) /\ stream # << >> /\ rSeen \in Views /\ rSeen.row \in Rows
      BY DEF R!Receives, StreamTrue, LevelTyped, Views
    <2>2. Head(stream) \in TrueFrames /\ Head(stream) \in Frames BY <2>1 DEF TrueFrames
    <2>. DEFINE f == Head(stream)
    <2>3. CASE f.type = "position"
        <3>1. f.pos \in Int /\ rSeen' = [rSeen EXCEPT !.pos = f.pos, !.moved = TRUE]
          BY <2>2, <2>3 DEF R!Receives, Frames
        <3>2. rSeen' \in Views /\ (~rSeen'.on => rSeen'.row = R!NoRow) BY <2>1, <3>1 DEF LevelTyped, Views
        <3>. QED BY <3>2 DEF LevelTyped, R!Receives
    <2>4. CASE f.type # "position"
        <3>1. f.i \in Nat /\ f.open \in BOOLEAN /\ f.filled \in Int BY <2>2, <2>4 DEF Frames
        <3>. DEFINE r == [i |-> f.i, open |-> f.open, filled |-> f.filled]
                    q == IF f.open THEN rSeen.open \cup {f.i} ELSE rSeen.open \ {f.i}
        <3>2. r \in Rows /\ q \in SUBSET Nat BY <2>1, <3>1 DEF Rows, Views
        <3>3. rSeen' = [rSeen EXCEPT !.row = r, !.open = q] BY <2>4 DEF R!Receives
        <3>4. rSeen.on BY <2>1 DEF R!Receives, R!Needed, LevelCSteps
        <3>. HIDE DEF f, r, q
        <3>5. rSeen' \in Views /\ rSeen'.on BY <2>1, <3>2, <3>3, <3>4 DEF Views
        <3>. QED BY <3>5 DEF LevelTyped, R!Receives
    <2>. QED BY <2>3, <2>4
<1>5. StreamTrue'
    <2>1. stream \in Seq(TrueFrames) /\ stream # << >> /\ rSeen \in Views /\ rPc \in {"evidence", "position"}
      BY DEF R!Receives, StreamTrue, LevelTyped, R!Needed
    <2>2. Head(stream) \in TrueFrames /\ Tail(stream) \in Seq(TrueFrames) BY <2>1
    <2>. DEFINE f == Head(stream)
    <2>3. stream' \in Seq(TrueFrames)' BY <2>2 DEF R!Receives
    <2>4. CASE f.type = "position"
        <3>1. rSeen' = [rSeen EXCEPT !.pos = f.pos, !.moved = TRUE] /\ rPc' = rPc BY <2>4 DEF R!Receives
        <3>2. rSeen'.row = rSeen.row BY <2>1, <3>1 DEF Views
        <3>. QED BY <2>3, <3>1, <3>2 DEF StreamTrue
    <2>5. CASE f.type # "position"
        <3>1. f.i = R!Cur /\ rPc' = rPc /\ RowTrue(f.i, f.open, f.filled) /\ R!Cur > 0
          BY <2>1, <2>2, <2>5 DEF R!Receives, TrueFrames, Frames, LevelCSteps
        <3>2. rSeen'.row = [i |-> f.i, open |-> f.open, filled |-> f.filled] BY <2>1, <2>5 DEF R!Receives, Views
        <3>. HIDE DEF f
        <3>4. R!NoRow.i = 0 /\ rSeen'.row.i = R!Cur BY <3>1, <3>2 DEF R!NoRow
        <3>3. rSeen'.row # R!NoRow /\ RowTrue(rSeen.row.i, rSeen.row.open, rSeen.row.filled)' /\ rSeen'.row.i = R!Cur'
          BY <3>1, <3>2, <3>4
        <3>. QED BY <2>1, <2>3, <3>1, <3>3 DEF StreamTrue
    <2>. QED BY <2>4, <2>5
<1>6. EvidenceTrue' BY DEF EvidenceTrue, R!Receives
<1>7. LevelCSteps'
    <2>1. rSeen \in Views /\ rPc' = rPc BY DEF LevelTyped, R!Receives
    <2>2. rSeen'.on = rSeen.on BY <2>1 DEF R!Receives, Views
    <2>. QED BY <2>1, <2>2 DEF LevelCSteps, R!Receives
<1>8. Reported' BY DEF Reported, LevelCSteps, R!Receives
<1>. QED BY <1>4, <1>5, <1>6, <1>7, <1>8

LEMMA FindsKeeps == ASSUME LevelCInv, R!Finds PROVE LevelCInv'
<1>. USE DEF R!venue, R!store, R!Ends, R!Evidently, R!Reads, R!Cancels, R!Takes
<1>1. UNCHANGED <<orders, rIntents>> /\ (expired' = expired \/ expired' = TRUE) /\ cancelling' \subseteq R!Open
  BY DEF R!Finds, LevelCInv, LevelCOrdered, R!Cancels
<1>2. /\ LevelCOrdered' /\ LevelCPositionFollows' /\ R!Position' = R!Position /\ R!Cur' = R!Cur /\ R!Now' = R!Now /\ Last' = Last
      /\ (LevelCOver => LevelCOver') /\ (Never => Never') /\ TrueFrames' = TrueFrames
      /\ \A i, o, n : RowTrue(i, o, n)' = RowTrue(i, o, n)
  BY <1>1, LevelCStanding
<1>3. /\ R!Cur \in Nat /\ DOMAIN orders = 1..Len(orders) /\ Len(orders) \in Nat /\ R!Position \in Int /\ DOMAIN rIntents = 1..R!Cur
      /\ \A i \in DOMAIN orders : orders[i] \in LevelCSent /\ i \in 1..R!Cur
      /\ Len(orders) = R!Cur \/ (R!Cur > 0 /\ Len(orders) = R!Cur - 1)
      /\ (rIntents = << >> <=> R!Cur = 0) /\ (orders = << >> <=> Len(orders) = 0)
  BY LevelCWhole
<1>. USE <1>1, <1>2, <1>3, Blank, SubscribedFits DEF LevelCInv
<1>4. LevelTyped'
    <2>1. rSeen \in Views /\ rSeen.row \in Rows BY DEF LevelTyped, Views
    <2>2. [rSeen EXCEPT !.row = R!NoRow] \in Views /\ [rSeen EXCEPT !.row = R!NoRow].row = R!NoRow BY <2>1 DEF Views
    <2>3. [terminal |-> ~rSeen.row.open, filled |-> rSeen.row.filled, pos |-> rSeen.pos, known |-> TRUE, cancel |-> FALSE]
              \in Proofs
      BY <2>1 DEF Views, Rows, Proofs
    <2>4. rSeen' = rSeen \/ rSeen' = [rSeen EXCEPT !.row = R!NoRow] BY DEF R!Finds
    <2>5. evidence' \in Proofs BY <2>3 DEF R!Finds, LevelTyped
    <2>6. rSeen' \in Views /\ (~rSeen'.on => rSeen'.row = R!NoRow) BY <2>1, <2>2, <2>4 DEF LevelTyped, Views
    <2>. QED BY <2>5, <2>6 DEF LevelTyped, R!Finds
<1>5. StreamTrue'
    <2>1. rSeen.row.filled > 0 => rSeen.row # R!NoRow BY DEF R!NoRow
    <2>2. [rSeen EXCEPT !.row = R!NoRow].row = R!NoRow BY DEF LevelTyped, Views
    <2>. QED BY <2>1, <2>2 DEF StreamTrue, R!Finds
<1>6. EvidenceTrue'
    <2>1. rSeen.row # R!NoRow /\ rSeen.row.i = R!Cur /\ RowTrue(rSeen.row.i, rSeen.row.open, rSeen.row.filled)
      BY DEF R!Finds, R!Needed, StreamTrue
    <2>2. ~rSeen.row.open => Last /\ orders[R!Cur].filled = rSeen.row.filled BY <2>1 DEF RowTrue, Last
    <2>3. CASE rPc' = "position" BY <2>3 DEF EvidenceTrue
    <2>4. CASE rPc' # "position"
        <3>1. evidence' = [terminal |-> ~rSeen.row.open, filled |-> rSeen.row.filled, pos |-> rSeen.pos, known |-> TRUE,
                           cancel |-> FALSE]
          BY <2>4 DEF R!Finds
        <3>. QED BY <2>2, <3>1 DEF EvidenceTrue
    <2>. QED BY <2>3, <2>4
<1>7. LevelCSteps' BY DEF LevelCSteps, R!Finds
<1>8. Reported' BY DEF Reported, LevelCSteps, R!Finds
<1>. QED BY <1>4, <1>5, <1>6, <1>7, <1>8

LEMMA FindsNothingKeeps == ASSUME LevelCInv, R!FindsNothing PROVE LevelCInv'
<1>. USE DEF R!venue, R!store, R!Ends, R!Evidently, R!Reads, R!Cancels, R!Takes
<1>1. UNCHANGED <<orders, rIntents>> /\ (expired' = expired \/ expired' = TRUE) /\ cancelling' \subseteq R!Open
  BY DEF R!FindsNothing, LevelCInv, LevelCOrdered, R!Cancels
<1>2. /\ LevelCOrdered' /\ LevelCPositionFollows' /\ R!Position' = R!Position /\ R!Cur' = R!Cur /\ R!Now' = R!Now /\ Last' = Last
      /\ (LevelCOver => LevelCOver') /\ (Never => Never') /\ TrueFrames' = TrueFrames
      /\ \A i, o, n : RowTrue(i, o, n)' = RowTrue(i, o, n)
  BY <1>1, LevelCStanding
<1>3. /\ R!Cur \in Nat /\ DOMAIN orders = 1..Len(orders) /\ Len(orders) \in Nat /\ R!Position \in Int /\ DOMAIN rIntents = 1..R!Cur
      /\ \A i \in DOMAIN orders : orders[i] \in LevelCSent /\ i \in 1..R!Cur
      /\ Len(orders) = R!Cur \/ (R!Cur > 0 /\ Len(orders) = R!Cur - 1)
      /\ (rIntents = << >> <=> R!Cur = 0) /\ (orders = << >> <=> Len(orders) = 0)
  BY LevelCWhole
<1>. USE <1>1, <1>2, <1>3, Blank, SubscribedFits DEF LevelCInv
<1>4. LevelTyped' BY DEF LevelTyped, R!FindsNothing
<1>5. StreamTrue' BY DEF R!FindsNothing, R!Needed, StreamTrue
<1>6. EvidenceTrue' BY DEF EvidenceTrue, R!FindsNothing
<1>7. LevelCSteps' BY DEF R!FindsNothing, R!Unnamed, LevelCSteps, LevelCOrdered, IntentFits, R!Now
<1>8. Reported' BY DEF Reported, LevelCSteps, R!FindsNothing
<1>. QED BY <1>4, <1>5, <1>6, <1>7, <1>8

LEMMA NeverCameKeeps == ASSUME LevelCInv, R!NeverCame PROVE LevelCInv'
<1>. USE DEF R!venue, R!store, R!Ends, R!Evidently, R!Reads, R!Cancels, R!Takes
<1>1. UNCHANGED <<orders, rIntents>> /\ (expired' = expired \/ expired' = TRUE) /\ cancelling' \subseteq R!Open
  BY DEF R!NeverCame, LevelCInv, LevelCOrdered, R!Cancels
<1>2. /\ LevelCOrdered' /\ LevelCPositionFollows' /\ R!Position' = R!Position /\ R!Cur' = R!Cur /\ R!Now' = R!Now /\ Last' = Last
      /\ (LevelCOver => LevelCOver') /\ (Never => Never') /\ TrueFrames' = TrueFrames
      /\ \A i, o, n : RowTrue(i, o, n)' = RowTrue(i, o, n)
  BY <1>1, LevelCStanding
<1>3. /\ R!Cur \in Nat /\ DOMAIN orders = 1..Len(orders) /\ Len(orders) \in Nat /\ R!Position \in Int /\ DOMAIN rIntents = 1..R!Cur
      /\ \A i \in DOMAIN orders : orders[i] \in LevelCSent /\ i \in 1..R!Cur
      /\ Len(orders) = R!Cur \/ (R!Cur > 0 /\ Len(orders) = R!Cur - 1)
      /\ (rIntents = << >> <=> R!Cur = 0) /\ (orders = << >> <=> Len(orders) = 0)
  BY LevelCWhole
<1>. USE <1>1, <1>2, <1>3, Blank, SubscribedFits DEF LevelCInv
<1>4. LevelTyped' BY DEF LevelTyped, R!NeverCame
<1>5. StreamTrue' BY DEF StreamTrue, R!NeverCame
<1>6. EvidenceTrue'
  BY DEF R!NeverCame, LevelCSteps, R!PublicFlat, LevelCOver, R!Able, R!Open, EvidenceTrue, Never
<1>7. LevelCSteps' BY DEF LevelCSteps, R!NeverCame
<1>8. Reported' BY DEF Reported, LevelCSteps, R!NeverCame
<1>. QED BY <1>4, <1>5, <1>6, <1>7, <1>8

LEMMA UnfillsKeeps == ASSUME LevelCInv, R!Unfills PROVE LevelCInv'
<1>. USE DEF R!venue, R!store, R!Ends, R!Evidently, R!Reads, R!Cancels, R!Takes
<1>1. UNCHANGED <<orders, rIntents>> /\ (expired' = expired \/ expired' = TRUE) /\ cancelling' \subseteq R!Open
  BY DEF R!Unfills, LevelCInv, LevelCOrdered, R!Cancels
<1>2. /\ LevelCOrdered' /\ LevelCPositionFollows' /\ R!Position' = R!Position /\ R!Cur' = R!Cur /\ R!Now' = R!Now /\ Last' = Last
      /\ (LevelCOver => LevelCOver') /\ (Never => Never') /\ TrueFrames' = TrueFrames
      /\ \A i, o, n : RowTrue(i, o, n)' = RowTrue(i, o, n)
  BY <1>1, LevelCStanding
<1>3. /\ R!Cur \in Nat /\ DOMAIN orders = 1..Len(orders) /\ Len(orders) \in Nat /\ R!Position \in Int /\ DOMAIN rIntents = 1..R!Cur
      /\ \A i \in DOMAIN orders : orders[i] \in LevelCSent /\ i \in 1..R!Cur
      /\ Len(orders) = R!Cur \/ (R!Cur > 0 /\ Len(orders) = R!Cur - 1)
      /\ (rIntents = << >> <=> R!Cur = 0) /\ (orders = << >> <=> Len(orders) = 0)
  BY LevelCWhole
<1>. USE <1>1, <1>2, <1>3, Blank, SubscribedFits DEF LevelCInv
<1>4. LevelTyped' BY DEF LevelTyped, R!Unfills
<1>5. StreamTrue' BY DEF StreamTrue, R!Unfills
<1>6. EvidenceTrue' BY DEF EvidenceTrue, R!Unfills
<1>7. LevelCSteps' BY DEF LevelCSteps, R!Unfills
<1>8. Reported' BY DEF Reported, LevelCSteps, R!Unfills
<1>. QED BY <1>4, <1>5, <1>6, <1>7, <1>8

LEMMA EndsUnfilledKeeps == ASSUME LevelCInv, R!EndsUnfilled PROVE LevelCInv'
<1>. USE DEF R!venue, R!store, R!Ends, R!Evidently, R!Reads, R!Cancels, R!Takes
<1>1. UNCHANGED <<orders, rIntents>> /\ (expired' = expired \/ expired' = TRUE) /\ cancelling' \subseteq R!Open
  BY DEF R!EndsUnfilled, LevelCInv, LevelCOrdered, R!Cancels
<1>2. /\ LevelCOrdered' /\ LevelCPositionFollows' /\ R!Position' = R!Position /\ R!Cur' = R!Cur /\ R!Now' = R!Now /\ Last' = Last
      /\ (LevelCOver => LevelCOver') /\ (Never => Never') /\ TrueFrames' = TrueFrames
      /\ \A i, o, n : RowTrue(i, o, n)' = RowTrue(i, o, n)
  BY <1>1, LevelCStanding
<1>3. /\ R!Cur \in Nat /\ DOMAIN orders = 1..Len(orders) /\ Len(orders) \in Nat /\ R!Position \in Int /\ DOMAIN rIntents = 1..R!Cur
      /\ \A i \in DOMAIN orders : orders[i] \in LevelCSent /\ i \in 1..R!Cur
      /\ Len(orders) = R!Cur \/ (R!Cur > 0 /\ Len(orders) = R!Cur - 1)
      /\ (rIntents = << >> <=> R!Cur = 0) /\ (orders = << >> <=> Len(orders) = 0)
  BY LevelCWhole
<1>. USE <1>1, <1>2, <1>3, Blank, SubscribedFits DEF LevelCInv
<1>4. LevelTyped' BY DEF LevelTyped, R!EndsUnfilled
<1>5. StreamTrue' BY DEF StreamTrue, R!EndsUnfilled
<1>6. EvidenceTrue' BY DEF EvidenceTrue, R!EndsUnfilled
<1>7. LevelCSteps' BY DEF LevelCSteps, R!EndsUnfilled
<1>8. Reported' BY DEF Reported, LevelCSteps, R!EndsUnfilled
<1>. QED BY <1>4, <1>5, <1>6, <1>7, <1>8

LEMMA FinalizesKeeps == ASSUME LevelCInv, R!Finalizes PROVE LevelCInv'
<1>. USE DEF R!venue, R!store, R!Ends, R!Evidently, R!Reads, R!Cancels, R!Takes
<1>1. UNCHANGED <<orders, rIntents>> /\ (expired' = expired \/ expired' = TRUE) /\ cancelling' \subseteq R!Open
  BY DEF R!Finalizes, LevelCInv, LevelCOrdered, R!Cancels
<1>2. /\ LevelCOrdered' /\ LevelCPositionFollows' /\ R!Position' = R!Position /\ R!Cur' = R!Cur /\ R!Now' = R!Now /\ Last' = Last
      /\ (LevelCOver => LevelCOver') /\ (Never => Never') /\ TrueFrames' = TrueFrames
      /\ \A i, o, n : RowTrue(i, o, n)' = RowTrue(i, o, n)
  BY <1>1, LevelCStanding
<1>3. /\ R!Cur \in Nat /\ DOMAIN orders = 1..Len(orders) /\ Len(orders) \in Nat /\ R!Position \in Int /\ DOMAIN rIntents = 1..R!Cur
      /\ \A i \in DOMAIN orders : orders[i] \in LevelCSent /\ i \in 1..R!Cur
      /\ Len(orders) = R!Cur \/ (R!Cur > 0 /\ Len(orders) = R!Cur - 1)
      /\ (rIntents = << >> <=> R!Cur = 0) /\ (orders = << >> <=> Len(orders) = 0)
  BY LevelCWhole
<1>. USE <1>1, <1>2, <1>3, Blank, SubscribedFits DEF LevelCInv
<1>4. LevelTyped' BY DEF LevelTyped, R!Finalizes
<1>5. StreamTrue' BY DEF StreamTrue, R!Finalizes
<1>6. EvidenceTrue' BY DEF EvidenceTrue, R!Finalizes
<1>7. LevelCSteps' BY DEF LevelCSteps, R!Finalizes
<1>8. Reported' BY LastIsOver DEF R!Finalizes, LevelCSteps, LevelTyped, Last, Never, Reported
<1>. QED BY <1>4, <1>5, <1>6, <1>7, <1>8

LEMMA HaltsKeeps == ASSUME LevelCInv, R!Halts PROVE LevelCInv'
<1>. USE DEF R!venue, R!store, R!Ends, R!Evidently, R!Reads, R!Cancels, R!Takes
<1>1. UNCHANGED <<orders, rIntents>> /\ (expired' = expired \/ expired' = TRUE) /\ cancelling' \subseteq R!Open
  BY DEF R!Halts, LevelCInv, LevelCOrdered, R!Cancels
<1>2. /\ LevelCOrdered' /\ LevelCPositionFollows' /\ R!Position' = R!Position /\ R!Cur' = R!Cur /\ R!Now' = R!Now /\ Last' = Last
      /\ (LevelCOver => LevelCOver') /\ (Never => Never') /\ TrueFrames' = TrueFrames
      /\ \A i, o, n : RowTrue(i, o, n)' = RowTrue(i, o, n)
  BY <1>1, LevelCStanding
<1>3. /\ R!Cur \in Nat /\ DOMAIN orders = 1..Len(orders) /\ Len(orders) \in Nat /\ R!Position \in Int /\ DOMAIN rIntents = 1..R!Cur
      /\ \A i \in DOMAIN orders : orders[i] \in LevelCSent /\ i \in 1..R!Cur
      /\ Len(orders) = R!Cur \/ (R!Cur > 0 /\ Len(orders) = R!Cur - 1)
      /\ (rIntents = << >> <=> R!Cur = 0) /\ (orders = << >> <=> Len(orders) = 0)
  BY LevelCWhole
<1>. USE <1>1, <1>2, <1>3, Blank, SubscribedFits DEF LevelCInv
<1>4. LevelTyped' BY DEF LevelTyped, R!Halts
<1>5. StreamTrue' BY DEF StreamTrue, R!Halts
<1>6. EvidenceTrue' BY DEF EvidenceTrue, R!Halts
<1>7. LevelCSteps' BY DEF LevelCSteps, R!Halts
<1>8. Reported' BY DEF Reported, LevelCSteps, R!Halts
<1>. QED BY <1>4, <1>5, <1>6, <1>7, <1>8

LEMMA ReservesCancelKeeps == ASSUME LevelCInv, R!ReservesCancel PROVE LevelCInv'
<1>. USE DEF R!venue, R!store, R!Ends, R!Evidently, R!Reads, R!Cancels, R!Takes
<1>1. UNCHANGED <<orders, rIntents>> /\ (expired' = expired \/ expired' = TRUE) /\ cancelling' \subseteq R!Open
  BY DEF R!ReservesCancel, LevelCInv, LevelCOrdered, R!Cancels
<1>2. /\ LevelCOrdered' /\ LevelCPositionFollows' /\ R!Position' = R!Position /\ R!Cur' = R!Cur /\ R!Now' = R!Now /\ Last' = Last
      /\ (LevelCOver => LevelCOver') /\ (Never => Never') /\ TrueFrames' = TrueFrames
      /\ \A i, o, n : RowTrue(i, o, n)' = RowTrue(i, o, n)
  BY <1>1, LevelCStanding
<1>3. /\ R!Cur \in Nat /\ DOMAIN orders = 1..Len(orders) /\ Len(orders) \in Nat /\ R!Position \in Int /\ DOMAIN rIntents = 1..R!Cur
      /\ \A i \in DOMAIN orders : orders[i] \in LevelCSent /\ i \in 1..R!Cur
      /\ Len(orders) = R!Cur \/ (R!Cur > 0 /\ Len(orders) = R!Cur - 1)
      /\ (rIntents = << >> <=> R!Cur = 0) /\ (orders = << >> <=> Len(orders) = 0)
  BY LevelCWhole
<1>. USE <1>1, <1>2, <1>3, Blank, SubscribedFits DEF LevelCInv
<1>4. LevelTyped'
    <2>0. R!Cur > 0 BY DEF R!ReservesCancel, LevelCSteps
    <2>1. cancels \in Seq({"none", "DISPATCHING", "AMBIGUOUS", "PENDING", "TERMINAL"}) /\ R!Cur \in DOMAIN cancels
      BY <2>0 DEF LevelTyped, R!Cur
    <2>0a. PICK s \in {"DISPATCHING", "AMBIGUOUS", "PENDING", "TERMINAL"} : cancels' = [cancels EXCEPT ![R!Cur] = s]
      BY DEF R!ReservesCancel
    <2>2. cancels' \in Seq({"none", "DISPATCHING", "AMBIGUOUS", "PENDING", "TERMINAL"}) /\ Len(cancels') = Len(cancels)
      BY <2>1, <2>0a, SequenceExcept
    <2>. QED BY <2>2 DEF LevelTyped, R!ReservesCancel
<1>5. StreamTrue' BY DEF StreamTrue, R!ReservesCancel
<1>6. EvidenceTrue' BY DEF EvidenceTrue, R!ReservesCancel
<1>7. LevelCSteps' BY DEF LevelCSteps, R!ReservesCancel
<1>8. Reported' BY DEF Reported, LevelCSteps, R!ReservesCancel
<1>. QED BY <1>4, <1>5, <1>6, <1>7, <1>8

LEMMA SendsCancelKeeps == ASSUME LevelCInv, R!SendsCancel PROVE LevelCInv'
<1>. USE DEF R!venue, R!store, R!Ends, R!Evidently, R!Reads, R!Cancels, R!Takes
<1>1. UNCHANGED <<orders, rIntents>> /\ (expired' = expired \/ expired' = TRUE) /\ cancelling' \subseteq R!Open
  BY DEF R!SendsCancel, LevelCInv, LevelCOrdered, R!Cancels
<1>2. /\ LevelCOrdered' /\ LevelCPositionFollows' /\ R!Position' = R!Position /\ R!Cur' = R!Cur /\ R!Now' = R!Now /\ Last' = Last
      /\ (LevelCOver => LevelCOver') /\ (Never => Never') /\ TrueFrames' = TrueFrames
      /\ \A i, o, n : RowTrue(i, o, n)' = RowTrue(i, o, n)
  BY <1>1, LevelCStanding
<1>3. /\ R!Cur \in Nat /\ DOMAIN orders = 1..Len(orders) /\ Len(orders) \in Nat /\ R!Position \in Int /\ DOMAIN rIntents = 1..R!Cur
      /\ \A i \in DOMAIN orders : orders[i] \in LevelCSent /\ i \in 1..R!Cur
      /\ Len(orders) = R!Cur \/ (R!Cur > 0 /\ Len(orders) = R!Cur - 1)
      /\ (rIntents = << >> <=> R!Cur = 0) /\ (orders = << >> <=> Len(orders) = 0)
  BY LevelCWhole
<1>. USE <1>1, <1>2, <1>3, Blank, SubscribedFits DEF LevelCInv
<1>4. LevelTyped' BY DEF LevelTyped, R!SendsCancel
<1>5. StreamTrue' BY DEF StreamTrue, R!SendsCancel
<1>6. EvidenceTrue' BY DEF EvidenceTrue, R!SendsCancel
<1>7. LevelCSteps' BY DEF LevelCSteps, R!SendsCancel
<1>8. Reported' BY DEF Reported, LevelCSteps, R!SendsCancel
<1>. QED BY <1>4, <1>5, <1>6, <1>7, <1>8

LEMMA CancelAnsweredKeeps == ASSUME LevelCInv, R!CancelAnswered PROVE LevelCInv'
<1>. USE DEF R!venue, R!store, R!Ends, R!Evidently, R!Reads, R!Cancels, R!Takes
<1>1. UNCHANGED <<orders, rIntents>> /\ (expired' = expired \/ expired' = TRUE) /\ cancelling' \subseteq R!Open
  BY DEF R!CancelAnswered, LevelCInv, LevelCOrdered, R!Cancels
<1>2. /\ LevelCOrdered' /\ LevelCPositionFollows' /\ R!Position' = R!Position /\ R!Cur' = R!Cur /\ R!Now' = R!Now /\ Last' = Last
      /\ (LevelCOver => LevelCOver') /\ (Never => Never') /\ TrueFrames' = TrueFrames
      /\ \A i, o, n : RowTrue(i, o, n)' = RowTrue(i, o, n)
  BY <1>1, LevelCStanding
<1>3. /\ R!Cur \in Nat /\ DOMAIN orders = 1..Len(orders) /\ Len(orders) \in Nat /\ R!Position \in Int /\ DOMAIN rIntents = 1..R!Cur
      /\ \A i \in DOMAIN orders : orders[i] \in LevelCSent /\ i \in 1..R!Cur
      /\ Len(orders) = R!Cur \/ (R!Cur > 0 /\ Len(orders) = R!Cur - 1)
      /\ (rIntents = << >> <=> R!Cur = 0) /\ (orders = << >> <=> Len(orders) = 0)
  BY LevelCWhole
<1>. USE <1>1, <1>2, <1>3, Blank, SubscribedFits DEF LevelCInv
<1>4. LevelTyped'
    <2>0. R!Cur > 0 BY DEF R!CancelAnswered, LevelCSteps
    <2>1. cancels \in Seq({"none", "DISPATCHING", "AMBIGUOUS", "PENDING", "TERMINAL"}) /\ R!Cur \in DOMAIN cancels
      BY <2>0 DEF LevelTyped, R!Cur
    <2>0a. PICK s \in {"DISPATCHING", "AMBIGUOUS", "PENDING", "TERMINAL"} : cancels' = [cancels EXCEPT ![R!Cur] = s]
      BY DEF R!CancelAnswered
    <2>2. cancels' \in Seq({"none", "DISPATCHING", "AMBIGUOUS", "PENDING", "TERMINAL"}) /\ Len(cancels') = Len(cancels)
      BY <2>1, <2>0a, SequenceExcept
    <2>. QED BY <2>2 DEF LevelTyped, R!CancelAnswered
<1>5. StreamTrue' BY DEF StreamTrue, R!CancelAnswered
<1>6. EvidenceTrue' BY DEF EvidenceTrue, R!CancelAnswered
<1>7. LevelCSteps' BY DEF LevelCSteps, R!CancelAnswered
<1>8. Reported' BY DEF Reported, LevelCSteps, R!CancelAnswered
<1>. QED BY <1>4, <1>5, <1>6, <1>7, <1>8

LEMMA ReconcilesCancelKeeps == ASSUME LevelCInv, R!ReconcilesCancel PROVE LevelCInv'
<1>. USE DEF R!venue, R!store, R!Ends, R!Evidently, R!Reads, R!Cancels, R!Takes
<1>1. UNCHANGED <<orders, rIntents>> /\ (expired' = expired \/ expired' = TRUE) /\ cancelling' \subseteq R!Open
  BY DEF R!ReconcilesCancel, LevelCInv, LevelCOrdered, R!Cancels
<1>2. /\ LevelCOrdered' /\ LevelCPositionFollows' /\ R!Position' = R!Position /\ R!Cur' = R!Cur /\ R!Now' = R!Now /\ Last' = Last
      /\ (LevelCOver => LevelCOver') /\ (Never => Never') /\ TrueFrames' = TrueFrames
      /\ \A i, o, n : RowTrue(i, o, n)' = RowTrue(i, o, n)
  BY <1>1, LevelCStanding
<1>3. /\ R!Cur \in Nat /\ DOMAIN orders = 1..Len(orders) /\ Len(orders) \in Nat /\ R!Position \in Int /\ DOMAIN rIntents = 1..R!Cur
      /\ \A i \in DOMAIN orders : orders[i] \in LevelCSent /\ i \in 1..R!Cur
      /\ Len(orders) = R!Cur \/ (R!Cur > 0 /\ Len(orders) = R!Cur - 1)
      /\ (rIntents = << >> <=> R!Cur = 0) /\ (orders = << >> <=> Len(orders) = 0)
  BY LevelCWhole
<1>. USE <1>1, <1>2, <1>3, Blank, SubscribedFits DEF LevelCInv
<1>4. LevelTyped'
    <2>0. R!Cur > 0 BY DEF R!ReconcilesCancel, LevelCSteps
    <2>1. cancels \in Seq({"none", "DISPATCHING", "AMBIGUOUS", "PENDING", "TERMINAL"}) /\ R!Cur \in DOMAIN cancels
      BY <2>0 DEF LevelTyped, R!Cur
    <2>0a. PICK s \in {"DISPATCHING", "AMBIGUOUS", "PENDING", "TERMINAL"} : cancels' = [cancels EXCEPT ![R!Cur] = s]
      BY DEF R!ReconcilesCancel
    <2>2. cancels' \in Seq({"none", "DISPATCHING", "AMBIGUOUS", "PENDING", "TERMINAL"}) /\ Len(cancels') = Len(cancels)
      BY <2>1, <2>0a, SequenceExcept
    <2>. QED BY <2>2 DEF LevelTyped, R!ReconcilesCancel
<1>5. StreamTrue' BY DEF StreamTrue, R!ReconcilesCancel
<1>6. EvidenceTrue' BY DEF EvidenceTrue, R!ReconcilesCancel
<1>7. LevelCSteps' BY DEF LevelCSteps, R!ReconcilesCancel
<1>8. Reported' BY DEF Reported, LevelCSteps, R!ReconcilesCancel
<1>. QED BY <1>4, <1>5, <1>6, <1>7, <1>8

LEMMA ExpiresKeeps == ASSUME LevelCInv, R!Expires PROVE LevelCInv'
<1>. USE DEF R!venue, R!store, R!Ends, R!Evidently, R!Reads, R!Cancels, R!Takes
<1>1. UNCHANGED <<orders, rIntents>> /\ (expired' = expired \/ expired' = TRUE) /\ cancelling' \subseteq R!Open
  BY DEF R!Expires, LevelCInv, LevelCOrdered, R!Cancels
<1>2. /\ LevelCOrdered' /\ LevelCPositionFollows' /\ R!Position' = R!Position /\ R!Cur' = R!Cur /\ R!Now' = R!Now /\ Last' = Last
      /\ (LevelCOver => LevelCOver') /\ (Never => Never') /\ TrueFrames' = TrueFrames
      /\ \A i, o, n : RowTrue(i, o, n)' = RowTrue(i, o, n)
  BY <1>1, LevelCStanding
<1>3. /\ R!Cur \in Nat /\ DOMAIN orders = 1..Len(orders) /\ Len(orders) \in Nat /\ R!Position \in Int /\ DOMAIN rIntents = 1..R!Cur
      /\ \A i \in DOMAIN orders : orders[i] \in LevelCSent /\ i \in 1..R!Cur
      /\ Len(orders) = R!Cur \/ (R!Cur > 0 /\ Len(orders) = R!Cur - 1)
      /\ (rIntents = << >> <=> R!Cur = 0) /\ (orders = << >> <=> Len(orders) = 0)
  BY LevelCWhole
<1>. USE <1>1, <1>2, <1>3, Blank, SubscribedFits DEF LevelCInv
<1>4. LevelTyped' BY DEF LevelTyped, R!Expires
<1>5. StreamTrue' BY DEF StreamTrue, R!Expires
<1>6. EvidenceTrue' BY DEF EvidenceTrue, R!Expires
<1>7. LevelCSteps' BY StepsStand DEF R!Expires
<1>8. Reported' BY DEF Reported, LevelCSteps, R!Expires
<1>. QED BY <1>4, <1>5, <1>6, <1>7, <1>8

\* Only the last order can still trade.
LEMMA OpenIsLast ==
    ASSUME LevelCInv, NEW i \in DOMAIN orders, ~Settled(i)
    PROVE  i = R!Cur /\ R!Cur > 0 /\ ~Last /\ orders[i].filled = 0 /\ (R!Able(i) => ~LevelCOver) /\ orders[i].at \in {"flying", "open"}
BY LevelCWhole DEF LevelCInv, LevelCOrdered, OrderFits, Settled, Last, LevelCOver, LevelCSent

\* What the stream said stays true as an order moves on.
LEMMA TrueGrow ==
    ASSUME NEW s \in Seq(TrueFrames), NEW t \in Seq(TrueFrames'), TrueFrames \subseteq TrueFrames'
    PROVE  s \in Seq(TrueFrames') /\ s \o t \in Seq(TrueFrames')
OBVIOUS

\* An order that is not over moves: it rests, trades, ends or is refused.
LEMMA ActsKeep ==
    ASSUME LevelCInv, NEW i \in DOMAIN orders, ~Settled(i), NEW at \in {"open", "done", "dead"}, NEW n \in Int,
           R!Becomes(i, at, n), at # "done" => n = 0, R!Able(i) \/ at = "dead", cancelling' \subseteq R!Open',
           stream' = stream \/ \E fs \in Seq(TrueFrames') : R!Shows(fs),
           UNCHANGED <<expired, R!store, rSeen, evidence, rPc, rResult, rRuns>>
    PROVE  LevelCInv'
<1>. USE DEF R!store
<1>1. i = R!Cur /\ R!Cur > 0 /\ ~Last /\ orders[i].filled = 0 /\ (R!Able(i) => ~LevelCOver) /\ orders[i].at \in {"flying", "open"}
  BY OpenIsLast
<1>2. /\ DOMAIN rIntents = 1..R!Cur /\ R!Cur \in Nat /\ DOMAIN orders = 1..Len(orders) /\ Len(orders) \in Nat /\ R!Position \in Int
      /\ \A j \in DOMAIN orders : orders[j] \in LevelCSent /\ j \in 1..R!Cur
      /\ \A j \in 1..R!Cur : rIntents[j] \in LevelCIntents
  BY LevelCWhole
<1>3. /\ orders' \in Seq(LevelCSent) /\ Len(orders') = Len(orders) /\ orders'[i] = [at |-> at, filled |-> n]
      /\ \A j \in DOMAIN orders : j # i => orders'[j] = orders[j]
    <2>. DEFINE o == [orders EXCEPT ![i].at = at]
                q == [o[i] EXCEPT !.filled = n]
    <2>1. [orders[i] EXCEPT !.at = at] \in LevelCSent /\ [orders[i] EXCEPT !.at = at].at = at /\ orders \in Seq(LevelCSent)
      BY <1>2 DEF LevelCSent, LevelCInv, LevelTyped
    <2>2. o \in Seq(LevelCSent) /\ Len(o) = Len(orders) /\ o[i] = [orders[i] EXCEPT !.at = at]
          /\ \A j \in DOMAIN orders : j # i => o[j] = orders[j]
      BY <2>1, SequenceExcept
    <2>3. orders' = [o EXCEPT ![i] = q] BY DEF R!Becomes
    <2>. HIDE DEF o
    <2>4. q = [at |-> at, filled |-> n] /\ q \in LevelCSent
        <3>1. o[i] \in LevelCSent /\ o[i].at = at BY <2>1, <2>2
        <3>2. q \in LevelCSent /\ q.at = at /\ q.filled = n BY <3>1 DEF LevelCSent
        <3>. HIDE DEF q
        <3>. QED BY <3>2 DEF LevelCSent
    <2>. HIDE DEF q
    <2>5. DOMAIN o = DOMAIN orders BY <1>2, <2>2
    <2>. QED BY <2>2, <2>3, <2>4, <2>5, SequenceExcept
<1>4. DOMAIN orders' = DOMAIN orders /\ R!Cur' = R!Cur /\ R!Now' = R!Now /\ orders'[i].at = at /\ orders'[i].filled = n
  BY <1>2, <1>3 DEF R!Cur, R!Now
<1>5. R!Position' = R!Position + R!Signed(i, n) BY <1>1, <1>3, <1>4, BookExecutes DEF LevelCInv
<1>6. LevelCOrdered' BY <1>1, <1>2, <1>3, <1>4 DEF LevelCInv, LevelCOrdered, OrderFits, Settled, IntentFits
<1>7. LevelCPositionFollows'
    <2>1. IntentFits(R!Cur) BY <1>1, <1>2 DEF LevelCInv, LevelCOrdered
    <2>2. CASE R!Cur = 1
      BY <1>1, <2>1, <2>2, <1>4, <1>5 DEF IntentFits, R!Signed, LevelCInv, LevelCPositionFollows, Made
    <2>3. CASE R!Cur > 1
        <3>1. R!Signed(i, n) = 0 - n /\ R!Position = R!Now.src /\ R!Now.src \in Int
          BY <1>1, <1>2, <2>1, <2>3 DEF IntentFits, R!Signed, LevelCInv, LevelCPositionFollows, Made, R!Now,
            LevelCIntents
        <3>2. R!Cur' \in DOMAIN orders' /\ orders'[R!Cur'].filled = n BY <1>1, <1>4
        <3>. QED BY <1>4, <1>5, <2>3, <3>1, <3>2 DEF LevelCPositionFollows, Made
    <2>. QED BY <1>1, <1>2, <2>2, <2>3
<1>8. \A j, p, m : RowTrue(j, p, m) => RowTrue(j, p, m)' BY <1>1, <1>3, <1>4 DEF RowTrue
<1>9. TrueFrames \subseteq TrueFrames' BY <1>8 DEF TrueFrames
<1>10. stream' \in Seq(TrueFrames')
    <2>1. stream \in Seq(TrueFrames) BY DEF LevelCInv, StreamTrue
    <2>2. CASE stream' = stream BY <1>9, <2>1, <2>2, TrueGrow
    <2>3. CASE \E fs \in Seq(TrueFrames') : R!Shows(fs) BY <1>9, <2>1, <2>3, TrueGrow DEF R!Shows
    <2>. QED BY <2>2, <2>3
<1>11. StreamTrue' BY <1>4, <1>8, <1>10 DEF LevelCInv, StreamTrue
<1>12. LevelTyped' BY <1>3, <1>4 DEF LevelCInv, LevelTyped
<1>13. Never => Never' /\ at = "dead"
    <2>. SUFFICES ASSUME Never PROVE Never' /\ at = "dead" OBVIOUS
    <2>1. at = "dead" /\ n = 0 BY <1>1 DEF Never
    <2>2. R!Position' = 0 BY <1>5, <2>1 DEF Never, R!Signed
    <2>3. LevelCOver' BY <1>3, <1>4, <2>1 DEF Never, LevelCOver, R!Able
    <2>. QED BY <2>1, <2>2, <2>3 DEF Never
<1>14. EvidenceTrue' BY <1>1, <1>4, <1>13 DEF LevelCInv, EvidenceTrue
<1>15. orders # << >> /\ orders' # << >> BY <1>2, <1>4
<1>16. LevelCSteps' BY <1>1, <1>2, <1>3, <1>4, <1>13, <1>15 DEF LevelCInv, LevelCSteps
<1>17. Reported'
    <2>1. rOutcome \in {"NO_FILL", "SUCCESS"} => Never' BY <1>13 DEF LevelCInv, Reported
    <2>2. rOutcome = "SUCCESS" => 1 \in DOMAIN orders /\ orders'[1].filled = Lots
        <3>. SUFFICES ASSUME rOutcome = "SUCCESS" PROVE 1 \in DOMAIN orders /\ orders'[1].filled = Lots OBVIOUS
        <3>1. Never /\ 1 \in DOMAIN orders /\ orders[1].filled = Lots BY DEF LevelCInv, Reported
        <3>. QED BY <1>1, <1>3, <3>1, LotsAssumption
    <2>. QED BY <1>4, <2>1, <2>2 DEF LevelCInv, Reported
<1>. QED BY <1>6, <1>7, <1>11, <1>12, <1>14, <1>16, <1>17 DEF LevelCInv

LEMMA OpenRowIsTrue == ASSUME NEW i \in Nat PROVE R!Row(i, TRUE, 0) \in TrueFrames'
BY DEF R!Row, Frames, TrueFrames, RowTrue

LEMMA EndRowIsTrue ==
    ASSUME NEW i \in Nat, NEW n \in Int, i \in DOMAIN orders', orders'[i] = [at |-> "done", filled |-> n]
    PROVE  R!Row(i, FALSE, n) \in TrueFrames'
BY DEF R!Row, Frames, TrueFrames, RowTrue

LEMMA MovedIsTrue == ASSUME NEW p \in Int PROVE R!Moved(p) \in TrueFrames'
BY DEF R!Moved, TrueFrames, Frames

LEMMA BecomesIs ==
    ASSUME LevelCInv, NEW i \in DOMAIN orders, NEW at, NEW n, R!Becomes(i, at, n)
    PROVE  DOMAIN orders' = DOMAIN orders /\ orders'[i] = [at |-> at, filled |-> n] /\ i \in Nat
<1>1. orders[i] \in LevelCSent /\ i \in Nat BY LevelCWhole
<1>. DEFINE o == [orders EXCEPT ![i].at = at]
<1>2. o[i] = [orders[i] EXCEPT !.at = at] /\ DOMAIN o = DOMAIN orders OBVIOUS
<1>3. orders' = [o EXCEPT ![i].filled = n] BY DEF R!Becomes
<1>. HIDE DEF o
<1>4. orders'[i] = [o[i] EXCEPT !.filled = n] /\ DOMAIN orders' = DOMAIN orders BY <1>2, <1>3
<1>. QED BY <1>1, <1>2, <1>4 DEF LevelCSent

LEMMA OneFrame == ASSUME NEW S, NEW x \in S PROVE <<x>> \in Seq(S)
OBVIOUS

LEMMA FramesJoin ==
    ASSUME NEW S, NEW s \in Seq(S), NEW t \in Seq(S)
    PROVE  s \o t \in Seq(S)
OBVIOUS

LEMMA RestsKeeps == ASSUME LevelCInv, NEW i \in DOMAIN orders, R!Rests(i) PROVE LevelCInv'
<1>1. ~Settled(i) /\ R!Able(i) /\ R!Becomes(i, "open", 0) /\ R!Shows(<<R!Row(i, TRUE, 0)>>) /\ cancelling' = cancelling
      /\ UNCHANGED <<expired, R!store, rSeen, evidence, rPc, rResult, rRuns>>
  BY DEF R!Rests, Settled
<1>2. DOMAIN orders' = DOMAIN orders /\ orders'[i] = [at |-> "open", filled |-> 0] /\ i \in Nat BY <1>1, BecomesIs
<1>3. <<R!Row(i, TRUE, 0)>> \in Seq(TrueFrames') BY <1>2, OpenRowIsTrue, OneFrame
<1>4. \A j \in DOMAIN orders : j # i => orders'[j] = orders[j] BY <1>1 DEF R!Becomes
<1>5. cancelling' \subseteq R!Open' BY <1>1, <1>2, <1>4 DEF LevelCInv, LevelCOrdered, R!Open
<1>. QED
    <2>1. \E fs \in Seq(TrueFrames') : R!Shows(fs) BY <1>1, <1>3
    <2>. QED BY <1>1, <1>5, <2>1, ActsKeep

LEMMA ExecutesKeeps == ASSUME LevelCInv, NEW i \in DOMAIN orders, R!Executes(i) PROVE LevelCInv'
<1>1. R!Able(i) /\ ~Settled(i) /\ cancelling' = cancelling \ {i}
      /\ UNCHANGED <<expired, R!store, rSeen, evidence, rPc, rResult, rRuns>>
  BY DEF R!Executes, R!Able, Settled
<1>2. i = R!Cur /\ R!Cur > 0 /\ R!Position \in Int /\ rIntents[i] \in LevelCIntents BY <1>1, OpenIsLast, LevelCWhole
<1>3. \A n \in R!Quantities(i) : n \in Int BY <1>2, LotsAssumption DEF R!Quantities, LevelCIntents
<1>4. PICK n \in R!Quantities(i) :
          /\ R!Becomes(i, "done", n)
          /\ \E m \in IF n = 0 THEN {<< >>} ELSE IF n = 1 THEN {<<R!Moved(R!Position + R!Signed(i, n))>>}
                      ELSE {<<R!Moved(R!Position + R!Signed(i, n))>>,
                            <<R!Moved(R!Position + R!Signed(i, 1))>> \o <<R!Moved(R!Position + R!Signed(i, n))>>} :
                 R!Shows(<<R!Row(i, FALSE, n)>> \o m) \/ R!Shows(m \o <<R!Row(i, FALSE, n)>>)
  BY DEF R!Executes
<1>5. n \in Int /\ R!Signed(i, n) \in Int /\ R!Signed(i, 1) \in Int BY <1>3 DEF R!Signed
<1>6. DOMAIN orders' = DOMAIN orders /\ orders'[i] = [at |-> "done", filled |-> n] /\ i \in Nat BY <1>4, BecomesIs
<1>7. <<R!Row(i, FALSE, n)>> \in Seq(TrueFrames') BY <1>5, <1>6, EndRowIsTrue, OneFrame
<1>8. R!Moved(R!Position + R!Signed(i, n)) \in TrueFrames' /\ R!Moved(R!Position + R!Signed(i, 1)) \in TrueFrames'
  BY <1>2, <1>5, MovedIsTrue
<1>9. PICK m \in Seq(TrueFrames') : R!Shows(<<R!Row(i, FALSE, n)>> \o m) \/ R!Shows(m \o <<R!Row(i, FALSE, n)>>)
    <2>1. /\ << >> \in Seq(TrueFrames') /\ <<R!Moved(R!Position + R!Signed(i, n))>> \in Seq(TrueFrames')
          /\ <<R!Moved(R!Position + R!Signed(i, 1))>> \o <<R!Moved(R!Position + R!Signed(i, n))>> \in Seq(TrueFrames')
      BY <1>8
    <2>. QED BY <1>4, <2>1
<1>10. \E fs \in Seq(TrueFrames') : R!Shows(fs)
    <2>1. <<R!Row(i, FALSE, n)>> \o m \in Seq(TrueFrames') /\ m \o <<R!Row(i, FALSE, n)>> \in Seq(TrueFrames')
      BY <1>7, <1>9, FramesJoin
    <2>. QED BY <1>9, <2>1
<1>11. \A j \in DOMAIN orders : j # i => orders'[j] = orders[j] BY <1>4 DEF R!Becomes
<1>12. cancelling' \subseteq R!Open' BY <1>1, <1>6, <1>11 DEF LevelCInv, LevelCOrdered, R!Open
<1>. QED BY <1>1, <1>4, <1>5, <1>10, <1>12, ActsKeep

LEMMA RefusesKeeps == ASSUME LevelCInv, NEW i \in DOMAIN orders, R!Refuses(i) PROVE LevelCInv'
<1>1. ~Settled(i) /\ R!Becomes(i, "dead", 0) /\ stream' = stream /\ cancelling' = cancelling
      /\ UNCHANGED <<expired, R!store, rSeen, evidence, rPc, rResult, rRuns>> /\ orders[i].at = "flying"
  BY DEF R!Refuses, Settled
<1>2. DOMAIN orders' = DOMAIN orders /\ \A j \in DOMAIN orders : j # i => orders'[j] = orders[j]
  BY <1>1, BecomesIs DEF R!Becomes
<1>3. cancelling' \subseteq R!Open' BY <1>1, <1>2 DEF LevelCInv, LevelCOrdered, R!Open
<1>. QED BY <1>1, <1>3, ActsKeep

LEMMA CancelActsKeeps == ASSUME LevelCInv, NEW i \in cancelling, R!CancelActs(i) PROVE LevelCInv'
<1>1. i \in DOMAIN orders /\ orders[i].at = "open" BY DEF LevelCInv, LevelCOrdered, R!Open
<1>2. ~Settled(i) /\ R!Able(i) /\ R!Becomes(i, "done", 0) /\ R!Shows(<<R!Row(i, FALSE, 0)>>) /\ cancelling' = cancelling \ {i}
      /\ UNCHANGED <<expired, R!store, rSeen, evidence, rPc, rResult, rRuns>>
  BY <1>1 DEF R!CancelActs, Settled, R!Able
<1>3. DOMAIN orders' = DOMAIN orders /\ orders'[i] = [at |-> "done", filled |-> 0] /\ i \in Nat
  BY <1>1, <1>2, BecomesIs
<1>4. <<R!Row(i, FALSE, 0)>> \in Seq(TrueFrames')
    <2>1. R!Row(i, FALSE, 0) \in TrueFrames'
        <3>1. \A n \in Int : n = 0 => R!Row(i, FALSE, n) \in TrueFrames' BY <1>1, <1>3, EndRowIsTrue
        <3>2. 0 \in Int OBVIOUS
        <3>. QED BY <3>1, <3>2, Zenon
    <2>. QED BY <2>1, OneFrame
<1>5. \A j \in DOMAIN orders : j # i => orders'[j] = orders[j] BY <1>2 DEF R!Becomes
<1>6. cancelling' \subseteq R!Open' BY <1>2, <1>3, <1>5 DEF LevelCInv, LevelCOrdered, R!Open
<1>. QED
    <2>1. \E fs \in Seq(TrueFrames') : R!Shows(fs) BY <1>2, <1>4
    <2>. QED BY <1>1, <1>2, <1>6, <2>1, ActsKeep

LEMMA LastOf == \A n \in Nat : n > 0 => n \in 1..n
OBVIOUS

\* The last intent alone changes, in what is known of it.
LEMMA IntentMoves ==
    ASSUME LevelCInv, R!Cur > 0, NEW r \in LevelCIntents, rIntents' = [rIntents EXCEPT ![R!Cur] = r],
           r.kind = R!Now.kind, r.size = R!Now.size, r.src = R!Now.src, UNCHANGED <<orders, cancelling, expired>>
    PROVE  /\ rIntents' \in Seq(LevelCIntents) /\ Len(rIntents') = Len(rIntents) /\ R!Cur' = R!Cur /\ R!Now' = r
           /\ LevelCOrdered' /\ LevelCPositionFollows' /\ R!Position' = R!Position /\ Last' = Last
           /\ (LevelCOver => LevelCOver') /\ (Never => Never') /\ TrueFrames' = TrueFrames
           /\ \A i, o, n : RowTrue(i, o, n)' = RowTrue(i, o, n)
<1>1. /\ DOMAIN rIntents = 1..R!Cur /\ R!Cur \in Nat /\ DOMAIN orders = 1..Len(orders)
      /\ \A j \in DOMAIN orders : j \in 1..R!Cur
  BY LevelCWhole
<1>2. /\ rIntents' \in Seq(LevelCIntents) /\ Len(rIntents') = Len(rIntents) /\ rIntents'[R!Cur] = r
      /\ \A j \in 1..R!Cur : j # R!Cur => rIntents'[j] = rIntents[j]
    <2>1. rIntents \in Seq(LevelCIntents) BY DEF LevelCInv, LevelTyped
    <2>2. R!Cur \in DOMAIN rIntents BY <1>1, LastOf
    <2>. QED BY <1>1, <2>1, <2>2, SequenceExcept
<1>3. R!Cur' = R!Cur /\ R!Now' = r BY <1>2 DEF R!Cur, R!Now
<1>4. DOMAIN rIntents' = DOMAIN rIntents BY <1>1
<1>5. \A j \in 1..R!Cur : rIntents'[j].kind = rIntents[j].kind /\ rIntents'[j].size = rIntents[j].size
                          /\ rIntents'[j].src = rIntents[j].src
  BY <1>2 DEF R!Now
<1>6. R!Position' = R!Position BY <1>1, <1>5, LevelCBookStands
<1>7. Last' = Last /\ (LevelCOver => LevelCOver') /\ (Never => Never')
  BY <1>3, <1>6 DEF Last, LevelCOver, Never, R!Able
<1>8. \A i, o, n : RowTrue(i, o, n)' = RowTrue(i, o, n) BY DEF RowTrue
<1>9. TrueFrames' = TrueFrames BY <1>8 DEF TrueFrames
<1>10. LevelCOrdered' BY <1>1, <1>3, <1>4, <1>5 DEF LevelCInv, LevelCOrdered, IntentFits, OrderFits, Settled, R!Open
<1>11. LevelCPositionFollows' BY <1>3, <1>6 DEF LevelCInv, LevelCPositionFollows, Made
<1>. QED BY <1>2, <1>3, <1>6, <1>7, <1>8, <1>9, <1>10, <1>11

LEMMA DispatchesKeeps == ASSUME LevelCInv, R!Dispatches PROVE LevelCInv'
<1>. DEFINE r == [R!Now EXCEPT !.state = "DISPATCHING"]
<1>1. R!Cur > 0 /\ R!Cur \in Nat /\ R!Now \in LevelCIntents BY LevelCWhole DEF R!Dispatches, LevelCInv, LevelCSteps
<1>2. rIntents' = [rIntents EXCEPT ![R!Cur] = r] /\ r \in LevelCIntents
  BY <1>1 DEF R!Dispatches, R!Marked, LevelCIntents, R!Now
<1>3. r.kind = R!Now.kind /\ r.size = R!Now.size /\ r.src = R!Now.src /\ r.state = "DISPATCHING"
  BY <1>1 DEF LevelCIntents
<1>. HIDE DEF r
<1>4. /\ rIntents' \in Seq(LevelCIntents) /\ Len(rIntents') = Len(rIntents) /\ R!Cur' = R!Cur /\ R!Now' = r
      /\ LevelCOrdered' /\ LevelCPositionFollows' /\ R!Position' = R!Position /\ Last' = Last
      /\ (LevelCOver => LevelCOver') /\ (Never => Never') /\ TrueFrames' = TrueFrames
      /\ \A i, o, n : RowTrue(i, o, n)' = RowTrue(i, o, n)
  BY <1>1, <1>2, <1>3, IntentMoves DEF R!Dispatches, R!venue
<1>5. /\ rPc = "dispatch" /\ R!Now.state = "PREPARED" /\ rPc' = "send"
      /\ UNCHANGED <<orders, cancelling, expired, cancels, rOutcome, stream, rSeen, evidence, rResult, rRuns>>
  BY DEF R!Dispatches, R!venue
<1>. USE <1>1, <1>3, <1>4, <1>5 DEF LevelCInv
<1>6. LevelTyped' BY DEF LevelTyped
<1>7. StreamTrue' BY DEF StreamTrue
<1>8. EvidenceTrue' /\ Reported' BY DEF EvidenceTrue, Reported
<1>9. LevelCSteps' BY DEF LevelCSteps
<1>. QED BY <1>6, <1>7, <1>8, <1>9

LEMMA AnsweredKeeps == ASSUME LevelCInv, R!Answered PROVE LevelCInv'
<1>1. R!Cur > 0 /\ R!Cur \in Nat /\ R!Now \in LevelCIntents BY LevelCWhole DEF R!Answered, LevelCInv, LevelCSteps
<1>2. PICK r \in LevelCIntents : /\ rIntents' = [rIntents EXCEPT ![R!Cur] = r] /\ r.kind = R!Now.kind /\ r.size = R!Now.size
                                 /\ r.src = R!Now.src /\ r.state # "PREPARED"
    <2>1. CASE rIntents' = [rIntents EXCEPT ![R!Cur].state = "DISPATCHED", ![R!Cur].known = TRUE]
        <3>. DEFINE a == [R!Now EXCEPT !.state = "DISPATCHED"]
                    b == [a EXCEPT !.known = TRUE]
        <3>1. a \in LevelCIntents /\ a.kind = R!Now.kind /\ a.size = R!Now.size /\ a.src = R!Now.src /\ a.state = "DISPATCHED"
          BY <1>1 DEF LevelCIntents
        <3>2. rIntents' = [rIntents EXCEPT ![R!Cur] = b] BY <1>1, <2>1 DEF R!Now
        <3>. HIDE DEF a
        <3>3. b \in LevelCIntents /\ b.kind = a.kind /\ b.size = a.size /\ b.src = a.src /\ b.state = a.state
          BY <3>1 DEF LevelCIntents
        <3>. QED BY <3>1, <3>2, <3>3
    <2>2. ASSUME NEW s \in {"VENUE_REJECTED", "AMBIGUOUS"}, R!Marked(s) 
          PROVE  \E t \in LevelCIntents : /\ rIntents' = [rIntents EXCEPT ![R!Cur] = t] /\ t.kind = R!Now.kind /\ t.size = R!Now.size
                                          /\ t.src = R!Now.src /\ t.state # "PREPARED"
        <3>. DEFINE a == [R!Now EXCEPT !.state = s]
        <3>1. a \in LevelCIntents /\ a.kind = R!Now.kind /\ a.size = R!Now.size /\ a.src = R!Now.src /\ a.state # "PREPARED"
          BY <1>1, <2>2 DEF LevelCIntents
        <3>2. rIntents' = [rIntents EXCEPT ![R!Cur] = a] BY <2>2 DEF R!Now, R!Marked
        <3>. HIDE DEF a
        <3>. QED BY <3>1, <3>2
    <2>3. \/ rIntents' = [rIntents EXCEPT ![R!Cur].state = "DISPATCHED", ![R!Cur].known = TRUE]
          \/ R!Marked("VENUE_REJECTED") \/ R!Marked("AMBIGUOUS")
      BY DEF R!Answered
    <2>. QED BY <2>1, <2>2, <2>3
<1>3. /\ rIntents' \in Seq(LevelCIntents) /\ Len(rIntents') = Len(rIntents) /\ R!Cur' = R!Cur /\ R!Now' = r
      /\ LevelCOrdered' /\ LevelCPositionFollows' /\ R!Position' = R!Position /\ Last' = Last
      /\ (LevelCOver => LevelCOver') /\ (Never => Never') /\ TrueFrames' = TrueFrames
      /\ \A i, o, n : RowTrue(i, o, n)' = RowTrue(i, o, n)
  BY <1>1, <1>2, IntentMoves DEF R!Answered, R!venue
<1>4. /\ rPc = "answer" /\ rPc' = "evidence" /\ rSeen' = [R!Subscribed EXCEPT !.moved = ~rSeen.on]
      /\ UNCHANGED <<orders, cancelling, expired, cancels, rOutcome, stream, evidence, rResult, rRuns>>
  BY DEF R!Answered, R!Evidently, R!venue
<1>. USE <1>1, <1>2, <1>3, <1>4, SubscribedFits DEF LevelCInv
<1>5. LevelTyped' BY DEF LevelTyped
<1>6. StreamTrue' BY DEF StreamTrue
<1>7. EvidenceTrue' /\ LevelCSteps' /\ Reported' BY DEF EvidenceTrue, LevelCSteps, Reported
<1>. QED BY <1>5, <1>6, <1>7

LEMMA KnownOpenKeeps == ASSUME LevelCInv, R!KnownOpen PROVE LevelCInv'
<1>1. R!Cur > 0 /\ R!Cur \in Nat /\ R!Now \in LevelCIntents BY LevelCWhole DEF R!KnownOpen, LevelCInv, LevelCSteps
<1>. DEFINE a == [R!Now EXCEPT !.state = "OPEN_KNOWN"]
            r == [a EXCEPT !.known = TRUE]
<1>2. a \in LevelCIntents /\ a.kind = R!Now.kind /\ a.size = R!Now.size /\ a.src = R!Now.src /\ a.state = "OPEN_KNOWN"
  BY <1>1 DEF LevelCIntents
<1>3. rIntents' = [rIntents EXCEPT ![R!Cur] = r] BY <1>1 DEF R!KnownOpen, R!Now
<1>. HIDE DEF a
<1>4. r \in LevelCIntents /\ r.kind = a.kind /\ r.size = a.size /\ r.src = a.src /\ r.state = a.state
  BY <1>2 DEF LevelCIntents
<1>. HIDE DEF r
<1>5. /\ rIntents' \in Seq(LevelCIntents) /\ Len(rIntents') = Len(rIntents) /\ R!Cur' = R!Cur /\ R!Now' = r
      /\ LevelCOrdered' /\ LevelCPositionFollows' /\ R!Position' = R!Position /\ Last' = Last
      /\ (LevelCOver => LevelCOver') /\ (Never => Never') /\ TrueFrames' = TrueFrames
      /\ \A i, o, n : RowTrue(i, o, n)' = RowTrue(i, o, n)
  BY <1>1, <1>2, <1>3, <1>4, IntentMoves DEF R!KnownOpen, R!venue
<1>6. rPc = "judge" /\ rPc' = "cancel" /\ evidence' = R!Nothing
      /\ UNCHANGED <<orders, cancelling, expired, cancels, rOutcome, stream, rSeen, rResult, rRuns>>
  BY DEF R!KnownOpen, R!venue
<1>. USE <1>1, <1>2, <1>4, <1>5, <1>6, Blank DEF LevelCInv
<1>7. LevelTyped' BY DEF LevelTyped
<1>8. StreamTrue' BY DEF StreamTrue
<1>9. EvidenceTrue' /\ LevelCSteps' /\ Reported' BY DEF EvidenceTrue, LevelCSteps, Reported
<1>. QED BY <1>7, <1>8, <1>9

LEMMA ReconcilesKeeps == ASSUME LevelCInv, R!Reconciles PROVE LevelCInv'
<1>1. R!Cur > 0 /\ R!Cur \in Nat /\ R!Now \in LevelCIntents /\ evidence \in Proofs /\ R!Position \in Int /\ IntentFits(R!Cur)
  BY LevelCWhole DEF R!Reconciles, LevelCInv, LevelCSteps, LevelTyped, LevelCOrdered
<1>. DEFINE a == [R!Now EXCEPT !.state = "TERMINAL"]
            b == [a EXCEPT !.after = evidence.pos]
            r == [b EXCEPT !.known = R!Now.known \/ evidence.known]
<1>2. a \in LevelCIntents /\ a.kind = R!Now.kind /\ a.size = R!Now.size /\ a.src = R!Now.src /\ a.state = "TERMINAL" /\ a.known = R!Now.known
  BY <1>1 DEF LevelCIntents
<1>3. rIntents' = [rIntents EXCEPT ![R!Cur] = [b EXCEPT !.known = b.known \/ evidence.known]]
  BY <1>1 DEF R!Reconciles, R!Now
<1>. HIDE DEF a
<1>4. b \in LevelCIntents /\ b.kind = a.kind /\ b.size = a.size /\ b.src = a.src /\ b.state = a.state /\ b.after = evidence.pos
      /\ b.known = R!Now.known
  BY <1>1, <1>2 DEF LevelCIntents, Proofs
<1>. HIDE DEF b
<1>5. /\ r \in LevelCIntents /\ r.kind = b.kind /\ r.size = b.size /\ r.src = b.src /\ r.state = b.state /\ r.after = b.after
      /\ rIntents' = [rIntents EXCEPT ![R!Cur] = r]
  BY <1>1, <1>3, <1>4 DEF LevelCIntents, Proofs
<1>. HIDE DEF r
<1>6. /\ rIntents' \in Seq(LevelCIntents) /\ Len(rIntents') = Len(rIntents) /\ R!Cur' = R!Cur /\ R!Now' = r
      /\ LevelCOrdered' /\ LevelCPositionFollows' /\ R!Position' = R!Position /\ Last' = Last
      /\ (LevelCOver => LevelCOver') /\ (Never => Never') /\ TrueFrames' = TrueFrames
      /\ \A i, o, n : RowTrue(i, o, n)' = RowTrue(i, o, n)
  BY <1>1, <1>2, <1>4, <1>5, IntentMoves DEF R!Reconciles, R!venue
<1>7. /\ rPc = "judge" /\ evidence.terminal /\ R!Fits(evidence) /\ evidence' = R!Nothing
      /\ rPc' = (IF R!Unfilled(evidence) THEN "unfilled" ELSE IF evidence.pos = 0 THEN "final" ELSE "close")
      /\ UNCHANGED <<orders, cancelling, expired, cancels, rOutcome, stream, rSeen, rResult, rRuns>>
  BY DEF R!Reconciles, R!venue
<1>8. IF evidence.known THEN Last /\ orders[R!Cur].filled = evidence.filled
      ELSE R!Cur = 1 /\ Never /\ evidence.filled = 0
  BY <1>7 DEF LevelCInv, EvidenceTrue
<1>9. R!Now.kind = (IF R!Cur = 1 THEN "OPEN" ELSE "CLOSE") /\ (R!Cur = 1 => R!Now.size = Lots) /\ R!Now.src \in Int
  BY <1>1 DEF IntentFits, R!Now, LevelCIntents
<1>10. R!Unfilled(evidence) => R!Cur = 1 /\ Never
    <2>. SUFFICES ASSUME R!Unfilled(evidence), evidence.known PROVE R!Cur = 1 /\ Never BY <1>8
    <2>1. R!Cur = 1 /\ Last /\ orders[R!Cur].filled = 0 BY <1>8, <1>9 DEF R!Unfilled
    <2>2. R!Position = 0 BY <2>1 DEF Last, LevelCInv, LevelCPositionFollows, Made
    <2>. QED BY <2>1, <2>2, LastIsOver DEF Never
<1>11. ~R!Unfilled(evidence) => Last /\ evidence.pos = R!Position /\ orders[1].filled = Lots
    <2>. SUFFICES ASSUME ~R!Unfilled(evidence) PROVE Last /\ evidence.pos = R!Position /\ orders[1].filled = Lots
        OBVIOUS
    <2>1. Last /\ orders[R!Cur].filled = evidence.filled BY <1>8, <1>9 DEF R!Unfilled
    <2>2. Made = evidence.filled BY <2>1 DEF Last, Made
    <2>3. CASE R!Cur = 1 BY <1>7, <1>9, <2>1, <2>2, <2>3 DEF R!Fits, R!Unfilled, LevelCInv, LevelCPositionFollows
    <2>4. CASE R!Cur # 1
      BY <1>1, <2>4, <1>7, <1>9, <2>1, <2>2 DEF LevelCInv, LevelCPositionFollows, LevelCOrdered, R!Fits
    <2>. QED BY <2>3, <2>4
<1>12. rOutcome = "ACTIVE" /\ rResult = "none" /\ rSeen.row = R!NoRow
  BY <1>7 DEF LevelCInv, LevelCSteps, LevelTyped, StreamTrue
<1>13. LevelTyped' BY <1>6, <1>7, Blank DEF LevelCInv, LevelTyped
<1>14. StreamTrue' BY <1>6, <1>7, <1>12 DEF LevelCInv, StreamTrue
<1>15. EvidenceTrue' /\ Reported' BY <1>7, <1>12, Blank DEF EvidenceTrue, Reported
<1>16. LevelCSteps' BY <1>1, <1>2, <1>4, <1>5, <1>6, <1>7, <1>10, <1>11, <1>12 DEF LevelCSteps
<1>. QED BY <1>6, <1>13, <1>14, <1>15, <1>16 DEF LevelCInv

\* The next intent is written down when all before it are over.
LEMMA IntendKeeps ==
    ASSUME LevelCInv, NEW k \in {"OPEN", "CLOSE"}, NEW n \in Int, R!Intend(k, n), rPc \in {"open", "close"},
           Len(orders) = R!Cur, k = (IF R!Cur = 0 THEN "OPEN" ELSE "CLOSE"), n = (IF R!Cur = 0 THEN Lots ELSE R!Subscribed.pos),
           R!Cur > 0 => Last /\ R!Subscribed.pos = R!Position /\ orders[1].filled = Lots, R!Reads,
           UNCHANGED <<orders, cancelling, rOutcome, stream, evidence, rResult, rRuns>>
    PROVE  LevelCInv'
<1>. DEFINE r == [kind |-> k, size |-> n, src |-> R!Subscribed.pos, state |-> "PREPARED", known |-> FALSE, after |-> 0]
<1>1. /\ DOMAIN rIntents = 1..R!Cur /\ R!Cur \in Nat /\ DOMAIN orders = 1..Len(orders) /\ R!Position \in Int
      /\ \A j \in DOMAIN orders : orders[j] \in LevelCSent /\ j \in 1..R!Cur
  BY LevelCWhole
<1>2. r \in LevelCIntents /\ r.kind = k /\ r.size = n /\ r.src = R!Subscribed.pos /\ r.state = "PREPARED"
  BY SubscribedFits DEF LevelCIntents, Views
<1>3. rIntents' = Append(rIntents, r) /\ cancels' = Append(cancels, "none") /\ expired' = FALSE /\ rPc' = "dispatch"
      /\ rSeen' = [R!Subscribed EXCEPT !.verified = TRUE]
  BY DEF R!Intend, R!Reads
<1>. HIDE DEF r
<1>4. /\ rIntents' \in Seq(LevelCIntents) /\ Len(rIntents') = R!Cur + 1 /\ rIntents'[R!Cur + 1] = r /\ R!Cur' = R!Cur + 1 /\ R!Now' = r
      /\ DOMAIN rIntents' = 1..(R!Cur + 1) /\ \A j \in 1..R!Cur : rIntents'[j] = rIntents[j]
  BY <1>1, <1>2, <1>3, SequenceGrows DEF LevelCInv, LevelTyped, R!Cur, R!Now
<1>5. /\ cancels' \in Seq({"none", "DISPATCHING", "AMBIGUOUS", "PENDING", "TERMINAL"}) /\ Len(cancels') = R!Cur + 1
  BY <1>3, SequenceGrows DEF LevelCInv, LevelTyped, R!Cur
<1>6. R!Position' = R!Position BY <1>1, <1>4, LevelCBookStands
<1>7. LevelTyped' BY <1>1, <1>3, <1>4, <1>5, SubscribedFits DEF LevelCInv, LevelTyped
<1>8. LevelCOrdered'
    <2>1. \A j \in DOMAIN rIntents' : IntentFits(j)'
      BY <1>1, <1>4, <1>2 DEF LevelCInv, LevelCOrdered, IntentFits
    <2>2. \A j \in DOMAIN orders : OrderFits(j)'
      BY <1>1, <1>4 DEF LevelCInv, LevelCOrdered, OrderFits, Settled, Last
    <2>. QED BY <1>1, <1>4, <2>1, <2>2 DEF LevelCInv, LevelCOrdered, R!Open
<1>9. LevelCPositionFollows' BY <1>1, <1>4, <1>2, <1>6 DEF Made, LevelCInv, LevelCPositionFollows
<1>10. \A i, o, m : RowTrue(i, o, m)' = RowTrue(i, o, m) BY DEF RowTrue
<1>11. TrueFrames' = TrueFrames BY <1>10 DEF TrueFrames
<1>12. StreamTrue' BY <1>3, <1>11, SubscribedFits DEF LevelCInv, StreamTrue
<1>13. rOutcome = "ACTIVE" /\ rResult = "none" BY DEF LevelCInv, LevelCSteps, LevelTyped
<1>14. EvidenceTrue' /\ Reported' /\ LevelCSteps' BY <1>1, <1>3, <1>4, <1>13 DEF EvidenceTrue, Reported, LevelCSteps
<1>. QED BY <1>7, <1>8, <1>9, <1>12, <1>14 DEF LevelCInv

LEMMA PreparesOpenKeeps == ASSUME LevelCInv, R!PreparesOpen PROVE LevelCInv'
BY LevelCWhole, IntendKeeps, LotsAssumption DEF R!PreparesOpen, LevelCInv, LevelCSteps

LEMMA PreparesCloseKeeps == ASSUME LevelCInv, R!PreparesClose PROVE LevelCInv'
BY LevelCWhole, IntendKeeps DEF R!PreparesClose, LevelCInv, LevelCSteps, Last

LEMMA SendsKeeps == ASSUME LevelCInv, R!Sends PROVE LevelCInv'
<1>1. /\ DOMAIN rIntents = 1..R!Cur /\ R!Cur \in Nat /\ DOMAIN orders = 1..Len(orders) /\ R!Position \in Int
      /\ \A j \in DOMAIN orders : orders[j] \in LevelCSent /\ j \in 1..R!Cur
  BY LevelCWhole
<1>2. R!Cur > 0 /\ Len(orders) = R!Cur - 1 /\ R!Now.state # "PREPARED" /\ rOutcome = "ACTIVE" /\ rResult = "none"
  BY DEF R!Sends, LevelCInv, LevelCSteps, LevelTyped
<1>3. PICK at \in {"flying", "dead"} : orders' = Append(orders, [at |-> at, filled |-> 0]) BY DEF R!Sends
<1>. DEFINE o == [at |-> at, filled |-> 0]
<1>4. o \in LevelCSent /\ o.filled = 0 /\ o.at # "done" BY DEF LevelCSent
<1>. HIDE DEF o
<1>5. /\ orders' \in Seq(LevelCSent) /\ Len(orders') = R!Cur /\ orders'[R!Cur] = o /\ DOMAIN orders' = 1..R!Cur
      /\ \A j \in DOMAIN orders : orders'[j] = orders[j]
  BY <1>1, <1>2, <1>3, <1>4, SequenceGrows DEF LevelCInv, LevelTyped, o
<1>6. rPc' = "answer" /\ UNCHANGED <<cancelling, expired, rIntents, cancels, rOutcome, stream, rSeen, evidence, rResult, rRuns>>
  BY DEF R!Sends, R!store
<1>7. R!Cur' = R!Cur /\ R!Now' = R!Now BY <1>6 DEF R!Cur, R!Now
<1>8. R!Position' = R!Position BY <1>3, <1>4, <1>6, BookSends DEF LevelCInv, o
<1>9. LevelTyped' BY <1>5, <1>6, <1>7 DEF LevelCInv, LevelTyped
<1>10. LevelCOrdered'
    <2>1. \A j \in 1..R!Cur : OrderFits(j)'
      BY <1>5, <1>7, <1>2, <1>4, <1>1 DEF LevelCInv, LevelCOrdered, OrderFits, Settled
    <2>2. \A j \in DOMAIN rIntents : IntentFits(j)' BY <1>6 DEF LevelCInv, LevelCOrdered, IntentFits
    <2>3. cancelling' \subseteq R!Open' BY <1>1, <1>2, <1>5, <1>6 DEF LevelCInv, LevelCOrdered, R!Open
    <2>4. R!Cur > 1 => orders'[1].filled = Lots BY <1>1, <1>2, <1>5 DEF LevelCInv, LevelCOrdered
    <2>. QED BY <1>5, <1>6, <1>7, <2>1, <2>2, <2>3, <2>4 DEF LevelCOrdered
<1>11. LevelCPositionFollows' BY <1>1, <1>2, <1>4, <1>5, <1>7, <1>8 DEF Made, LevelCInv, LevelCPositionFollows
<1>12. \A i, p, m : RowTrue(i, p, m) => RowTrue(i, p, m)' BY <1>1, <1>2, <1>5 DEF RowTrue
<1>13. TrueFrames \subseteq TrueFrames' BY <1>12 DEF TrueFrames
<1>14. StreamTrue' BY <1>6, <1>13, TrueGrow DEF LevelCInv, StreamTrue, R!Sends
<1>15. EvidenceTrue' /\ Reported' /\ LevelCSteps' BY <1>2, <1>6, <1>7 DEF EvidenceTrue, Reported, LevelCSteps
<1>. QED BY <1>9, <1>10, <1>11, <1>14, <1>15 DEF LevelCInv

\* The invariant holds from the start and is kept.
LEMMA LevelInit == R!Init => LevelCInv
<1>. SUFFICES ASSUME R!Init PROVE LevelCInv OBVIOUS
<1>1. R!Cur = 0 /\ LevelCBook = << >> /\ R!Position = 0 BY TotalEmpty, LevelCTotals DEF R!Init, R!Cur, LevelCBook
<1>2. LevelTyped BY <1>1, Blank DEF R!Init, LevelTyped
<1>3. LevelCOrdered /\ LevelCPositionFollows /\ StreamTrue
  BY <1>1, Blank DEF R!Init, LevelCOrdered, LevelCPositionFollows, StreamTrue
<1>4. EvidenceTrue /\ LevelCSteps /\ Reported BY <1>1 DEF R!Init, EvidenceTrue, LevelCSteps, Reported
<1>. QED BY <1>2, <1>3, <1>4 DEF LevelCInv

LEMMA LevelStutters == LevelCInv /\ UNCHANGED R!vars => LevelCInv'
<1>. SUFFICES ASSUME LevelCInv, UNCHANGED R!vars PROVE LevelCInv' OBVIOUS
<1>1. /\ LevelCOrdered' /\ LevelCPositionFollows' /\ R!Position' = R!Position /\ R!Cur' = R!Cur /\ R!Now' = R!Now /\ Last' = Last
      /\ (LevelCOver => LevelCOver') /\ (Never => Never') /\ TrueFrames' = TrueFrames
      /\ \A i, o, n : RowTrue(i, o, n)' = RowTrue(i, o, n)
  BY LevelCStanding DEF R!vars, LevelCInv, LevelCOrdered
<1>2. UNCHANGED <<orders, cancelling, expired, rIntents, cancels, rOutcome, stream, rSeen, evidence, rPc, rResult, rRuns>>
  BY DEF R!vars
<1>. USE <1>1, <1>2 DEF LevelCInv
<1>3. LevelTyped' /\ StreamTrue' BY DEF LevelTyped, StreamTrue
<1>4. EvidenceTrue' /\ Reported' BY DEF EvidenceTrue, Reported
<1>5. LevelCSteps' BY StepsStand
<1>. QED BY <1>3, <1>4, <1>5

LEMMA LevelStep == LevelCInv /\ [R!Next]_(R!vars) => LevelCInv'
<1>. SUFFICES ASSUME LevelCInv, [R!Next]_(R!vars) PROVE LevelCInv' OBVIOUS
<1>1. CASE R!Venue BY <1>1, RestsKeeps, ExecutesKeeps, RefusesKeeps, CancelActsKeeps, ExpiresKeeps DEF R!Venue
<1>2. CASE R!Runner
  BY <1>2, BeginsKeeps, PreparesOpenKeeps, LoopsKeeps, DispatchesKeeps, SendsKeeps, AnsweredKeeps,
    ReceivesKeeps, FindsKeeps, FindsNothingKeeps, NeverCameKeeps, KnownOpenKeeps, ReconcilesKeeps,
    UnfillsKeeps, EndsUnfilledKeeps, FinalizesKeeps, HaltsKeeps, PreparesCloseKeeps, ReservesCancelKeeps,
    SendsCancelKeeps, CancelAnsweredKeeps, ReconcilesCancelKeeps, FailsKeeps DEF R!Runner
<1>. QED BY <1>1, <1>2, StartsKeeps, CrashesKeeps, LevelStutters DEF R!Next

LEMMA LevelInvariant == R!Spec => []LevelCInv
BY LevelInit, LevelStep, PTL DEF R!Spec

LEMMA LevelTells == LevelCInv => R!CompleteIsFlat /\ R!OneOrderAtATime
<1>1. LevelCInv => R!CompleteIsFlat
    <2>. SUFFICES ASSUME LevelCInv PROVE R!CompleteIsFlat OBVIOUS
    <2>1. rOutcome \in {"NO_FILL", "SUCCESS"} \/ rResult \in {"NO_FILL", "SUCCESS"} => Never
      BY DEF LevelCInv, LevelCSteps, Reported
    <2>2. rOutcome = "NO_FILL" => \A i \in DOMAIN orders : orders[i].filled = 0
        <3>. SUFFICES ASSUME rOutcome = "NO_FILL", NEW i \in DOMAIN orders PROVE orders[i].filled = 0 OBVIOUS
        <3>1. R!Cur = 1 /\ R!Position = 0 BY DEF LevelCInv, Reported, Never
        <3>2. i = R!Cur BY <3>1, LevelCWhole
        <3>. QED BY <3>1, <3>2 DEF LevelCInv, LevelCPositionFollows, Made
    <2>3. rOutcome = "SUCCESS" => orders[1].filled = Lots BY DEF LevelCInv, Reported
    <2>4. rResult = "BLOCKED" => orders = << >> BY DEF LevelCInv, LevelCSteps
    <2>. QED BY <2>1, <2>2, <2>3, <2>4 DEF R!CompleteIsFlat, Never, LevelCOver
<1>2. LevelCInv => R!OneOrderAtATime
    <2>. SUFFICES ASSUME LevelCInv PROVE R!OneOrderAtATime OBVIOUS
    <2>1. \A i \in DOMAIN orders : R!Able(i) => ~Settled(i) BY DEF R!Able, Settled
    <2>2. \A i \in DOMAIN orders : R!Able(i) => i = R!Cur /\ R!Cur > 0 /\ orders[i].filled = 0 BY <2>1, OpenIsLast
    <2>3. ASSUME NEW i \in DOMAIN orders, R!Able(i), rIntents[i].kind = "CLOSE" PROVE rIntents[i].size = R!Position
        <3>1. i = R!Cur /\ R!Cur > 0 /\ Made = 0 /\ IntentFits(i) /\ R!Cur \in Nat
            <4>1. i = R!Cur /\ R!Cur > 0 /\ orders[i].filled = 0 BY <2>2, <2>3
            <4>2. R!Cur \in Nat /\ i \in DOMAIN rIntents BY LevelCWhole
            <4>3. Made = 0 BY <4>1 DEF Made
            <4>4. IntentFits(i) BY <4>2 DEF LevelCInv, LevelCOrdered
            <4>. QED BY <4>1, <4>2, <4>3, <4>4
        <3>2. R!Now \in LevelCIntents /\ rIntents[i] = R!Now BY <3>1, LevelCWhole DEF R!Now
        <3>3. i # 1 /\ rIntents[i].size = R!Now.src BY <2>3, <3>2, <3>1 DEF IntentFits
        <3>4. R!Cur > 1 /\ R!Now.src \in Int BY <3>1, <3>2, <3>3 DEF LevelCIntents
        <3>. QED BY <3>1, <3>3, <3>4 DEF LevelCInv, LevelCPositionFollows
    <2>. QED BY <2>2, <2>3 DEF R!OneOrderAtATime
<1>. QED BY <1>1, <1>2

\* A RISEx lifecycle that says it is flat is flat, nothing it sent can trade any
\* more, and a close is never sent of what is not there.
THEOREM LevelCorrect == R!Spec => [](R!CompleteIsFlat /\ R!OneOrderAtATime)
BY LevelInvariant, LevelTells, PTL

-----------------------------------------------------------------------------
(* The owner of a funding-boundary run.                                    *)

NadoIn   == {"entered", "holding", "accepted", "published", "closing", "round_1", "round_2", "reporting"}
NadoOver == {"ending", "await_close", "exited"}
RisexOver == {"ending", "returning", "exited"}
Starting == {"bridge", "start_nado", "await_ready", "bind", "await_startup", "launch"}

OwnerType ==
    /\ barrier \in [arrived : SUBSET F!Venues, state : {"open", "passed", "aborted"}]
    /\ exposed \subseteq wrote /\ wrote \subseteq F!Venues
    /\ reports = [v \in F!Venues |-> reports[v]]

\* Nobody gets past the barrier alone.
OwnerBarrier ==
    /\ barrier.state = "passed" => barrier.arrived = F!Venues
    /\ worker = "preparing" \/ loop = "entering" \/ wrote # {} => barrier.state = "passed"

OwnerNado ==
    /\ "NADO" \in wrote => worker \in NadoIn \cup NadoOver
    /\ "NADO" \in exposed => worker \notin {"round_1", "round_2", "reporting"}
    /\ reports["NADO"] # "none" => "NADO" \notin exposed /\ worker \in NadoOver
    /\ worker \in {"await_close", "exited"} /\ "NADO" \in wrote => "nado_may" \in flags
    /\ "store_closed" \in flags => worker = "exited"
    /\ "nado_done" \in flags => worker \in {"await_close", "exited"} \/ "closed" \in flags

\* When the RISEx worker has ended its lifecycle is past the first order, or
\* will not come to it.
OwnerRisex ==
    /\ "RISEX" \in exposed => loop \in {"entered", "awaiting_relay", "exiting", "halted", "stopped"}
    /\ loop \in {"idle", "submitted", "at_barrier", "entering"} \/ risex = "none" => "RISEX" \notin wrote
    /\ reports["RISEX"] \in {"COMPLETE", "BLOCKED"} => loop \in {"complete", "stopped"} /\ "RISEX" \notin exposed
    /\ IF risex = "none" THEN loop \in {"idle", "stopped"} /\ reports["RISEX"] = "none" ELSE loop # "idle"
    /\ risex \in RisexOver => /\ loop \notin {"idle", "submitted", "entering"}
                              /\ loop = "at_barrier" => barrier.state # "passed" /\ settled
    /\ risex \in {"returning", "exited"} /\ "RISEX" \in wrote => "risex_may" \in flags
    /\ "risex_done" \in flags => risex \in {"returning", "exited"} \/ "closed" \in flags

OwnerCaller ==
    /\ main \in Starting \cup {"cleanup_early"} => risex = "none"
    /\ main \in {"bridge", "start_nado"} => worker = "none"
    /\ main \in {"release", "cleanup"} /\ risex \in RisexOver => loop \in {"complete", "halted"}
    /\ main \in {"close", "join"} => exposed = {} /\ {"nado_done", "risex_done"} \subseteq flags
    /\ main = "join" => loop = "stopped" /\ risex = "exited"
    /\ "closed" \in flags => /\ main = "stopped" /\ exposed = {} /\ loop = "stopped"
                             /\ worker \in {"none", "exited"} /\ risex \in {"none", "exited"}

\* The way from the barrier to the first RISEx order takes no longer than the
\* margin left past the settlement: the program takes it for granted, for it
\* reads potential_write before that order leaves (orchestration:942).
WithinMargin == EntryMayOverrun = FALSE

OwnerInv == OwnerType /\ OwnerBarrier /\ OwnerNado /\ OwnerRisex /\ OwnerCaller

\* The invariant holds from the start.
LEMMA OwnerInit == F!Init => OwnerInv
BY DEF F!Init, OwnerInv, OwnerType, OwnerBarrier, OwnerNado, OwnerRisex, OwnerCaller, F!Venues, Starting,
  RisexOver, NadoIn, NadoOver

\* What an abort, and an arrival, does to the barrier.
LEMMA OwnerAbort ==
    ASSUME OwnerInv
    PROVE  /\ F!Abort \in [arrived : SUBSET F!Venues, state : {"open", "passed", "aborted"}]
           /\ F!Abort.arrived = barrier.arrived
           /\ F!Abort.state = "passed" <=> barrier.state = "passed"
BY DEF OwnerInv, OwnerType, F!Abort

LEMMA OwnerArrive ==
    ASSUME OwnerInv, NEW v \in F!Venues, F!Arrive(v)
    PROVE  /\ barrier' \in [arrived : SUBSET F!Venues, state : {"open", "passed", "aborted"}]
           /\ barrier'.state = "passed" => barrier'.arrived = F!Venues
           /\ barrier.state = "passed" => barrier'.state = "passed"
           /\ barrier'.state = "passed" => barrier.state = "passed" \/ ~settled
<1>. USE DEF OwnerInv
<1>1. CASE barrier.state = "aborted" BY <1>1 DEF F!Arrive, OwnerType
<1>2. CASE barrier.state # "aborted" /\ settled BY <1>2, OwnerAbort DEF F!Arrive, OwnerType, OwnerBarrier
<1>3. CASE barrier.state # "aborted" /\ ~settled BY <1>3 DEF F!Arrive, OwnerType, OwnerBarrier
<1>. QED BY <1>1, <1>2, <1>3

\* What each answer of the owner rests on.
LEMMA OwnerStatus ==
    /\ F!Terminal => F!Status = "BLOCKED_BEFORE_WRITE" \/ (\A v \in F!Venues : reports[v] \in {"COMPLETE", "BLOCKED"})
    /\ F!Status = "BLOCKED_BEFORE_WRITE" =>
          "nado_done" \in flags /\ "risex_done" \in flags /\ "nado_may" \notin flags /\ "risex_may" \notin flags
<1>1. {"nado_done", "risex_done"} \subseteq flags => "nado_done" \in flags /\ "risex_done" \in flags OBVIOUS
<1>2. flags \cap {"nado_may", "risex_may"} = {} => "nado_may" \notin flags /\ "risex_may" \notin flags OBVIOUS
<1>3. F!Terminal => F!Status = "BLOCKED_BEFORE_WRITE" \/ (\A v \in F!Venues : reports[v] \in {"COMPLETE", "BLOCKED"})
  BY Zenon DEF F!Terminal, F!Status
<1>4. F!Status = "BLOCKED_BEFORE_WRITE" =>
          {"nado_done", "risex_done"} \subseteq flags /\ flags \cap {"nado_may", "risex_may"} = {}
  BY Zenon DEF F!Status
<1>. QED BY <1>1, <1>2, <1>3, <1>4

\* What a terminal status says is true of the venue.
LEMMA OwnerStatusIsTrue ==
    ASSUME OwnerInv
    PROVE  /\ F!Terminal /\ F!Status # "BLOCKED_BEFORE_WRITE" => exposed = {}
           /\ F!Status = "BLOCKED_BEFORE_WRITE" => wrote = {}
<1>1. exposed \subseteq {"NADO", "RISEX"} /\ wrote \subseteq {"NADO", "RISEX"} BY DEF OwnerInv, OwnerType, F!Venues
<1>2. ASSUME F!Terminal, F!Status # "BLOCKED_BEFORE_WRITE" PROVE exposed = {}
  BY <1>2, OwnerStatus, <1>1 DEF F!Venues, OwnerInv, OwnerNado, OwnerRisex
<1>3. ASSUME F!Status = "BLOCKED_BEFORE_WRITE" PROVE wrote = {}
  BY <1>3, OwnerStatus, <1>1 DEF OwnerInv, OwnerNado, OwnerCaller, NadoIn, NadoOver, OwnerRisex
<1>. QED BY <1>2, <1>3

LEMMA OwnerTerminal ==
    ASSUME OwnerInv, F!Terminal
    PROVE  exposed = {} \/ "closed" \in flags
<1>. USE DEF OwnerInv
<1>1. F!Status # "BLOCKED_BEFORE_WRITE" => exposed = {} BY OwnerStatusIsTrue
<1>2. F!Status = "BLOCKED_BEFORE_WRITE" => wrote = {} \/ "closed" \in flags BY OwnerStatusIsTrue
<1>. QED BY <1>1, <1>2 DEF OwnerType

\* The steps of the Nado worker, of the RISEx loop and of the caller.
LEMMA OwnerNadoStep ==
    ASSUME OwnerInv, F!NadoWorker
    PROVE  OwnerInv'
<1>. USE DEF OwnerInv, F!owner, F!joint, F!worker, F!peer, F!world
<1>1. CASE F!NadoFails
  BY <1>1 DEF F!NadoFails, F!NadoEnds, F!With, NadoIn, NadoOver, OwnerType, OwnerBarrier, OwnerNado, OwnerRisex,
    OwnerCaller, OwnerInv
<1>2. CASE F!NadoBuilds
  BY <1>2 DEF F!NadoBuilds, NadoIn, NadoOver, OwnerType, OwnerBarrier, OwnerNado, OwnerRisex, OwnerCaller,
    OwnerInv
<1>3. CASE F!NadoStarts
  BY <1>3 DEF F!NadoStarts, NadoIn, NadoOver, OwnerType, OwnerBarrier, OwnerNado, OwnerRisex, OwnerCaller,
    OwnerInv
<1>4. CASE F!NadoArrives
    <2>1. /\ barrier' \in [arrived : SUBSET F!Venues, state : {"open", "passed", "aborted"}]
          /\ barrier'.state = "passed" => barrier'.arrived = F!Venues
          /\ barrier.state = "passed" => barrier'.state = "passed"
          /\ barrier'.state = "passed" => barrier.state = "passed" \/ ~settled
      BY <1>4, OwnerArrive DEF F!NadoArrives, F!Venues
    <2>. QED
      BY <1>4, <2>1 DEF F!NadoArrives, NadoIn, NadoOver, OwnerType, OwnerBarrier, OwnerNado, OwnerRisex,
        OwnerCaller, OwnerInv
<1>5. CASE F!NadoPasses
  BY <1>5 DEF F!NadoPasses, NadoIn, NadoOver, OwnerType, OwnerBarrier, OwnerNado, OwnerRisex, OwnerCaller,
    OwnerInv
<1>6. CASE F!NadoEnters
  BY <1>6 DEF F!NadoEnters, NadoIn, NadoOver, F!Venues, OwnerType, OwnerBarrier, OwnerNado, OwnerRisex,
    OwnerCaller, OwnerInv
<1>7. CASE F!HoldFails
  BY <1>7 DEF F!HoldFails, NadoIn, NadoOver, OwnerType, OwnerBarrier, OwnerNado, OwnerRisex, OwnerCaller,
    OwnerInv
<1>8. CASE F!BindExposure
  BY <1>8 DEF F!BindExposure, NadoIn, NadoOver, OwnerType, OwnerBarrier, OwnerNado, OwnerRisex, OwnerCaller,
    OwnerInv
<1>9. CASE F!BoundaryComes \/ F!Release \/ F!ReadFunding
  BY <1>9 DEF F!BoundaryComes, F!Release, F!ReadFunding, NadoIn, NadoOver, OwnerType, OwnerBarrier, OwnerNado,
    OwnerRisex, OwnerCaller, OwnerInv
<1>10. CASE F!NadoCloses
  BY <1>10 DEF F!NadoCloses, NadoIn, NadoOver, OwnerType, OwnerBarrier, OwnerNado, OwnerRisex, OwnerCaller,
    OwnerInv
<1>11. CASE F!NadoAttests
  BY <1>11 DEF F!NadoAttests, NadoIn, NadoOver, OwnerType, OwnerBarrier, OwnerNado, OwnerRisex, OwnerCaller,
    OwnerInv
<1>12. CASE F!NadoReports
    <2>10. OwnerType'
      BY <1>12 DEF F!NadoReports, F!NadoEnds, F!With, NadoIn, NadoOver, F!Venues, OwnerType, OwnerBarrier,
        OwnerNado, OwnerRisex, OwnerCaller
    <2>20. OwnerBarrier'
      BY <1>12 DEF F!NadoReports, F!NadoEnds, F!With, NadoIn, NadoOver, F!Venues, OwnerType, OwnerBarrier,
        OwnerNado, OwnerRisex, OwnerCaller
    <2>30. OwnerNado'
      BY <1>12 DEF F!NadoReports, F!NadoEnds, F!With, NadoIn, NadoOver, F!Venues, OwnerType, OwnerBarrier,
        OwnerNado, OwnerRisex, OwnerCaller
    <2>40. OwnerRisex'
      BY <1>12 DEF F!NadoReports, F!NadoEnds, F!With, NadoIn, NadoOver, F!Venues, OwnerType, OwnerBarrier,
        OwnerNado, OwnerRisex, OwnerCaller
    <2>50. OwnerCaller'
      BY <1>12 DEF F!NadoReports, F!NadoEnds, F!With, NadoIn, NadoOver, F!Venues, OwnerType, OwnerBarrier,
        OwnerNado, OwnerRisex, OwnerCaller
    <2>. QED BY <1>12, <2>10, <2>20, <2>30, <2>40, <2>50 DEF OwnerInv
<1>13. CASE F!NadoFinally
    <2>1. barrier' = barrier \/ barrier' = F!Abort BY <1>13 DEF F!NadoFinally
    <2>2. /\ worker = "ending" /\ worker' \in {"await_close", "exited"}
          /\ flags' = F!With(flags \cup {"nado_done"}, "nado_may", "manual" \in flags \/ "NADO" \in wrote)
          /\ UNCHANGED <<settled, F!owner, gates, aborting, blocked, F!peer, reports, F!world>>
      BY <1>13 DEF F!NadoFinally
    <2>3. /\ "nado_done" \in flags' /\ ("NADO" \in wrote => "nado_may" \in flags')
          /\ \A f \in F!Flags : f \notin {"nado_done", "nado_may"} => (f \in flags' <=> f \in flags)
      BY <2>2 DEF F!With
    <2>4. OwnerType' /\ OwnerBarrier' BY <2>1, <2>2, OwnerAbort DEF OwnerType, OwnerBarrier
    <2>. QED
        <3>10. OwnerNado'
          BY <2>1, <2>2, <2>3, <2>4, OwnerAbort DEF NadoIn, NadoOver, F!Flags, OwnerType, OwnerBarrier,
            OwnerNado, OwnerRisex, OwnerCaller
        <3>20. OwnerRisex'
          BY <2>1, <2>2, <2>3, <2>4, OwnerAbort DEF NadoIn, NadoOver, F!Flags, OwnerType, OwnerBarrier,
            OwnerNado, OwnerRisex, OwnerCaller
        <3>30. OwnerCaller'
          BY <2>1, <2>2, <2>3, <2>4, OwnerAbort DEF NadoIn, NadoOver, F!Flags, OwnerType, OwnerBarrier,
            OwnerNado, OwnerRisex, OwnerCaller
        <3>. QED BY <2>1, <2>2, <2>3, <2>4, OwnerAbort, <3>10, <3>20, <3>30 DEF OwnerInv
<1>14. CASE F!NadoCloseStore
  BY <1>14 DEF F!NadoCloseStore, NadoIn, NadoOver, OwnerType, OwnerBarrier, OwnerNado, OwnerRisex, OwnerCaller,
    OwnerInv
<1>. QED BY <1>1, <1>2, <1>3, <1>4, <1>5, <1>6, <1>7, <1>8, <1>9, <1>10, <1>11, <1>12, <1>13, <1>14 DEF F!NadoWorker

LEMMA OwnerRisexStep ==
    ASSUME WithinMargin, OwnerInv, F!RisexThreads
    PROVE  OwnerInv'
<1>. USE DEF WithinMargin, OwnerInv, F!owner, F!joint, F!worker, F!peer, F!world
<1>1. CASE F!RisexArrives
    <2>1. /\ barrier' \in [arrived : SUBSET F!Venues, state : {"open", "passed", "aborted"}]
          /\ barrier'.state = "passed" => barrier'.arrived = F!Venues
          /\ barrier.state = "passed" => barrier'.state = "passed"
      BY <1>1, OwnerArrive DEF F!RisexArrives, F!Venues
    <2>. QED
      BY <1>1, <2>1 DEF F!RisexArrives, RisexOver, OwnerType, OwnerBarrier, OwnerNado, OwnerRisex, OwnerCaller,
        OwnerInv
<1>2. CASE F!RisexPasses
  BY <1>2 DEF F!RisexPasses, RisexOver, OwnerType, OwnerBarrier, OwnerNado, OwnerRisex, OwnerCaller, OwnerInv
<1>3. CASE F!RisexEnters
  BY <1>3 DEF F!RisexEnters, RisexOver, F!Venues, OwnerType, OwnerBarrier, OwnerNado, OwnerRisex, OwnerCaller,
    OwnerInv
<1>4. CASE F!RisexHolds \/ F!RisexReleased
  BY <1>4 DEF F!RisexHolds, F!RisexReleased, RisexOver, OwnerType, OwnerBarrier, OwnerNado, OwnerRisex,
    OwnerCaller, OwnerInv
<1>5. CASE F!RisexExits
  BY <1>5 DEF F!RisexExits, RisexOver, OwnerType, OwnerBarrier, OwnerNado, OwnerRisex, OwnerCaller, OwnerInv
<1>6. CASE F!RisexHalts
  BY <1>6 DEF F!RisexHalts, RisexOver, OwnerType, OwnerBarrier, OwnerNado, OwnerRisex, OwnerCaller, OwnerInv
<1>7. CASE F!LifecycleEnds
  BY <1>7 DEF F!LifecycleEnds, RisexOver, F!Venues, OwnerType, OwnerBarrier, OwnerNado, OwnerRisex, OwnerCaller,
    OwnerInv
<1>8. CASE F!RisexFinally
    <2>1. barrier' = barrier \/ barrier' = F!Abort BY <1>8 DEF F!RisexFinally
    <2>2. /\ risex = "ending" /\ risex' = "returning"
          /\ flags' = F!With(flags \cup {"risex_done"}, "risex_may", F!RisexMay)
          /\ UNCHANGED <<settled, F!owner, F!worker, loop, reports, F!world>>
      BY <1>8 DEF F!RisexFinally
    <2>3. /\ "risex_done" \in flags' /\ ("RISEX" \in wrote => "risex_may" \in flags')
          /\ \A f \in F!Flags : f \notin {"risex_done", "risex_may"} => (f \in flags' <=> f \in flags)
      BY <2>2 DEF F!With, F!RisexMay
    <2>4. OwnerType' /\ OwnerBarrier' BY <2>1, <2>2, OwnerAbort DEF OwnerType, OwnerBarrier
    <2>. QED
        <3>10. OwnerNado'
          BY <2>1, <2>2, <2>3, <2>4, OwnerAbort DEF RisexOver, F!Flags, OwnerType, OwnerBarrier, OwnerNado,
            OwnerRisex, OwnerCaller
        <3>20. OwnerRisex'
          BY <2>1, <2>2, <2>3, <2>4, OwnerAbort DEF RisexOver, F!Flags, OwnerType, OwnerBarrier, OwnerNado,
            OwnerRisex, OwnerCaller
        <3>30. OwnerCaller'
          BY <2>1, <2>2, <2>3, <2>4, OwnerAbort DEF RisexOver, F!Flags, OwnerType, OwnerBarrier, OwnerNado,
            OwnerRisex, OwnerCaller
        <3>. QED BY <2>1, <2>2, <2>3, <2>4, OwnerAbort, <3>10, <3>20, <3>30 DEF OwnerInv
<1>9. CASE F!RisexReturns
  BY <1>9 DEF F!RisexReturns, RisexOver, OwnerType, OwnerBarrier, OwnerNado, OwnerRisex, OwnerCaller, OwnerInv
<1>. QED BY <1>1, <1>2, <1>3, <1>4, <1>5, <1>6, <1>7, <1>8, <1>9 DEF F!RisexThreads

LEMMA OwnerCallerStep ==
    ASSUME OwnerInv, F!Caller
    PROVE  OwnerInv'
<1>. USE DEF OwnerInv, F!owner, F!joint, F!worker, F!peer, F!world
<1>1. CASE F!Start
    <2>10. OwnerType'
      BY <1>1 DEF F!Start, F!StartSteps, Starting, RisexOver, NadoIn, NadoOver, OwnerType, OwnerBarrier,
        OwnerNado, OwnerRisex, OwnerCaller
    <2>20. OwnerBarrier'
      BY <1>1 DEF F!Start, F!StartSteps, Starting, RisexOver, NadoIn, NadoOver, OwnerType, OwnerBarrier,
        OwnerNado, OwnerRisex, OwnerCaller
    <2>30. OwnerNado'
      BY <1>1 DEF F!Start, F!StartSteps, Starting, RisexOver, NadoIn, NadoOver, OwnerType, OwnerBarrier,
        OwnerNado, OwnerRisex, OwnerCaller
    <2>40. OwnerRisex'
      BY <1>1 DEF F!Start, F!StartSteps, Starting, RisexOver, NadoIn, NadoOver, OwnerType, OwnerBarrier,
        OwnerNado, OwnerRisex, OwnerCaller
    <2>50. OwnerCaller'
      BY <1>1 DEF F!Start, F!StartSteps, Starting, RisexOver, NadoIn, NadoOver, OwnerType, OwnerBarrier,
        OwnerNado, OwnerRisex, OwnerCaller
    <2>. QED BY <1>1, <2>10, <2>20, <2>30, <2>40, <2>50 DEF OwnerInv
<1>2. CASE F!StartFails
  BY <1>2, OwnerAbort DEF F!StartFails, Starting, RisexOver, OwnerType, OwnerBarrier, OwnerNado, OwnerRisex,
    OwnerCaller, OwnerInv
<1>3. CASE F!Cleanup
    <2>0. main \in {"cleanup", "cleanup_early"} /\ main' = "stopped"
          /\ UNCHANGED <<settled, barrier, worker, risex, reports, wrote, exposed>>
      BY <1>3 DEF F!Cleanup, F!Ends
    <2>1. CASE F!Alive
        <3>1. /\ loop' = loop
              /\ \A f \in F!Flags : f \notin {"manual", "nado_may", "risex_may"} => (f \in flags' <=> f \in flags)
              /\ "nado_may" \in flags => "nado_may" \in flags'
              /\ risex # "none" => "risex_may" \in flags'
          BY <1>3, <2>1 DEF F!Cleanup, F!With, F!Flags
        <3>10. OwnerType'
          BY <2>0, <2>1, <3>1 DEF Starting, F!Flags, OwnerType, OwnerBarrier, OwnerNado, OwnerRisex,
            OwnerCaller
        <3>20. OwnerBarrier'
          BY <2>0, <2>1, <3>1 DEF Starting, F!Flags, OwnerType, OwnerBarrier, OwnerNado, OwnerRisex,
            OwnerCaller
        <3>30. OwnerNado'
          BY <2>0, <2>1, <3>1 DEF Starting, F!Flags, OwnerType, OwnerBarrier, OwnerNado, OwnerRisex,
            OwnerCaller
        <3>40. OwnerRisex'
          BY <2>0, <2>1, <3>1 DEF Starting, F!Flags, OwnerType, OwnerBarrier, OwnerNado, OwnerRisex,
            OwnerCaller
        <3>50. OwnerCaller'
          BY <2>0, <2>1, <3>1 DEF Starting, F!Flags, OwnerType, OwnerBarrier, OwnerNado, OwnerRisex,
            OwnerCaller
        <3>. QED BY <2>0, <2>1, <3>1, <3>10, <3>20, <3>30, <3>40, <3>50 DEF OwnerInv
    <2>2. CASE ~F!Alive /\ loop' = loop /\ flags' = flags \cup {"manual", "nado_may"}
      BY <2>0, <2>2 DEF Starting, OwnerType, OwnerBarrier, OwnerNado, OwnerRisex, OwnerCaller, OwnerInv
    <2>3. CASE ~F!Alive /\ loop' = loop /\ flags' = F!With(flags, "risex_may", F!RisexMay)
      BY <2>3, <2>0 DEF F!With, F!RisexMay, F!Flags, Starting, OwnerType, OwnerBarrier, OwnerNado, OwnerRisex,
        OwnerCaller, OwnerInv
    <2>4. CASE /\ ~F!Alive /\ "nado_may" \notin flags /\ ~F!RisexMay
               /\ flags' = flags \cup {"closed", "nado_done", "risex_done"}
               /\ loop' = IF loop \in {"idle", "complete", "halted"} THEN "stopped" ELSE loop
        <3>1. worker \in {"none", "exited"} /\ risex \in {"none", "exited"} /\ "RISEX" \notin wrote
          BY <2>4 DEF F!Alive, F!RisexMay
        <3>2. "NADO" \notin wrote BY <2>4, <3>1 DEF OwnerNado, NadoIn, NadoOver
        <3>3. wrote = {} /\ exposed = {} BY <3>1, <3>2 DEF OwnerType, F!Venues
        <3>4. loop \in {"idle", "complete", "halted", "stopped"}
          BY <2>0, <3>1 DEF OwnerRisex, OwnerCaller, RisexOver
        <3>5. loop' = "stopped" BY <2>4, <3>4
        <3>10. OwnerType'
          BY <2>0, <2>4, <3>1, <3>3, <3>4, <3>5 DEF Starting, OwnerType, OwnerBarrier, OwnerNado, OwnerRisex,
            OwnerCaller
        <3>20. OwnerBarrier'
          BY <2>0, <2>4, <3>1, <3>3, <3>4, <3>5 DEF Starting, OwnerType, OwnerBarrier, OwnerNado, OwnerRisex,
            OwnerCaller
        <3>30. OwnerNado'
          BY <2>0, <2>4, <3>1, <3>3, <3>4, <3>5 DEF Starting, OwnerType, OwnerBarrier, OwnerNado, OwnerRisex,
            OwnerCaller
        <3>40. OwnerRisex'
          BY <2>0, <2>4, <3>1, <3>3, <3>4, <3>5 DEF Starting, OwnerType, OwnerBarrier, OwnerNado, OwnerRisex,
            OwnerCaller
        <3>50. OwnerCaller'
          BY <2>0, <2>4, <3>1, <3>3, <3>4, <3>5 DEF Starting, OwnerType, OwnerBarrier, OwnerNado, OwnerRisex,
            OwnerCaller
        <3>. QED BY <2>0, <2>4, <3>1, <3>3, <3>4, <3>5, <3>10, <3>20, <3>30, <3>40, <3>50 DEF OwnerInv
    <2>. QED BY <1>3, <2>1, <2>2, <2>3, <2>4 DEF F!Cleanup
<1>4. CASE F!Retrieve
    <2>1. main = "retrieve" /\ UNCHANGED <<settled, barrier, worker, risex, loop, flags, reports, wrote, exposed>>
      BY <1>4 DEF F!Retrieve
    <2>2. /\ main' = "stopped" \/ (main' = "close" /\ exposed = {})
          /\ {"nado_done", "risex_done"} \subseteq flags
      BY <1>4, <2>1, OwnerTerminal DEF F!Retrieve, F!Ends, OwnerCaller
    <2>. QED
        <3>1. OwnerType' /\ OwnerBarrier' /\ OwnerNado' /\ OwnerRisex'
          BY <2>1 DEF OwnerType, OwnerBarrier, OwnerNado, OwnerRisex
        <3>2. OwnerCaller' BY <2>1, <2>2 DEF OwnerCaller, Starting
        <3>. QED BY <3>1, <3>2
<1>5. CASE F!Interrupted
  BY <1>5, OwnerAbort DEF F!Interrupted, F!Ends, Starting, OwnerType, OwnerBarrier, OwnerNado, OwnerRisex,
    OwnerCaller, OwnerInv
<1>6. CASE F!Close
    <2>0. main = "close" /\ UNCHANGED <<settled, barrier, worker, risex, reports, wrote, exposed>>
      BY <1>6 DEF F!Close
    <2>1. CASE main' = "stopped" /\ loop' = loop /\ flags' = flags
      BY <2>0, <2>1 DEF Starting, OwnerType, OwnerBarrier, OwnerNado, OwnerRisex, OwnerCaller, OwnerInv
    <2>2. CASE main' = "stopped" /\ loop' = loop /\ flags' = flags \cup {"manual", "risex_may"}
      BY <2>0, <2>2 DEF Starting, OwnerType, OwnerBarrier, OwnerNado, OwnerRisex, OwnerCaller, OwnerInv
    <2>3. CASE main' = "join" /\ loop' = "stopped" /\ flags' = flags /\ risex = "exited"
               /\ loop \in {"complete", "halted"}
      BY <2>0, <2>3 DEF Starting, RisexOver, OwnerType, OwnerBarrier, OwnerNado, OwnerRisex, OwnerCaller,
        OwnerInv
    <2>. QED BY <1>6, <2>1, <2>2, <2>3 DEF F!Close, F!Ends
<1>7. CASE F!Join
    <2>1. CASE "store_closed" \in flags
      BY <1>7, <2>1 DEF F!Join, F!Ends, Starting, OwnerType, OwnerBarrier, OwnerNado, OwnerRisex, OwnerCaller,
        OwnerInv
    <2>2. CASE "store_closed" \notin flags
      BY <1>7, <2>2 DEF F!Join, F!Ends, Starting, OwnerType, OwnerBarrier, OwnerNado, OwnerRisex, OwnerCaller,
        OwnerInv
    <2>. QED BY <2>1, <2>2
<1>. QED BY <1>1, <1>2, <1>3, <1>4, <1>5, <1>6, <1>7 DEF F!Caller

LEMMA OwnerStep == ASSUME WithinMargin PROVE OwnerInv /\ [F!Next]_(F!vars) => OwnerInv'
<1>1. ASSUME OwnerInv, [F!Next]_(F!vars) PROVE OwnerInv'
    <2>1. CASE F!Settles
        <3>10. OwnerType'
          BY <1>1, <2>1 DEF F!Settles, F!owner, F!joint, F!worker, F!peer, F!world, OwnerType, OwnerBarrier,
            OwnerNado, OwnerRisex, OwnerCaller, OwnerInv
        <3>20. OwnerBarrier'
          BY <1>1, <2>1 DEF F!Settles, F!owner, F!joint, F!worker, F!peer, F!world, OwnerType, OwnerBarrier,
            OwnerNado, OwnerRisex, OwnerCaller, OwnerInv
        <3>30. OwnerNado'
          BY <1>1, <2>1 DEF F!Settles, F!owner, F!joint, F!worker, F!peer, F!world, OwnerType, OwnerBarrier,
            OwnerNado, OwnerRisex, OwnerCaller, OwnerInv
        <3>40. OwnerRisex'
          BY <1>1, <2>1 DEF F!Settles, F!owner, F!joint, F!worker, F!peer, F!world, OwnerType, OwnerBarrier,
            OwnerNado, OwnerRisex, OwnerCaller, OwnerInv
        <3>50. OwnerCaller'
          BY <1>1, <2>1 DEF F!Settles, F!owner, F!joint, F!worker, F!peer, F!world, OwnerType, OwnerBarrier,
            OwnerNado, OwnerRisex, OwnerCaller, OwnerInv
        <3>. QED BY <1>1, <2>1, <3>10, <3>20, <3>30, <3>40, <3>50 DEF OwnerInv
    <2>2. CASE UNCHANGED F!vars
        <3>10. OwnerType'
          BY <1>1, <2>2 DEF F!vars, F!owner, F!joint, F!worker, F!peer, F!world, OwnerType, OwnerBarrier,
            OwnerNado, OwnerRisex, OwnerCaller, OwnerInv
        <3>20. OwnerBarrier'
          BY <1>1, <2>2 DEF F!vars, F!owner, F!joint, F!worker, F!peer, F!world, OwnerType, OwnerBarrier,
            OwnerNado, OwnerRisex, OwnerCaller, OwnerInv
        <3>30. OwnerNado'
          BY <1>1, <2>2 DEF F!vars, F!owner, F!joint, F!worker, F!peer, F!world, OwnerType, OwnerBarrier,
            OwnerNado, OwnerRisex, OwnerCaller, OwnerInv
        <3>40. OwnerRisex'
          BY <1>1, <2>2 DEF F!vars, F!owner, F!joint, F!worker, F!peer, F!world, OwnerType, OwnerBarrier,
            OwnerNado, OwnerRisex, OwnerCaller, OwnerInv
        <3>50. OwnerCaller'
          BY <1>1, <2>2 DEF F!vars, F!owner, F!joint, F!worker, F!peer, F!world, OwnerType, OwnerBarrier,
            OwnerNado, OwnerRisex, OwnerCaller, OwnerInv
        <3>. QED BY <1>1, <2>2, <3>10, <3>20, <3>30, <3>40, <3>50 DEF OwnerInv
    <2>. QED BY <1>1, <2>1, <2>2, OwnerNadoStep, OwnerRisexStep, OwnerCallerStep DEF F!Next
<1>. QED BY <1>1

LEMMA OwnerInvariant == ASSUME WithinMargin PROVE F!Spec => []OwnerInv
BY OwnerStep, OwnerInit, PTL DEF F!Spec

LEMMA OwnerTells == OwnerInv => F!OwnerIsTrue
<1>. SUFFICES ASSUME OwnerInv PROVE F!OwnerIsTrue OBVIOUS
<1>. USE DEF OwnerInv
<1>1. F!Terminal /\ F!Status # "BLOCKED_BEFORE_WRITE" => exposed = {} BY OwnerStatusIsTrue
<1>2. "closed" \in flags /\ F!Status = "BLOCKED_BEFORE_WRITE" => wrote = {} BY OwnerStatusIsTrue
<1>3. wrote # {} => barrier.arrived = F!Venues BY DEF OwnerBarrier
<1>. QED BY <1>1, <1>2, <1>3 DEF F!OwnerIsTrue, OwnerCaller

\* What the owner of a RISEx and a Nado run reports is true of both, whichever of
\* its threads fails, waits or is late.
THEOREM OwnerCorrect == ASSUME WithinMargin PROVE F!Spec => []F!OwnerIsTrue
BY OwnerInvariant, OwnerTells, PTL

-----------------------------------------------------------------------------
(* The sealed Extended lifecycle.                                          *)

SealedOrder == [at : {"unsent", "flying", "lost", "open", "done"}, filled : 0..Lots]
Whole == [at |-> "done", filled |-> Lots]
Void  == [at |-> "done", filled |-> 0]
Names == {"none", "PREPARED", "CLAIMED", "ACCEPTED", "REJECTED", "AMBIGUOUS", "RECONCILED",
          "NO_FILL"}

SealedType ==
    /\ xOrders \in [X!Sides -> SealedOrder]
    /\ views \subseteq [X!Sides -> SealedOrder]
    /\ xIntents \in [X!Sides \cup {"CANCEL"} -> Names]
    /\ xCur \in X!Sides

\* What an observation showed as ended stays as it was shown.
ViewsKept == \A v \in views, k \in X!Sides : v[k].at = "done" => xOrders[k] = v[k]

\* What the store says of an order is how it ended.
IntentsTrue ==
    /\ xIntents["ENTRY"] = "NO_FILL" => xOrders["ENTRY"] = Void
    /\ \A k \in X!Sides : xIntents[k] = "RECONCILED" => xOrders[k] = Whole

\* Where the close is, the entry was filled.
CloseAfter ==
    /\ xCur = "CLOSE" => xOrders["ENTRY"] = Whole
    /\ xOrders["CLOSE"] # X!Unsent => xCur = "CLOSE"
    /\ \A k \in X!Sides : xOrders[k].at \in {"unsent", "flying", "lost"} => xOrders[k].filled = 0

SealedOver == \/ xOrders["ENTRY"] = Void /\ xOrders["CLOSE"] = X!Unsent
              \/ xOrders["ENTRY"] = Whole /\ xOrders["CLOSE"] = Whole

Cancelling == {"cancel", "claim_cancel", "send_cancel", "cancel_answer", "cancelled",
               "recover_cancel", "cancel_over", "cancel_recovered"}
Barred == {"barrier", "round_1", "round_2", "report"}

\* Behind the barrier both orders have ended and net to nothing.
BarrierInv ==
    /\ xPc \in Cancelling => xCur = "ENTRY"
    /\ xPc \in {"cancel_over", "cancel_recovered"} => xIntents["ENTRY"] = "NO_FILL"
    /\ xPc \in Barred =>
           \/ xIntents["ENTRY"] = "NO_FILL" /\ xCur = "ENTRY" /\ xOrders["ENTRY"] = Void
           \/ xIntents["ENTRY"] # "NO_FILL" /\ xCur = "CLOSE" /\ xOrders["CLOSE"] = Whole
    /\ xLifecycle = <<"COMPLETE">> => SealedOver
    /\ xReport = "none" \/ SealedOver
    /\ xReport = "NO_FILL" => xOrders["ENTRY"] = Void
    /\ xReport = "SUCCESS" => xOrders["ENTRY"] = Whole

SealedInv == SealedType /\ ViewsKept /\ IntentsTrue /\ CloseAfter /\ BarrierInv

USE LotsAssumption

\* The invariant holds from the start.
LEMMA SealedInit == X!Init => SealedInv
BY DEF X!Init, X!VenueInit, SealedInv, SealedType, ViewsKept, IntentsTrue, CloseAfter, BarrierInv,
  SealedOrder, Names, X!Unsent, X!Sides, Whole, Void, Barred, Cancelling

\* An order that has ended does not change, and one that changes goes on.
SealedMoves ==
    /\ xOrders' \in [X!Sides -> SealedOrder]
    /\ \A k \in X!Sides : xOrders[k].at = "done" => xOrders'[k] = xOrders[k]
    /\ \A k \in X!Sides : xOrders'[k].at \in {"unsent", "flying", "lost"} => xOrders'[k].filled = 0

\* What the venue does to an order, and the steps that only let it.
LEMMA MovesKeep ==
    ASSUME SealedInv, SealedMoves, views' = {} \/ views' = views \cup {xOrders'},
           UNCHANGED <<xIntents, xCur, xPc, xLifecycle, xReport>>,
           xOrders'["CLOSE"] # X!Unsent => xOrders["CLOSE"] # X!Unsent \/ xCur = "CLOSE"
    PROVE  SealedInv'
<1>. USE DEF SealedInv, SealedMoves, X!Sides
<1>1. SealedType' BY DEF SealedType
<1>2. ViewsKept' BY DEF ViewsKept, SealedType
<1>3. \A k \in X!Sides : (xOrders[k] = Whole => xOrders'[k] = Whole) /\ (xOrders[k] = Void => xOrders'[k] = Void)
  BY DEF Whole, Void
<1>4. IntentsTrue' /\ CloseAfter' BY <1>3 DEF IntentsTrue, CloseAfter
<1>5. SealedOver => SealedOver' BY <1>3 DEF SealedOver, CloseAfter, Void, Whole
<1>6. BarrierInv' BY <1>3, <1>5 DEF BarrierInv
<1>. QED BY <1>1, <1>2, <1>4, <1>6

LEMMA SealedVenueStep ==
    ASSUME SealedInv, X!VenueNext, UNCHANGED <<X!store, journal, xReport, xPc, xCur, reads>>
    PROVE  SealedInv'
<1>. USE DEF SealedInv, X!store
<1>0. \A k \in X!Sides : xOrders[k] \in SealedOrder /\ xOrders[k].filled \in 0..Lots BY DEF SealedType, SealedOrder
<1>1. ASSUME NEW k \in X!Sides, X!Rests(k) PROVE SealedInv'
  BY <1>1, <1>0, MovesKeep DEF X!Rests, X!Becomes, SealedOrder, SealedMoves, SealedType, CloseAfter, X!Unsent,
    X!Sides
<1>2. ASSUME NEW k \in X!Sides, X!Executes(k) PROVE SealedInv'
    <2>0. X!Position(xOrders) \in 0..Lots \/ k = "ENTRY" \/ xOrders["CLOSE"] = X!Unsent
      BY <1>0 DEF CloseAfter, X!Position, Whole, X!Sides
    <2>1. PICK n \in 0..Lots :
              /\ xOrders' = [xOrders EXCEPT ![k] = [at |-> "done", filled |-> n]]
              /\ views' = {} \/ views' = views \cup {xOrders'}
        <3>1. PICK n \in 0..(IF k = "ENTRY" THEN Lots ELSE X!Position(xOrders)) :
                  /\ xOrders' = [xOrders EXCEPT ![k] = [at |-> "done", filled |-> n]]
                  /\ views' = {} \/ views' = views \cup {xOrders'}
          BY <1>2 DEF X!Executes, X!Becomes
        <3>2. k = "ENTRY" \/ (k = "CLOSE" /\ X!Position(xOrders) \in 0..Lots)
          BY <1>2, <2>0 DEF X!Executes, X!Able, X!Unsent, X!Sides
        <3>3. n \in 0..Lots BY <3>2
        <3>. QED BY <3>1, <3>3
    <2>2. [at |-> "done", filled |-> n] \in SealedOrder /\ xOrders[k].at \in {"open", "flying"}
      BY <1>2 DEF SealedOrder, X!Executes, X!Able
    <2>3. SealedMoves BY <1>0, <2>1, <2>2 DEF SealedMoves, SealedType, CloseAfter
    <2>4. xOrders'["CLOSE"] # X!Unsent => xOrders["CLOSE"] # X!Unsent \/ xCur = "CLOSE"
      BY <2>1, <2>2 DEF X!Unsent, SealedType, X!Sides
    <2>. QED BY <1>2, <2>1, <2>3, <2>4, MovesKeep DEF X!Executes
<1>3. ASSUME NEW k \in X!Sides, X!Expires(k) PROVE SealedInv'
  BY <1>3 DEF X!Expires, SealedType, ViewsKept, IntentsTrue, CloseAfter, BarrierInv, SealedOver
<1>4. ASSUME X!CancelActs PROVE SealedInv'
    <2>1. CASE xOrders["ENTRY"].at = "open"
      BY <1>4, <2>1, <1>0, MovesKeep DEF X!CancelActs, X!Becomes, Void, SealedOrder, SealedMoves, SealedType,
        CloseAfter, X!Sides
    <2>2. CASE xOrders["ENTRY"].at # "open"
      BY <1>4, <2>2 DEF X!CancelActs, SealedType, ViewsKept, IntentsTrue, CloseAfter, BarrierInv, SealedOver
    <2>. QED BY <2>1, <2>2
<1>. QED BY <1>1, <1>2, <1>3, <1>4 DEF X!VenueNext

LEMMA SealedSends == ASSUME SealedInv, X!Sends PROVE SealedInv'
<1>. USE DEF SealedInv
<1>1. PICK at \in {"flying", "lost"} :
          /\ xOrders' = [xOrders EXCEPT ![xCur] = [at |-> at, filled |-> 0]]
          /\ views' = {} \/ views' = views \cup {xOrders'}
          /\ xOrders[xCur] = X!Unsent /\ xPc = "send" /\ xPc' = "answer"
          /\ UNCHANGED <<xIntents, xCur, xLifecycle, xReport>>
  BY DEF X!Sends, X!Leaves, X!Becomes, X!store
<1>2. [at |-> at, filled |-> 0] \in SealedOrder /\ xCur \in X!Sides BY DEF SealedOrder, SealedType
<1>3. SealedMoves BY <1>1, <1>2 DEF SealedMoves, SealedType, CloseAfter, X!Unsent
<1>4. \A k \in X!Sides : k # xCur => xOrders'[k] = xOrders[k] BY <1>1, <1>2 DEF SealedType
<1>5. SealedType' /\ ViewsKept' BY <1>1, <1>3 DEF SealedType, ViewsKept, SealedMoves
<1>6. \A k \in X!Sides : (xOrders[k] = Whole => xOrders'[k] = Whole) /\ (xOrders[k] = Void => xOrders'[k] = Void)
  BY <1>3 DEF Whole, Void, SealedMoves
<1>7. IntentsTrue' /\ CloseAfter' BY <1>1, <1>3, <1>4, <1>6 DEF IntentsTrue, CloseAfter, X!Sides, SealedMoves
<1>8. ~SealedOver BY <1>1 DEF SealedOver, X!Unsent, Void, Whole, CloseAfter, SealedType, X!Sides
<1>9. BarrierInv' BY <1>1, <1>6, <1>8 DEF BarrierInv, Barred, Cancelling
<1>. QED BY <1>5, <1>7, <1>9

\* What leaves the venue, the views and the entries of both orders alone.
LEMMA SealedQuiet ==
    ASSUME SealedInv, UNCHANGED xOrders, views' \in {{}, {xOrders}, views},
           xIntents' \in [X!Sides \cup {"CANCEL"} -> Names], UNCHANGED xCur,
           \A k \in X!Sides : xIntents'[k] = xIntents[k] \/ xIntents'[k] \notin {"NO_FILL", "RECONCILED"},
           xLifecycle' = <<"COMPLETE">> => SealedOver,
           xIntents'["ENTRY"] = "NO_FILL" => xIntents["ENTRY"] = "NO_FILL",
           \/ xPc' \notin Barred \cup Cancelling
           \/ xPc' = xPc /\ (xIntents["ENTRY"] = "NO_FILL" => xIntents'["ENTRY"] = "NO_FILL")
           \/ xPc' \in Cancelling \ {"cancel_over", "cancel_recovered"} /\ xCur = "ENTRY",
           UNCHANGED xReport
    PROVE  SealedInv'
BY DEF SealedInv, SealedType, ViewsKept, IntentsTrue, CloseAfter, BarrierInv, SealedOver, X!Sides, Barred,
  Cancelling

\* A row that has ended is the order as it stays.
LEMMA RowsEnded ==
    ASSUME SealedInv, NEW k \in X!Sides, NEW v \in views
    PROVE  /\ X!Row(v, k) = "FILLED" => xOrders[k] = Whole
           /\ X!Row(v, k) = "CANCELLED" => xOrders[k] = Void
<1>1. v[k] \in SealedOrder BY DEF SealedInv, SealedType
<1>2. X!Row(v, k) \in {"FILLED", "CANCELLED"} => v[k].at = "done" BY <1>1 DEF X!Row, SealedOrder
<1>3. /\ X!Row(v, k) = "FILLED" => v[k] = Whole
      /\ X!Row(v, k) = "CANCELLED" => v[k] = Void
  BY <1>1, <1>2 DEF X!Row, SealedOrder, Whole, Void
<1>. QED BY <1>2, <1>3 DEF SealedInv, ViewsKept

\* An order the program calls filled or unfilled has ended so.
LEMMA ClassifiedEnded ==
    ASSUME SealedInv
    PROVE  /\ X!Classified("FILLED") => xOrders[xCur] = Whole
           /\ X!Classified("NO_FILL") => xOrders[xCur] = Void
BY RowsEnded DEF SealedInv, SealedType, X!Classified

\* The steps that ask, and those that conclude.
LEMMA SealedAsks ==
    ASSUME SealedInv,
           \/ X!Begins \/ X!Fails \/ X!Prepares \/ X!Claims \/ X!BindsSigned \/ X!Answered \/ X!Observes
           \/ X!Discovers \/ X!StillOpen \/ X!PreparesCancel \/ X!ClaimsCancel \/ X!SendsCancel
           \/ X!CancelAnswered
    PROVE  SealedInv'
<1>. USE DEF X!Goes, X!Marked, X!store, X!venue, Cancelling, Barred
<1>0. /\ xIntents \in [X!Sides \cup {"CANCEL"} -> Names] /\ xCur \in X!Sides
      /\ xLifecycle = <<"COMPLETE">> => SealedOver
      /\ xPc \in Cancelling => xCur = "ENTRY"
  BY DEF SealedInv, SealedType, BarrierInv
<1>1. CASE X!Begins BY <1>0, <1>1, SealedQuiet DEF X!Begins
<1>2. CASE X!Fails
    <2>1. xLifecycle' = <<"COMPLETE">> => SealedOver BY <1>2, <1>0 DEF X!Fails
    <2>. QED BY <1>0, <1>2, <2>1, SealedQuiet DEF X!Fails
<1>3. CASE X!Prepares BY <1>0, <1>3, SealedQuiet DEF X!Prepares, Names, X!Sides
<1>4. CASE X!Claims BY <1>0, <1>4, SealedQuiet DEF X!Claims, Names, X!Sides
<1>5. CASE X!BindsSigned BY <1>0, <1>5, SealedQuiet DEF X!BindsSigned
<1>6. CASE X!Answered BY <1>0, <1>6, SealedQuiet DEF X!Answered, Names, X!Sides
<1>7. CASE X!Observes BY <1>0, <1>7, SealedQuiet DEF X!Observes
<1>8. CASE X!Discovers BY <1>0, <1>8, SealedQuiet DEF X!Discovers, Names, X!Sides
<1>9. CASE X!StillOpen BY <1>0, <1>9, SealedQuiet DEF X!StillOpen
<1>10. CASE X!PreparesCancel BY <1>0, <1>10, SealedQuiet DEF X!PreparesCancel, Names, X!Sides
<1>11. CASE X!ClaimsCancel BY <1>0, <1>11, SealedQuiet DEF X!ClaimsCancel, Names, X!Sides
<1>12. CASE X!SendsCancel BY <1>0, <1>12, SealedQuiet DEF X!SendsCancel, X!CancelLeaves
<1>13. CASE X!CancelAnswered BY <1>0, <1>13, SealedQuiet DEF X!CancelAnswered, Names, X!Sides
<1>. QED BY <1>1, <1>2, <1>3, <1>4, <1>5, <1>6, <1>7, <1>8, <1>9, <1>10, <1>11, <1>12, <1>13

LEMMA SealedConcludes ==
    ASSUME SealedInv,
           \/ X!ReadsAgain \/ X!IsFilled \/ X!IsUnfilled \/ X!IsCancelled \/ X!CancelOver
           \/ X!PastExpiry \/ X!FirstRound \/ X!SecondRound \/ X!Reports
    PROVE  SealedInv'
<1>. USE DEF SealedInv, X!Goes, X!Marked, X!store, X!venue
<1>1. UNCHANGED xOrders /\ views' = {}
    <2>1. CASE X!ReadsAgain \/ X!IsFilled BY <2>1 DEF X!ReadsAgain, X!IsFilled
    <2>2. CASE X!IsUnfilled \/ X!IsCancelled \/ X!CancelOver BY <2>2 DEF X!IsUnfilled, X!IsCancelled, X!CancelOver
    <2>3. CASE X!PastExpiry \/ X!FirstRound \/ X!SecondRound \/ X!Reports
      BY <2>3 DEF X!PastExpiry, X!FirstRound, X!SecondRound, X!Reports
    <2>. QED BY <2>1, <2>2, <2>3
<1>2. ViewsKept' BY <1>1 DEF ViewsKept
<1>3. /\ xIntents \in [X!Sides \cup {"CANCEL"} -> Names] /\ xCur \in X!Sides
      /\ xOrders["ENTRY"] = Void => xCur = "ENTRY" /\ xOrders["CLOSE"] = X!Unsent
      /\ xCur = "CLOSE" => xOrders["ENTRY"] = Whole
      /\ Void # Whole
      /\ SealedOver => UNCHANGED SealedOver
  BY <1>1 DEF SealedType, CloseAfter, Void, Whole, X!Sides, SealedOver
<1>4. /\ X!Classified("FILLED") => xOrders[xCur] = Whole
      /\ X!Classified("NO_FILL") => xOrders[xCur] = Void
  BY ClassifiedEnded
<1>. USE DEF Cancelling, Barred
<1>5. CASE X!ReadsAgain
    <2>1. (xCur = "CLOSE" /\ xOrders["ENTRY"] = Whole) \/ xCur = "ENTRY" BY <1>3 DEF X!Sides
    <2>2. CASE UNCHANGED <<xIntents, xLifecycle>>
      BY <1>1, <1>2, <1>5, <2>2 DEF X!ReadsAgain, SealedType, IntentsTrue, CloseAfter, BarrierInv, SealedOver
    <2>3. CASE X!Classified("FILLED") /\ xPc = "cancelled"
        <3>1. xOrders["ENTRY"] = Whole BY <1>4, <2>1, <2>3
        <3>2. xIntents' = [xIntents EXCEPT !["ENTRY"] = "RECONCILED"] /\ xLifecycle' = <<"EXPOSED">>
              /\ UNCHANGED <<xPc, xCur, xReport>>
          BY <1>5, <2>3 DEF X!ReadsAgain
        <3>. QED
          BY <1>1, <1>2, <1>3, <2>3, <3>1, <3>2 DEF SealedType, IntentsTrue, CloseAfter, BarrierInv,
            SealedOver, Names, X!Sides
    <2>. QED BY <1>5, <2>2, <2>3 DEF X!ReadsAgain
<1>6. CASE X!IsFilled
    <2>1. xOrders[xCur] = Whole BY <1>4, <1>6 DEF X!IsFilled
    <2>2. /\ xIntents' = [xIntents EXCEPT ![xCur] = "RECONCILED"] /\ xLifecycle' = <<"EXPOSED">>
          /\ UNCHANGED xReport
          /\ xCur' \in X!Sides /\ (xCur' = xCur \/ (xCur = "ENTRY" /\ xCur' = "CLOSE"))
          /\ xPc' \notin Cancelling
          /\ xPc' \in Barred => xCur = "CLOSE" /\ xCur' = xCur
        <3>1. CASE xPc = "recover" BY <1>6, <3>1, <1>3 DEF X!IsFilled
        <3>2. CASE xPc = "reconcile" /\ xCur = "ENTRY" BY <1>3, <1>6, <3>2 DEF X!IsFilled, X!Sides
        <3>3. CASE xPc = "reconcile" /\ xCur = "CLOSE" BY <1>3, <1>6, <3>3 DEF X!IsFilled, X!Sides
        <3>. QED BY <1>3, <1>6, <3>1, <3>2, <3>3 DEF X!IsFilled, X!Sides
    <2>3. SealedType' /\ IntentsTrue' /\ CloseAfter'
      BY <1>1, <1>3, <2>1, <2>2 DEF SealedType, IntentsTrue, CloseAfter, Names, X!Sides
    <2>4. xIntents'["ENTRY"] # "NO_FILL" \/ xCur = "CLOSE" BY <1>3, <2>2 DEF X!Sides
    <2>5. xCur = "CLOSE" => xIntents'["ENTRY"] # "NO_FILL" BY <1>3, <2>2 DEF IntentsTrue, X!Sides
    <2>6. BarrierInv' BY <1>1, <1>3, <2>1, <2>2, <2>5 DEF BarrierInv, SealedOver
    <2>. QED BY <1>2, <2>3, <2>6
<1>7. CASE X!IsUnfilled \/ X!IsCancelled
    <2>1. xOrders[xCur] = Void BY <1>4, <1>7 DEF X!IsUnfilled, X!IsCancelled
    <2>2. CASE xCur = "CLOSE"
        <3>1. /\ xIntents' = [xIntents EXCEPT !["CLOSE"] = "NO_FILL"] /\ xLifecycle' = <<"EXPOSED">>
              /\ UNCHANGED <<xReport, xCur>> /\ xPc' = "reconcile"
          BY <1>7, <2>2 DEF X!IsUnfilled, X!IsCancelled, BarrierInv
        <3>. QED
          BY <1>1, <1>2, <1>3, <2>2, <3>1 DEF SealedType, IntentsTrue, CloseAfter, BarrierInv, SealedOver,
            Names, X!Sides
    <2>3. CASE xCur = "ENTRY"
        <3>1. /\ xIntents' = [xIntents EXCEPT !["ENTRY"] = "NO_FILL"]
              /\ xLifecycle' = <<"FLAT_PENDING_EXPIRY">>
              /\ UNCHANGED <<xReport, xCur>>
          BY <1>7, <2>3 DEF X!IsUnfilled, X!IsCancelled
        <3>. QED
          BY <1>1, <1>2, <1>3, <2>1, <2>3, <3>1 DEF SealedType, IntentsTrue, CloseAfter, BarrierInv,
            SealedOver, Names, X!Sides
    <2>. QED BY <1>3, <2>2, <2>3 DEF X!Sides
<1>8. CASE X!CancelOver
  BY <1>8, <1>1, <1>2, <1>3 DEF X!CancelOver, SealedType, IntentsTrue, CloseAfter, BarrierInv, SealedOver,
    Names, X!Sides
<1>9. CASE X!PastExpiry \/ X!FirstRound
  BY <1>9, <1>1, <1>2 DEF X!PastExpiry, X!FirstRound, SealedType, IntentsTrue, CloseAfter, BarrierInv,
    SealedOver
<1>10. CASE X!SecondRound \/ X!Reports
  BY <1>3, <1>10, <1>1, <1>2 DEF X!SecondRound, X!Reports, BarrierInv, SealedOver, SealedType, IntentsTrue,
    CloseAfter
<1>. QED BY <1>5, <1>6, <1>7, <1>8, <1>9, <1>10

LEMMA SealedStep == SealedInv /\ [X!Next]_(X!vars) => SealedInv'
<1>1. ASSUME SealedInv, [X!Next]_(X!vars) PROVE SealedInv'
    <2>1. CASE X!Runner BY <1>1, <2>1, SealedSends, SealedAsks, SealedConcludes DEF X!Runner
    <2>2. CASE X!VenueNext /\ UNCHANGED <<X!store, journal, xReport, xPc, xCur, reads>>
      BY <1>1, <2>2, SealedVenueStep
    <2>3. CASE UNCHANGED X!vars
      BY <1>1, <2>3 DEF X!vars, X!venue, X!store, SealedInv, SealedType, ViewsKept, IntentsTrue, CloseAfter,
        BarrierInv, SealedOver
    <2>. QED BY <1>1, <2>1, <2>2, <2>3 DEF X!Next
<1>. QED BY <1>1

LEMMA SealedInvariant == X!Spec => []SealedInv
BY SealedStep, SealedInit, PTL DEF X!Spec

LEMMA SealedSettles == SealedInv => X!CompleteIsSettled /\ X!CloseStandsAlone
<1>. SUFFICES ASSUME SealedInv PROVE X!CompleteIsSettled /\ X!CloseStandsAlone OBVIOUS
<1>1. SealedOver => X!Settled BY DEF SealedOver, X!Settled, X!Able, X!Position, Void, Whole, X!Unsent, X!Sides
<1>2. xOrders["ENTRY"] = Void => xOrders["ENTRY"].filled = 0 BY DEF Void
<1>3. SealedOver /\ xOrders["ENTRY"] = Whole => xOrders["ENTRY"].filled = Lots /\ xOrders["CLOSE"].filled = Lots
  BY DEF SealedOver, Void, Whole
<1>4. X!CompleteIsSettled BY <1>1, <1>2, <1>3 DEF X!CompleteIsSettled, SealedInv, BarrierInv
<1>5. X!CloseStandsAlone BY DEF X!CloseStandsAlone, SealedInv, CloseAfter, Whole
<1>. QED BY <1>4, <1>5

\* A sealed Extended lifecycle that is complete is settled for good, and its close
\* was sent of an entry that is filled and over.
THEOREM SealedCorrect == X!Spec => [](X!CompleteIsSettled /\ X!CloseStandsAlone)
BY SealedInvariant, SealedSettles, PTL

-----------------------------------------------------------------------------
(* The driven Extended lifecycle.                                          *)

DrivenType ==
    /\ xOrders \in [Y!Sides -> SealedOrder] /\ xEvidence \subseteq [Y!Sides -> SealedOrder]
    /\ acts = [k \in Y!Sides \cup {Y!Cancellation} |-> acts[k]]
    /\ \A k \in Y!Sides : xOrders[k].at \in {"unsent", "flying", "lost"} => xOrders[k].filled = 0

\* What the evidence shows as ended stays as it was shown.
EvidenceKept == \A v \in xEvidence, k \in Y!Sides : v[k].at = "done" => xOrders[k] = v[k]

\* Exposed, and wherever there is a close, the entry was filled; without one
\* none was sent.
DrivenClose ==
    /\ xPhase = <<"EXPOSED">> \/ acts["CLOSE"] # "none" => xOrders["ENTRY"] = Whole
    /\ acts["CLOSE"] = "none" => xOrders["CLOSE"] = Y!Unsent

DrivenOver ==
    xPhase = <<"COMPLETE">> => \/ xOrders["ENTRY"] = Void /\ xOrders["CLOSE"] = Y!Unsent
                               \/ xOrders["ENTRY"] = Whole /\ xOrders["CLOSE"] = Whole

DrivenInv == DrivenType /\ EvidenceKept /\ DrivenClose /\ DrivenOver

USE LotsAssumption

\* The invariant holds from the start.
LEMMA DrivenInit == Y!Init => DrivenInv
BY DEF Y!Init, Y!VenueInit, DrivenInv, DrivenType, EvidenceKept, DrivenClose, DrivenOver, SealedOrder,
  Y!Unsent, Y!Sides, Y!Cancellation

\* An order that has ended does not change, and one that changes goes on.
DrivenMoves ==
    /\ xOrders' \in [Y!Sides -> SealedOrder]
    /\ \A k \in Y!Sides : xOrders[k].at = "done" => xOrders'[k] = xOrders[k]
    /\ \A k \in Y!Sides : xOrders'[k].at \in {"unsent", "flying", "lost"} => xOrders'[k].filled = 0

\* What the venue does to an order, and the steps that only let it.
LEMMA DrivenMovesKeep ==
    ASSUME DrivenInv, DrivenMoves, UNCHANGED <<xEvidence, acts, xPhase>>,
           xOrders'["CLOSE"] # Y!Unsent => xOrders["CLOSE"] # Y!Unsent \/ acts["CLOSE"] # "none"
    PROVE  DrivenInv'
<1>. USE DEF DrivenInv, DrivenMoves, Y!Sides
<1>1. DrivenType' /\ EvidenceKept' BY DEF DrivenType, EvidenceKept
<1>2. \A k \in Y!Sides : (xOrders[k] = Whole => xOrders'[k] = Whole) /\ (xOrders[k] = Void => xOrders'[k] = Void)
  BY DEF Whole, Void
<1>3. xOrders["ENTRY"] = Void => acts["CLOSE"] = "none" BY DEF DrivenClose, Void, Whole
<1>4. DrivenClose' /\ DrivenOver' BY <1>2, <1>3 DEF DrivenClose, DrivenOver
<1>. QED BY <1>1, <1>4

LEMMA DrivenVenueStep == ASSUME DrivenInv, Y!VenueMoves PROVE DrivenInv'
<1>. USE DEF DrivenInv
<1>0. /\ UNCHANGED <<acts, xPhase, xEvidence>>
      /\ \A k \in Y!Sides : xOrders[k] \in SealedOrder /\ xOrders[k].filled \in 0..Lots
  BY DEF DrivenType, SealedOrder, Y!VenueMoves
<1>1. ASSUME NEW k \in Y!Sides, Y!Rests(k) PROVE DrivenInv'
  BY <1>1, <1>0, DrivenMovesKeep DEF Y!Rests, Y!Becomes, SealedOrder, DrivenMoves, DrivenType, Y!Unsent, Y!Sides
<1>2. ASSUME NEW k \in Y!Sides, Y!Executes(k) PROVE DrivenInv'
    <2>0. Y!Position(xOrders) \in 0..Lots \/ k = "ENTRY" \/ xOrders["CLOSE"] = Y!Unsent
      BY <1>0 DEF DrivenClose, Y!Position, Whole, Y!Sides
    <2>1. PICK n \in 0..Lots : xOrders' = [xOrders EXCEPT ![k] = [at |-> "done", filled |-> n]]
        <3>1. PICK n \in 0..(IF k = "ENTRY" THEN Lots ELSE Y!Position(xOrders)) :
                  xOrders' = [xOrders EXCEPT ![k] = [at |-> "done", filled |-> n]]
          BY <1>2 DEF Y!Executes, Y!Becomes
        <3>2. k = "ENTRY" \/ (k = "CLOSE" /\ Y!Position(xOrders) \in 0..Lots)
          BY <1>2, <2>0 DEF Y!Executes, Y!Able, Y!Unsent, Y!Sides
        <3>3. n \in 0..Lots BY <3>2
        <3>. QED BY <3>1, <3>3
    <2>2. [at |-> "done", filled |-> n] \in SealedOrder /\ xOrders[k].at \in {"open", "flying"}
      BY <1>2 DEF SealedOrder, Y!Executes, Y!Able
    <2>3. DrivenMoves BY <1>0, <2>1, <2>2 DEF DrivenMoves, DrivenType
    <2>4. xOrders'["CLOSE"] # Y!Unsent => xOrders["CLOSE"] # Y!Unsent
      BY <2>1, <2>2 DEF Y!Unsent, DrivenType, Y!Sides
    <2>. QED BY <1>0, <2>3, <2>4, DrivenMovesKeep
<1>3. ASSUME NEW k \in Y!Sides, Y!Expires(k) PROVE DrivenInv'
  BY <1>0, <1>3 DEF Y!Expires, DrivenType, EvidenceKept, DrivenClose, DrivenOver
<1>4. ASSUME Y!CancelActs PROVE DrivenInv'
    <2>1. CASE xOrders["ENTRY"].at = "open"
      BY <1>4, <2>1, <1>0, DrivenMovesKeep DEF Y!CancelActs, Y!Becomes, Void, SealedOrder, DrivenMoves,
        DrivenType, Y!Sides
    <2>2. CASE xOrders["ENTRY"].at # "open"
      BY <1>4, <2>2, <1>0 DEF Y!CancelActs, DrivenType, EvidenceKept, DrivenClose, DrivenOver
    <2>. QED BY <2>1, <2>2
<1>. QED BY <1>1, <1>2, <1>3, <1>4 DEF Y!VenueMoves

LEMMA DrivenDispatches ==
    ASSUME DrivenInv, NEW k \in DOMAIN acts, Y!Dispatches(k)
    PROVE  DrivenInv'
<1>. USE DEF DrivenInv
<1>1. CASE k = Y!Cancellation
  BY <1>1 DEF Y!Dispatches, Y!CancelLeaves, DrivenType, EvidenceKept, DrivenClose, DrivenOver
<1>2. CASE k # Y!Cancellation
    <2>1. k \in Y!Sides /\ acts[k] # "none" BY <1>2 DEF DrivenType, Y!Dispatches
    <2>2. PICK at \in {"flying", "lost"} :
              /\ xOrders' = [xOrders EXCEPT ![k] = [at |-> at, filled |-> 0]]
              /\ xOrders[k] = Y!Unsent /\ UNCHANGED <<xEvidence, acts, xPhase>>
      BY <1>2 DEF Y!Dispatches, Y!Leaves, Y!Becomes
    <2>3. [at |-> at, filled |-> 0] \in SealedOrder BY DEF SealedOrder
    <2>4. DrivenMoves BY <2>1, <2>2, <2>3 DEF DrivenMoves, DrivenType, Y!Unsent
    <2>5. xOrders'["CLOSE"] # Y!Unsent => xOrders["CLOSE"] # Y!Unsent \/ acts["CLOSE"] # "none"
      BY <2>1, <2>2 DEF DrivenType, Y!Sides
    <2>. QED BY <2>2, <2>4, <2>5, DrivenMovesKeep
<1>. QED BY <1>1, <1>2

\* A row of the evidence says how an order ended.
LEMMA DrivenRows ==
    ASSUME DrivenInv, NEW k \in Y!Sides, NEW v \in xEvidence
    PROVE  /\ Y!Row(v, k) = "FILLED" => xOrders[k] = Whole
           /\ Y!Row(v, k) = "CANCELLED" => xOrders[k] = Void
<1>1. v[k] \in SealedOrder BY DEF DrivenInv, DrivenType
<1>2. Y!Row(v, k) \in {"FILLED", "CANCELLED"} => v[k].at = "done" BY <1>1 DEF Y!Row, SealedOrder
<1>3. /\ Y!Row(v, k) = "FILLED" => v[k] = Whole
      /\ Y!Row(v, k) = "CANCELLED" => v[k] = Void
  BY <1>1, <1>2 DEF Y!Row, SealedOrder, Whole, Void
<1>. QED BY <1>2, <1>3 DEF DrivenInv, EvidenceKept

\* What leaves the orders and the evidence alone.
LEMMA DrivenWrites ==
    ASSUME DrivenInv, UNCHANGED <<xOrders, xEvidence>>, acts' = [k \in Y!Sides \cup {Y!Cancellation} |-> acts'[k]],
           xPhase' = <<"EXPOSED">> => xOrders["ENTRY"] = Whole,
           acts'["CLOSE"] # "none" => xOrders["ENTRY"] = Whole,
           acts'["CLOSE"] = "none" => acts["CLOSE"] = "none",
           xPhase' = <<"COMPLETE">> => \/ xOrders["ENTRY"] = Void
                                       \/ xOrders["ENTRY"] = Whole /\ xOrders["CLOSE"] = Whole
    PROVE  DrivenInv'
BY DEF DrivenInv, DrivenClose, Void, Whole, DrivenType, EvidenceKept, DrivenOver

LEMMA DrivenPrepares ==
    ASSUME DrivenInv,
           \/ Y!PrepareOrder \/ Y!PrepareCancellation \/ Y!PrepareClose
           \/ \E k \in DOMAIN acts : Y!ClaimForDispatch(k)
    PROVE  DrivenInv'
<1>. USE DEF Y!Is, Y!Same, Y!venue, Y!Cancellation, Y!Sides
<1>0. /\ acts = [k \in Y!Sides \cup {Y!Cancellation} |-> acts[k]]
      /\ xPhase = <<"EXPOSED">> \/ acts["CLOSE"] # "none" => xOrders["ENTRY"] = Whole
  BY DEF DrivenInv, DrivenType, DrivenClose
<1>1. CASE Y!PrepareOrder BY <1>0, <1>1, DrivenWrites DEF Y!PrepareOrder
<1>2. CASE Y!PrepareCancellation BY <1>0, <1>2, DrivenWrites DEF Y!PrepareCancellation
<1>3. CASE Y!PrepareClose BY <1>0, <1>3, DrivenWrites DEF Y!PrepareClose
<1>4. ASSUME NEW k \in DOMAIN acts, Y!ClaimForDispatch(k) PROVE DrivenInv'
  BY <1>0, <1>4, DrivenWrites DEF Y!ClaimForDispatch
<1>. QED BY <1>1, <1>2, <1>3, <1>4

LEMMA DrivenReconciles == ASSUME DrivenInv, Y!Reconcile PROVE DrivenInv'
<1>. USE DEF Y!Is, Y!Same, Y!venue, Y!Cancellation, Y!Sides
<1>0. /\ acts = [k \in Y!Sides \cup {Y!Cancellation} |-> acts[k]]
      /\ xPhase = <<"EXPOSED">> \/ acts["CLOSE"] # "none" => xOrders["ENTRY"] = Whole
      /\ UNCHANGED <<xOrders, xEvidence>>
  BY DEF DrivenInv, DrivenType, DrivenClose, Y!Reconcile
<1>1. ASSUME NEW v \in xEvidence, Y!ReconcileEntry(v) PROVE DrivenInv'
  BY DrivenRows, <1>0, <1>1, DrivenWrites DEF Y!ReconcileEntry
<1>2. ASSUME NEW v \in xEvidence, Y!ReconcileCancel(v) PROVE DrivenInv'
  BY DrivenRows, <1>0, <1>2, DrivenWrites DEF Y!ReconcileCancel
<1>3. ASSUME NEW v \in xEvidence, Y!FinishCancel(v) PROVE DrivenInv'
  BY DrivenRows, <1>0, <1>3, DrivenWrites DEF Y!FinishCancel
<1>4. ASSUME NEW v \in xEvidence, Y!ReconcileClose(v) PROVE DrivenInv'
  BY <1>4, <1>0, DrivenWrites DEF Y!ReconcileClose, Y!Route
<1>5. ASSUME NEW v \in xEvidence, Y!FinishClose(v) PROVE DrivenInv'
  BY DrivenRows, <1>0, <1>5, DrivenWrites DEF Y!FinishClose
<1>6. ASSUME NEW k \in DOMAIN acts, Y!Contradicts(k) PROVE DrivenInv' BY <1>0, <1>6, DrivenWrites DEF Y!Contradicts
<1>. QED BY <1>1, <1>2, <1>3, <1>4, <1>5, <1>6 DEF Y!Reconcile

LEMMA DrivenStep == DrivenInv /\ [Y!Next]_(Y!vars) => DrivenInv'
<1>1. ASSUME DrivenInv, [Y!Next]_(Y!vars) PROVE DrivenInv'
    <2>1. CASE Y!Gathers
      BY <1>1, <2>1 DEF Y!Gathers, Y!venue, DrivenInv, DrivenType, EvidenceKept, DrivenClose, DrivenOver
    <2>2. CASE UNCHANGED Y!vars
      BY <1>1, <2>2 DEF Y!vars, Y!venue, DrivenInv, DrivenType, EvidenceKept, DrivenClose, DrivenOver
    <2>. QED BY <1>1, <2>1, <2>2, DrivenPrepares, DrivenReconciles, DrivenDispatches, DrivenVenueStep DEF Y!Next
<1>. QED BY <1>1

LEMMA DrivenInvariant == Y!Spec => []DrivenInv
BY DrivenStep, DrivenInit, PTL DEF Y!Spec

LEMMA DrivenSettles == DrivenInv => Y!CompleteIsSettled /\ Y!ExposedIsHeld
<1>. SUFFICES ASSUME DrivenInv PROVE Y!CompleteIsSettled /\ Y!ExposedIsHeld OBVIOUS
<1>1. Y!CompleteIsSettled
  BY DEF Y!CompleteIsSettled, DrivenInv, DrivenOver, Y!Settled, Y!Able, Y!Position, Void, Whole, Y!Unsent,
    Y!Sides
<1>2. Y!ExposedIsHeld BY DEF Y!ExposedIsHeld, DrivenInv, DrivenClose, Y!Position, Whole, Y!Unsent
<1>. QED BY <1>1, <1>2

\* A driven Extended lifecycle that is complete is settled, and EXPOSED names a
\* position that is there, in whatever order it is driven.
THEOREM DrivenCorrect == Y!Spec => [](Y!CompleteIsSettled /\ Y!ExposedIsHeld)
BY DrivenInvariant, DrivenSettles, PTL

-----------------------------------------------------------------------------
(* The lifecycles side by side: one of them runs, the others stand still.  *)

\* Of Extended, the sealed lifecycle and the driven one have the venue to
\* themselves in turn, and the other has not begun.
ExtendedInv ==
    /\ which = "driven" => DrivenInv /\ xLifecycle = <<"FLAT">> /\ xReport = "none"
    /\ which # "driven" => SealedInv /\ xPhase = <<"FLAT">>

TestnetInv == Inv /\ NadoInv /\ LighterInv /\ (WithinMargin => OwnerInv) /\ LevelCInv /\ ExtendedInv

\* The invariant holds from the start and is kept by whichever lifecycle runs.
LEMMA TestnetStarts == TestnetInit => TestnetInv
<1>. SUFFICES ASSUME TestnetInit PROVE TestnetInv OBVIOUS
<1>1. Inv /\ NadoInv /\ LighterInv /\ OwnerInv /\ LevelCInv
  BY InitInv, NadoInit, LighterInit, OwnerInit, LevelInit DEF TestnetInit
<1>2. SealedInv /\ DrivenInv BY SealedInit, DrivenInit DEF TestnetInit
<1>3. xLifecycle = <<"FLAT">> /\ xReport = "none" /\ xPhase = <<"FLAT">> BY DEF TestnetInit, X!Init, Y!Init
<1>. QED BY <1>1, <1>2, <1>3 DEF TestnetInv, ExtendedInv

\* What a step of the run is for each lifecycle.
LEMMA OneRuns ==
    ASSUME [TestnetNext]_<<which, vars, nado, lighter, funding, levelC, extended>>
    PROVE  /\ [Next]_vars /\ [N!Next]_(N!vars) /\ [L!Next]_(L!vars) /\ [F!Next]_(F!vars) /\ [R!Next]_(R!vars)
           /\ which' = which
           /\ which = "driven" => [Y!Next]_(Y!vars) /\ UNCHANGED runner
           /\ which # "driven" => [X!Next]_(X!vars) /\ UNCHANGED driven
<1>1. UNCHANGED nado => UNCHANGED N!vars BY DEF nado, N!vars
<1>2. UNCHANGED lighter => UNCHANGED L!vars BY DEF lighter, L!vars
<1>3. UNCHANGED funding => UNCHANGED F!vars BY DEF funding, F!vars, F!owner, F!joint, F!worker, F!peer, F!world
<1>4. UNCHANGED levelC => UNCHANGED R!vars BY DEF levelC, R!vars
<1>5. UNCHANGED extended => UNCHANGED X!vars /\ UNCHANGED Y!vars /\ UNCHANGED runner /\ UNCHANGED driven
  BY DEF extended, runner, driven, X!vars, X!venue, X!store, Y!vars, Y!venue
<1>6. which' = which BY DEF TestnetNext
<1>7. [Next]_vars BY DEF TestnetNext
<1>8. [N!Next]_(N!vars) BY <1>1 DEF TestnetNext
<1>9. [L!Next]_(L!vars) BY <1>2 DEF TestnetNext
<1>10. [F!Next]_(F!vars) BY <1>3 DEF TestnetNext
<1>11. [R!Next]_(R!vars) BY <1>4 DEF TestnetNext
<1>12. which = "driven" => [Y!Next]_(Y!vars) /\ UNCHANGED runner BY <1>5 DEF TestnetNext
<1>13. which # "driven" => [X!Next]_(X!vars) /\ UNCHANGED driven BY <1>5 DEF TestnetNext
<1>. QED BY <1>6, <1>7, <1>8, <1>9, <1>10, <1>11, <1>12, <1>13

LEMMA TestnetStep ==
    TestnetInv /\ [TestnetNext]_<<which, vars, nado, lighter, funding, levelC, extended>> => TestnetInv'
<1>. SUFFICES ASSUME TestnetInv, [TestnetNext]_<<which, vars, nado, lighter, funding, levelC, extended>>
              PROVE  TestnetInv'
    OBVIOUS
<1>1. Inv' /\ NadoInv' /\ LighterInv' BY OneRuns, NextInv, NadoStep, LighterStep DEF TestnetInv
<1>2. LevelCInv' BY OneRuns, LevelStep DEF TestnetInv
<1>6. (WithinMargin => OwnerInv)' BY OneRuns, OwnerStep DEF TestnetInv, WithinMargin
<1>3. which = "driven" => DrivenInv' /\ UNCHANGED <<xLifecycle, xReport>>
  BY OneRuns, DrivenStep DEF TestnetInv, ExtendedInv, runner
<1>4. which # "driven" => SealedInv' /\ UNCHANGED xPhase BY OneRuns, SealedStep DEF TestnetInv, ExtendedInv, driven
<1>5. ExtendedInv' BY <1>3, <1>4, OneRuns DEF TestnetInv, ExtendedInv
<1>. QED BY <1>1, <1>2, <1>6, <1>5 DEF TestnetInv

\* Whichever lifecycle runs, it keeps to its invariant and the others to theirs.
THEOREM TestnetInvariance == TestnetSpec => []TestnetInv
BY TestnetStarts, TestnetStep, PTL DEF TestnetSpec

\* What either Extended lifecycle says is true of the venue they share.
LEMMA ExtendedSettles == ExtendedInv => X!CompleteIsSettled /\ X!CloseStandsAlone /\ Y!CompleteIsSettled /\ Y!ExposedIsHeld
<1>. SUFFICES ASSUME ExtendedInv
              PROVE  X!CompleteIsSettled /\ X!CloseStandsAlone /\ Y!CompleteIsSettled /\ Y!ExposedIsHeld
    OBVIOUS
<1>1. CASE which = "driven"
    <2>1. Y!CompleteIsSettled /\ Y!ExposedIsHeld BY <1>1, DrivenSettles DEF ExtendedInv
    <2>2. X!CompleteIsSettled BY <1>1 DEF ExtendedInv, X!CompleteIsSettled
    <2>3. X!CloseStandsAlone
      BY <1>1 DEF ExtendedInv, X!CloseStandsAlone, DrivenInv, DrivenClose, Whole, X!Unsent, Y!Unsent
    <2>. QED BY <2>1, <2>2, <2>3
<1>2. CASE which # "driven" BY <1>2, SealedSettles DEF ExtendedInv, Y!CompleteIsSettled, Y!ExposedIsHeld
<1>. QED BY <1>1, <1>2

\* What any of the testnet lifecycles, or the owner of two of them, says at its
\* end is true of the venue and stays so: for every amount, number of runs and
\* of polls, whatever earlier runs sent and whatever is delayed or lost.
THEOREM ReportsAreTrueOfTheVenue ==
    ASSUME WithinMargin
    PROVE  TestnetSpec => []ReportsAreTrue
<1>1. TestnetInv => ReportsAreTrue
    <2>. SUFFICES ASSUME TestnetInv PROVE ReportsAreTrue OBVIOUS
    <2>1. ReportIsTrue /\ N!CompleteIsFlat /\ L!CompleteIsFlat
      BY ReportTells, NadoTells, LighterSettles DEF TestnetInv
    <2>2. F!OwnerIsTrue /\ R!CompleteIsFlat BY OwnerTells, LevelTells DEF TestnetInv
    <2>. QED BY <2>1, <2>2, ExtendedSettles DEF TestnetInv, ReportsAreTrue
<1>. QED BY <1>1, TestnetInvariance, PTL

\* Two orders of one lifecycle that open or close a position can never both
\* trade, after any crash, lost answer or delay, for every amount.
THEOREM OrdersStandAlone == TestnetSpec => []OneOrderAtATime
<1>1. TestnetInv => OneOrderAtATime
    <2>. SUFFICES ASSUME TestnetInv PROVE OneOrderAtATime OBVIOUS
    <2>1. N!OneOrderAtATime /\ L!MarketStandsAlone /\ R!OneOrderAtATime
      BY NadoTells, LighterSettles, LevelTells DEF TestnetInv
    <2>. QED BY <2>1, ExtendedSettles DEF TestnetInv, OneOrderAtATime
<1>. QED BY <1>1, TestnetInvariance, PTL
=============================================================================
