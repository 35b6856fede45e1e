--------------------------- MODULE PaperPosition ---------------------------
(***************************************************************************)
(* What the paper farmer promises about the record of one attempt: it is   *)
(* placed only when nothing else is open, it is either cancelled or filled *)
(* but never both, a filled one is held, then left, then left in a hurry,  *)
(* and is closed once.  The promise is about what is stored, so that a     *)
(* crash and a restart may not undo or repeat any of it.                   *)
(***************************************************************************)
EXTENDS Naturals

CONSTANT MaxAttempts

VARIABLE stage     \* stage[a]: what is stored of attempt a

Attempts == 1..MaxAttempts
Held == {"HOLDING", "EXITING_NORMAL", "EXITING_AGGRESSIVE"}
Ended == {"CANCELLED", "CLOSED"}
Stages == {"none", "OPEN"} \cup Held \cup Ended

Init == stage = [a \in Attempts |-> "none"]

Becomes(a, from, to) ==
    /\ stage[a] \in from
    /\ stage' = [stage EXCEPT ![a] = to]

Place(a) == /\ \A b \in Attempts : stage[b] \in Ended \cup {"none"}
            /\ Becomes(a, {"none"}, "OPEN")

Cancel(a) == Becomes(a, {"OPEN"}, "CANCELLED")

Fill(a) == \E held \in {"HOLDING", "EXITING_NORMAL"} : Becomes(a, {"OPEN"}, held)

Leave(a) == Becomes(a, {"HOLDING"}, "EXITING_NORMAL")

Hurry(a) == Becomes(a, {"EXITING_NORMAL"}, "EXITING_AGGRESSIVE")

Close(a) == Becomes(a, Held, "CLOSED")

Next == \E a \in Attempts :
            Place(a) \/ Cancel(a) \/ Fill(a) \/ Leave(a) \/ Hurry(a) \/ Close(a)

Spec == Init /\ [][Next]_stage
============================================================================
