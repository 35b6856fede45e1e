--------------------------- MODULE PairedAttempt ---------------------------
(***************************************************************************)
(* What one paired attempt promises to whoever started it (the outcomes    *)
(* and fills of HandoffResult, hood_handoff/engine.py), whatever the       *)
(* engine reads, loses or crashes in: each leg is exposed at most once,    *)
(* and a final report is only made when nothing of the attempt can fill    *)
(* any more, and says what filled.  Handoff implements it.                 *)
(***************************************************************************)
EXTENDS Naturals

CONSTANTS
    Legs, \* the two sides of the pair
    Q     \* the quantity of each

VARIABLES
    exposed, \* legs whose order was given to the transport
    open,    \* legs that may still fill
    fills,   \* what each leg filled
    report   \* what the caller was told

vars == <<exposed, open, fills, report>>

Nothing == [l \in Legs |-> 0]
Reports == [state : {"none", "unknown", "final"}, fills : [Legs -> 0..Q]]

Init ==
    /\ exposed = {} /\ open = {}
    /\ fills = Nothing
    /\ report = [state |-> "none", fills |-> Nothing]

\* A leg is exposed once, before anything was reported.
Expose(l) ==
    /\ l \notin exposed /\ report.state = "none"
    /\ exposed' = exposed \cup {l}
    /\ open' = open \cup {l}
    /\ UNCHANGED <<fills, report>>

\* Open legs fill and end.
Trade ==
    /\ fills' \in [Legs -> 0..Q]
    /\ \A l \in Legs : /\ fills'[l] >= fills[l]
                       /\ l \notin open => fills'[l] = fills[l]
    /\ open' \in SUBSET open
    /\ UNCHANGED <<exposed, report>>

\* The caller learns that the attempt is unresolved, with fills that mean nothing,
\* or the truth.
Report ==
    /\ report.state = "none"
    /\ \/ \E f \in [Legs -> 0..Q] : report' = [state |-> "unknown", fills |-> f]
       \/ open = {} /\ report' = [state |-> "final", fills |-> fills]
    /\ UNCHANGED <<exposed, open, fills>>

\* An unresolved attempt is looked at again.
Relaunch ==
    /\ report.state = "unknown"
    /\ report' = [state |-> "none", fills |-> Nothing]
    /\ UNCHANGED <<exposed, open, fills>>

Next == (\E l \in Legs : Expose(l)) \/ Trade \/ Report \/ Relaunch

Spec == Init /\ [][Next]_vars
=============================================================================
