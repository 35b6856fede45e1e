---------------------------- MODULE ExtendedVenue -----------------------------
(***************************************************************************)
(* The Extended testnet as the two lifecycles of the repository see it: an *)
(* IOC order that buys Lots and, later, a reduce-only one that sells them. *)
(* A request may be executed late, until its expiry, and rest for a while  *)
(* before it is.  Nothing else trades on the account.                      *)
(*                                                                         *)
(* views holds what the venue has been since an observation began: its     *)
(* reads run at the same time and each may see another of them.            *)
(***************************************************************************)
EXTENDS Integers

CONSTANT Lots \* the minimum of the market, in lots

VARIABLES orders, cancelling, expired, views

venue == <<orders, cancelling, expired>>

Sides == {"ENTRY", "CLOSE"}
Unsent == [at |-> "unsent", filled |-> 0]

VenueInit ==
    /\ orders = [k \in Sides |-> Unsent] /\ cancelling = FALSE
    /\ expired = [k \in Sides |-> FALSE] /\ views = {}

\* How the venue shows order k: its row, or none.
Row(v, k) ==
    CASE v[k].at \in {"unsent", "flying", "lost"} -> "none"
      [] v[k].at = "open" -> "OPEN"
      [] v[k].at = "done" -> IF v[k].filled = Lots THEN "FILLED"
                             ELSE IF v[k].filled = 0 THEN "CANCELLED" ELSE "PARTIAL"
Position(v) == v["ENTRY"].filled - v["CLOSE"].filled
IsOpen(v) == \E k \in Sides : v[k].at = "open"
Able(k) == orders[k].at = "open" \/ (orders[k].at = "flying" /\ ~expired[k])

Becomes(k, at, n) ==
    /\ orders' = [orders EXCEPT ![k] = [at |-> at, filled |-> n]]
    /\ views' = IF views = {} THEN {} ELSE views \cup {orders'}

Rests(k) ==
    /\ orders[k].at = "flying" /\ ~expired[k] /\ Becomes(k, "open", 0)
    /\ UNCHANGED <<cancelling, expired>>

Executes(k) ==
    /\ Able(k)
    /\ \E n \in 0..(IF k = "ENTRY" THEN Lots ELSE Position(orders)) : Becomes(k, "done", n)
    /\ UNCHANGED <<cancelling, expired>>

\* The cancellation is of the entry.
CancelActs ==
    /\ cancelling /\ cancelling' = FALSE
    /\ IF orders["ENTRY"].at = "open" THEN Becomes("ENTRY", "done", 0) ELSE UNCHANGED <<orders, views>>
    /\ UNCHANGED expired

Expires(k) ==
    /\ orders[k].at \notin {"unsent", "lost"} /\ ~expired[k]
    /\ expired' = [expired EXCEPT ![k] = TRUE]
    /\ UNCHANGED <<orders, cancelling, views>>

\* A request leaves, or is lost on its way.
Leaves(k) ==
    /\ orders[k] = Unsent /\ \E at \in {"flying", "lost"} : Becomes(k, at, 0)
    /\ UNCHANGED <<cancelling, expired>>

CancelLeaves ==
    /\ cancelling' \in {cancelling, TRUE} /\ UNCHANGED <<orders, expired, views>>

VenueNext == (\E k \in Sides : Rests(k) \/ Executes(k) \/ Expires(k)) \/ CancelActs

\* Nothing of the lifecycle can trade any more, and nothing is held.
Settled == Position(orders) = 0 /\ \A k \in Sides : ~Able(k)
=============================================================================
