---------------------------- MODULE LighterLevelC ---------------------------
(***************************************************************************)
(* LighterLevelCRunner over LifecycleStore: on the Lighter testnet a maker *)
(* order is placed and cancelled, a position is opened by a market order,  *)
(* held over a funding boundary, closed by a reduce-only one, and two      *)
(* terminal rounds must find the account flat.  A store serves one run;    *)
(* after a crash only a fresh one, which knows nothing of the last.  Each  *)
(* request is prepared, claimed, sent and recorded in steps of its own and *)
(* carries the venue's next nonce.                                         *)
(*                                                                         *)
(* A request whose answer is lost may act at any later time: only its      *)
(* nonce, once used by another, stops it.  A snapshot reads the position,  *)
(* the active orders, the order asked for and the fills at four instants.  *)
(***************************************************************************)
EXTENDS Integers, Sequences

CONSTANTS
    Lots,     \* the quantity of every order, in lots that fill singly
    Polls,    \* MAKER_CANCEL_RECONCILIATION_MAX_POLLS
    Stores    \* bound on the runs, each on a fresh database

VARIABLES
    tx,      \* the venue: every request that left, with its nonce and fill
    nonce,   \* the venue: the nonce it takes next
    life,    \* the store: lifecycle_state
    row,     \* the store: the state of each intent
    phase,   \* the runner: the phase it is in, or "down"
    step,    \* the runner: where in the phase
    mine,    \* the runner: the requests of this run by kind, 0 none yet
    using,   \* the runner: the nonce it read
    view,    \* the runner: its last snapshot
    polled,  \* the runner: polls of the cancelled order
    result,  \* the runner: the state it is about to finish with
    started  \* runs so far

vars == <<tx, nonce, life, row, phase, step, mine, using, view, polled, result, started>>

Kinds  == {"PLACE", "CANCEL", "OPEN", "CLOSE"}
Trades == {"PLACE", "OPEN", "CLOSE"}

\* The phases in order, each with the request it sends; the terminal rounds
\* and the funding boundary only observe.
Phases  == <<"preflight", "PLACE", "CANCEL", "OPEN", "funding", "CLOSE", "first", "second">>
After(p) == LET k == CHOOSE k \in DOMAIN Phases : Phases[k] = p
            IN IF k = Len(Phases) THEN "end" ELSE Phases[k + 1]

Sent     == DOMAIN tx
Resting(i) == tx[i].at = "RESTING"
\* A request the venue would still act on.
Able(i)  == Resting(i) \/ (tx[i].at = "FLYING" /\ tx[i].nonce >= nonce)

\* The position is opened long, so that the maker order is a sale.
Position == LET p[i \in 0..Len(tx)] == IF i = 0 THEN 0
                    ELSE p[i - 1] + (IF tx[i].kind = "OPEN" THEN tx[i].filled ELSE 0 - tx[i].filled)
            IN p[Len(tx)]

NoView == [pos |-> 0, active |-> {}, gone |-> FALSE, fill |-> 0, fills |-> 0]

Init ==
    /\ tx = << >> /\ nonce = 0
    /\ life = "NEW" /\ row = [k \in Kinds |-> "NONE"]
    /\ phase = "down" /\ step = "down" /\ mine = [k \in Kinds |-> 0] /\ using = 0
    /\ view = NoView /\ polled = 0 /\ result = "NONE" /\ started = 0

runner == <<phase, step, mine, using, view, polled, result, started>>
store  == <<life, row>>

-----------------------------------------------------------------------------
(* The venue.                                                              *)

Becomes(i, w, n) == tx' = [tx EXCEPT ![i].at = w, ![i].filled = @ + n]

\* The venue takes the request with the next nonce.
Arrives(i) ==
    /\ tx[i].at = "FLYING" /\ tx[i].nonce = nonce
    /\ nonce' = nonce + 1
    /\ CASE tx[i].kind = "PLACE"  -> \E w \in {"RESTING", "GONE"} : Becomes(i, w, 0)
         [] tx[i].kind = "CANCEL" ->
              tx' = [j \in Sent |-> IF j = i \/ (j = tx[i].target /\ Resting(j))
                                    THEN [tx[j] EXCEPT !.at = "GONE"] ELSE tx[j]]
         [] tx[i].kind = "OPEN"   -> \E n \in 0..Lots : Becomes(i, "GONE", n)
         [] OTHER                 -> \E n \in 0..Lots : n <= Position /\ Becomes(i, "GONE", n)
    /\ UNCHANGED <<store, runner>>

MakerFills(i) ==
    /\ Resting(i)
    /\ \E n \in 1..(Lots - tx[i].filled) :
           Becomes(i, IF tx[i].filled + n = Lots THEN "GONE" ELSE "RESTING", n)
    /\ UNCHANGED <<nonce, store, runner>>

-----------------------------------------------------------------------------
(* Starting, ending and crashing.                                          *)

Goto(p, s) == phase' = p /\ step' = s

\* A new LifecycleStore on a path that must not exist, then begin().
Start ==
    /\ phase = "down" /\ started < Stores /\ started' = started + 1
    /\ life' = "RUNNING" /\ row' = [k \in Kinds |-> "NONE"]
    /\ mine' = [k \in Kinds |-> 0] /\ polled' = 0 /\ result' = "NONE" /\ view' = NoView
    /\ Goto("preflight", "account")
    /\ UNCHANGED <<tx, nonce, using>>

Ends(r) == result' = r /\ Goto(phase, "finish")

Finish ==
    /\ step = "finish" /\ life' = result /\ Goto("down", "down")
    /\ UNCHANGED <<tx, nonce, row, mine, using, view, polled, result, started>>

Crash ==
    /\ phase # "down" /\ Goto("down", "down")
    /\ UNCHANGED <<tx, nonce, store, mine, using, view, polled, result, started>>

\* What went wrong before the request was claimed blocks the run; an error
\* that is no LifecycleHalt halts it.
Breaks ==
    /\ step \in {"account", "active", "target", "fills", "nonce", "prepare"}
    /\ phase \notin {"funding"} /\ row[IF phase \in Kinds THEN phase ELSE "PLACE"] \in {"NONE", "RECONCILED"}
    /\ \E r \in {"BLOCKED", "HALTED_MANUAL_RECOVERY"} : Ends(r)
    /\ UNCHANGED <<tx, nonce, store, mine, using, view, polled, started>>

-----------------------------------------------------------------------------
(* A snapshot of the account.                                              *)

\* The order the snapshot asks for by its client index.
Asked == IF phase \notin Kinds \/ row[phase] = "NONE" THEN 0
         ELSE mine[IF phase = "CANCEL" THEN "PLACE" ELSE phase]

ReadAccount ==
    /\ step = "account"
    /\ view' = [NoView EXCEPT !.pos = Position] /\ Goto(phase, "active")
    /\ UNCHANGED <<tx, nonce, store, mine, using, polled, result, started>>

\* For the mutant run: only the orders this run knows.
ReadOwnActive ==
    /\ step = "active"
    /\ view' = [view EXCEPT !.active = {i \in Sent : Resting(i) /\ \E k \in Kinds : mine[k] = i}]
    /\ Goto(phase, "target")
    /\ UNCHANGED <<tx, nonce, store, mine, using, polled, result, started>>

\* The active orders of the account, whoever sent them.
ReadActive ==
    /\ step = "active"
    /\ view' = [view EXCEPT !.active = {i \in Sent : Resting(i)}] /\ Goto(phase, "target")
    /\ UNCHANGED <<tx, nonce, store, mine, using, polled, result, started>>
\* The history may lag behind: a finished order may not be there yet.
ReadTarget ==
    /\ step = "target"
    /\ \E there \in BOOLEAN :
           view' = IF Asked = 0 THEN view
                   ELSE [view EXCEPT !.gone = there /\ tx[Asked].at = "GONE" /\ tx[Asked].nonce < nonce,
                                     !.fill = tx[Asked].filled]
    /\ Goto(phase, "fills")
    /\ UNCHANGED <<tx, nonce, store, mine, using, polled, result, started>>

ReadFills ==
    /\ step = "fills"
    /\ \E n \in 0..Lots : n <= (IF Asked = 0 THEN 0 ELSE tx[Asked].filled)
                          /\ view' = [view EXCEPT !.fills = n]
    /\ Goto(phase, "judge")
    /\ UNCHANGED <<tx, nonce, store, mine, using, polled, result, started>>

Flat == view.pos = 0 /\ view.active = {}

-----------------------------------------------------------------------------
(* A request: nonce, intent, claim, send, record.                          *)

ReadNonce ==
    /\ step = "nonce" /\ using' = nonce /\ Goto(phase, "prepare")
    /\ UNCHANGED <<tx, nonce, store, mine, view, polled, result, started>>

\* create_intent: PREPARED, with the nonce just read.
CreateIntent ==
    /\ step = "prepare"
    /\ row' = [row EXCEPT ![phase] = "PREPARED"] /\ Goto(phase, "claim")
    /\ UNCHANGED <<tx, nonce, life, mine, using, view, polled, result, started>>

ClaimDispatch ==
    /\ step = "claim" /\ row[phase] = "PREPARED"
    /\ row' = [row EXCEPT ![phase] = "DISPATCHING"] /\ Goto(phase, "send")
    /\ UNCHANGED <<tx, nonce, life, mine, using, view, polled, result, started>>

Leaves ==
    /\ tx' = Append(tx, [kind |-> phase, nonce |-> using, at |-> "FLYING", filled |-> 0,
                         target |-> mine["PLACE"]])
    /\ mine' = [mine EXCEPT ![phase] = Len(tx) + 1]

\* create_order, cancel_order: accepted with a well formed hash, anything
\* else the venue answered, or no answer.  Only in the first case is it known
\* that the request left for good.
Send ==
    /\ step = "send"
    /\ \E answer \in {"accepted", "rejected", "lost"} :
           /\ Leaves \/ (answer # "accepted" /\ UNCHANGED <<tx, mine>>)
           /\ Goto(phase, answer)
    /\ UNCHANGED <<nonce, store, using, view, polled, result, started>>

\* record_dispatch, and what follows from it.
RecordDispatch ==
    /\ \/ /\ step = "accepted" /\ row' = [row EXCEPT ![phase] = "DISPATCHED"]
          /\ Goto(phase, "account") /\ UNCHANGED result
       \/ /\ step = "rejected" /\ row' = [row EXCEPT ![phase] = "REJECTED"]
          /\ Ends("BLOCKED")
    /\ UNCHANGED <<tx, nonce, life, mine, using, view, polled, started>>

\* A claimed request whose outcome is not known or could not be recorded:
\* AMBIGUOUS, if the store can still be written, and never BLOCKED.
MarkAmbiguous ==
    /\ \/ step \in {"accepted", "rejected", "lost", "unresolved"}
       \/ /\ step \in {"account", "active", "target", "fills"}
          /\ phase \in Kinds /\ row[phase] = "DISPATCHED"
    /\ row' \in {row, [row EXCEPT ![phase] = "AMBIGUOUS"]}
    /\ Ends("HALTED_MANUAL_RECOVERY")
    /\ UNCHANGED <<tx, nonce, life, mine, using, view, polled, started>>

-----------------------------------------------------------------------------
(* What a snapshot decides.                                                *)

OnlyAsked == view.active \subseteq {Asked}

\* _validate_post_only: the maker order rests whole, and no other.
Rests == view.active = {Asked} /\ ~view.gone /\ view.fill = 0

\* _reconcile_maker_cancel: the maker order is terminal without a fill ...
CancelProven == /\ view.pos = 0 /\ OnlyAsked /\ view.fills = 0
                /\ view.gone /\ view.fill = 0
\* ... or still whole, or just not published yet: it is read again.
CancelPending == /\ view.pos = 0 /\ OnlyAsked /\ view.fills = 0 /\ ~view.gone
                 /\ (view.active = {} \/ view.fill = 0)
                 /\ polled < Polls

\* _reconcile_filled: the exact order is filled in full, by its own fills, and
\* the position is what follows from it.
Filled(q) == /\ view.gone /\ view.fill = Lots /\ view.fills = Lots
             /\ view.active = {} /\ view.pos = q

Proven == CASE phase = "PLACE"  -> Rests
            [] phase = "CANCEL" -> CancelProven
            [] phase = "OPEN"   -> Filled(Lots)
            [] OTHER            -> Filled(0)

Reconcile ==
    /\ step = "judge" /\ phase \in Kinds /\ row[phase] = "DISPATCHED" /\ Proven
    /\ row' = [row EXCEPT ![phase] = "RECONCILED"]
    /\ Goto(After(phase), IF After(phase) = "CANCEL" THEN "nonce" ELSE "account")
    /\ UNCHANGED <<tx, nonce, life, mine, using, view, polled, result, started>>

PollAgain ==
    /\ step = "judge" /\ phase = "CANCEL" /\ ~CancelProven /\ CancelPending
    /\ polled' = polled + 1 /\ Goto(phase, "account")
    /\ UNCHANGED <<tx, nonce, store, mine, using, view, result, started>>

Unresolved ==
    /\ step = "judge" /\ phase \in Kinds /\ row[phase] = "DISPATCHED"
    /\ ~Proven /\ ~(phase = "CANCEL" /\ CancelPending)
    /\ Goto(phase, "unresolved")
    /\ UNCHANGED <<tx, nonce, store, mine, using, view, polled, result, started>>

\* _fresh_prewrite, and the close's own reading: what the next request needs.
Needed == IF phase = "CLOSE" THEN view.pos = Lots /\ view.active = {} ELSE Flat

Prewrite ==
    /\ step = "judge" /\ phase \in {"preflight"} \cup Kinds
    /\ phase \in Kinds => row[phase] = "NONE"
    /\ IF ~Needed THEN Ends("BLOCKED")
       ELSE /\ IF phase = "preflight" THEN Goto("PLACE", "account") ELSE Goto(phase, "nonce")
            /\ UNCHANGED result
    /\ UNCHANGED <<tx, nonce, store, mine, using, view, polled, started>>

\* _funding_phase: whatever stops it, the close goes on; only the final state
\* remembers.  An error of another kind halts the run with the position open.
Funding ==
    /\ phase = "funding"
    /\ \/ /\ step = "judge" /\ view.pos = Lots /\ view.active = {}
          /\ Goto("CLOSE", "account") /\ UNCHANGED result
       \/ /\ step # "finish" /\ result' = "BLOCKED" /\ Goto("CLOSE", "account")
       \/ /\ step # "finish" /\ Ends("HALTED_MANUAL_RECOVERY")
    /\ UNCHANGED <<tx, nonce, store, mine, using, view, polled, started>>

\* _terminal_phase: every intent reconciled and two rounds flat.
Terminal ==
    /\ step = "judge" /\ phase \in {"first", "second"}
    /\ IF ~Flat \/ \E k \in Kinds : row[k] # "RECONCILED" THEN Ends("BLOCKED")
       ELSE IF phase = "first" THEN Goto("second", "account") /\ UNCHANGED result
       ELSE Ends(IF result = "BLOCKED" THEN "BLOCKED" ELSE "COMPLETE")
    /\ UNCHANGED <<tx, nonce, store, mine, using, view, polled, started>>

-----------------------------------------------------------------------------
Next ==
    \/ \E i \in Sent : Arrives(i) \/ MakerFills(i)
    \/ Start \/ Finish \/ Crash \/ Breaks
    \/ ReadAccount \/ ReadActive \/ ReadTarget \/ ReadFills
    \/ ReadNonce \/ CreateIntent \/ ClaimDispatch \/ Send \/ RecordDispatch \/ MarkAmbiguous
    \/ Reconcile \/ PollAgain \/ Unresolved \/ Prewrite \/ Funding \/ Terminal

Spec == Init /\ [][Next]_vars

-----------------------------------------------------------------------------
\* A run ends COMPLETE only on an account that is flat and stays so: nothing
\* rests, and no request the program ever sent can still act, those of earlier
\* runs that crashed or lost an answer included.
CompleteIsFlat == life = "COMPLETE" => Position = 0 /\ \A i \in Sent : ~Able(i)

\* While an order that opens or closes the position may still trade, any other
\* that could carries its nonce, so that the venue takes one of them at most,
\* whichever run sent them and whatever was delayed.
MarketStandsAlone ==
    \A i, j \in Sent :
        i # j /\ Able(i) /\ Able(j) /\ tx[i].kind \in {"OPEN", "CLOSE"} /\ tx[j].kind \in Trades =>
            tx[i].nonce = tx[j].nonce /\ ~Resting(j)

\* A run that is BLOCKED has no claimed request whose outcome is open: the
\* comments at lighter_testnet_lifecycle.py:2998 and :3024.
BlockedIsResolved ==
    life = "BLOCKED" => \A k \in Kinds : mine[k] # 0 /\ row[k] = "REJECTED" => ~Able(mine[k])
=============================================================================
