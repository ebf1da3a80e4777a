---------------------------- MODULE SerialStage ----------------------------
(***************************************************************************)
(* What a batched stage promises its caller: the `for` loop around         *)
(* `client.complete` that every stage was before concurrency.map_calls.    *)
(*                                                                         *)
(* The loop asks about the items one after another, in input order, keeps  *)
(* each answer, and stops at the first item whose call raises.  A limit    *)
(* below one is refused before anything is asked.  An answer is named by   *)
(* the position of the item it belongs to.                                 *)
(***************************************************************************)
EXTENDS Integers, Sequences

CONSTANTS
    ItemCounts,         \* how many items a stage may be given
    Limits,             \* the values `max_in_flight` may have
    NoLimit,            \* `max_in_flight=None`
    DefaultMaxInFlight  \* what None stands for

VARIABLES
    items,     \* how many items this stage was given
    limit,     \* the limit it was given
    failing,   \* the items whose call raises
    results,   \* the answers kept so far, oldest first
    outcome    \* "running", "returned", "raised" or "rejected"

vars == <<items, limit, failing, results, outcome>>

InFlight(given) == IF given = NoLimit THEN DefaultMaxInFlight ELSE given

Init ==
    /\ items \in ItemCounts
    /\ limit \in Limits
    /\ failing \in SUBSET (1..items)
    /\ results = <<>>
    /\ outcome = "running"

NextItem == Len(results) + 1

Reject ==
    /\ outcome = "running"
    /\ InFlight(limit) < 1
    /\ outcome' = "rejected"
    /\ UNCHANGED <<items, limit, failing, results>>

Keep ==
    /\ outcome = "running"
    /\ InFlight(limit) >= 1
    /\ NextItem \in (1..items) \ failing
    /\ results' = Append(results, NextItem)
    /\ UNCHANGED <<items, limit, failing, outcome>>

Raise ==
    /\ outcome = "running"
    /\ InFlight(limit) >= 1
    /\ NextItem \in failing
    /\ outcome' = "raised"
    /\ UNCHANGED <<items, limit, failing, results>>

Return ==
    /\ outcome = "running"
    /\ InFlight(limit) >= 1
    /\ Len(results) = items
    /\ outcome' = "returned"
    /\ UNCHANGED <<items, limit, failing, results>>

Next == Reject \/ Keep \/ Raise \/ Return

Spec == Init /\ [][Next]_vars

\* Every call comes back, so the loop gets to its end.
FairSpec == Spec /\ WF_vars(Next)
=============================================================================
