------------------------ MODULE AtLeastOnceDelivery ------------------------
(***************************************************************************)
(* What the durable job queue promises to the code that submits work to    *)
(* it: a submitted item stays outstanding until it has been delivered (its *)
(* handler ran to the end) or until its budget of failed attempts is used  *)
(* up, it is then settled for good, and only a delivered item is ever      *)
(* purged.  Nothing is said of how many times an item is delivered.        *)
(***************************************************************************)
EXTENDS Naturals

CONSTANTS
    Items,       \* the items that may be submitted
    Budget       \* failed attempts after which an item may be given up

VARIABLES
    standing,    \* "new", "outstanding", "settled" or "gone"
    failures,    \* failed attempts recorded for each item
    delivered    \* the items whose handler ran to the end at least once

vars == <<standing, failures, delivered>>

Known(i) == standing[i] # "new"

Init ==
    /\ standing = [i \in Items |-> "new"]
    /\ failures = [i \in Items |-> 0]
    /\ delivered = {}

Submit(is) ==
    /\ \A i \in is : standing[i] = "new"
    /\ standing' = [i \in Items |-> IF i \in is THEN "outstanding" ELSE standing[i]]

Deliver(i) ==
    /\ Known(i)
    /\ delivered' = delivered \cup {i}
    /\ UNCHANGED failures

Settle(i) ==
    /\ standing[i] \in {"outstanding", "settled"}
    /\ standing' = [standing EXCEPT ![i] = "settled"]

Complete(i) ==
    /\ i \in delivered
    /\ Settle(i)
    /\ UNCHANGED <<failures, delivered>>

CountFailure(i) ==
    /\ standing[i] \in {"outstanding", "settled"}
    /\ failures' = [failures EXCEPT ![i] = @ + 1]
    /\ UNCHANGED delivered

GiveUp(i) ==
    /\ CountFailure(i)
    /\ failures[i] + 1 >= Budget[i]
    /\ Settle(i)

Purge(is) ==
    /\ \A i \in is : standing[i] = "settled" /\ i \in delivered
    /\ standing' = [i \in Items |-> IF i \in is THEN "gone" ELSE standing[i]]
    /\ UNCHANGED <<failures, delivered>>

Next ==
    \/ \E is \in SUBSET Items : Submit(is) /\ UNCHANGED <<failures, delivered>>
    \/ \E i \in Items, is \in SUBSET Items :
          Deliver(i) /\ (Submit(is) \/ (is = {} /\ UNCHANGED standing))
    \/ \E i \in Items : Complete(i) \/ GiveUp(i)
    \/ \E i \in Items : CountFailure(i) /\ UNCHANGED standing
    \/ \E is \in SUBSET Items : Purge(is)

Spec == Init /\ [][Next]_vars
=============================================================================
