----------------------------- MODULE FeeAccount -----------------------------
(***************************************************************************)
(* What the club promises about the money for one booking's fees.  One     *)
(* account, several payments: a payment is captured, canceled or returned  *)
(* by the rules of Stripe; the account is settled by one captured payment  *)
(* or by hand, stays settled until that payment is returned or a later     *)
(* request sets it aside, and nobody who has paid is charged to another    *)
(* payment.                                                                *)
(***************************************************************************)
CONSTANTS
    Payments,
    Participants,
    Nobody       \* no payment: pending, or paid by hand

VARIABLES
    charge,      \* the state of each payment
    returned,    \* how much of it has been given back
    settledBy,   \* the payment that settles the account, if one does
    share,       \* the state of each participant's share
    payer        \* the payment that has paid it

vars == <<charge, returned, settledBy, share, payer>>

money == <<charge, returned>>
account == <<settledBy, share, payer>>

Init ==
    /\ charge = [i \in Payments |-> "none"]
    /\ returned = [i \in Payments |-> "none"]
    /\ settledBy = {}
    /\ share = [p \in Participants |-> "pending"]
    /\ payer = [p \in Participants |-> Nobody]

Captured(i) == charge[i] = "succeeded"

Move(I, from, to) ==
    /\ \A i \in I : charge[i] = from
    /\ charge' = [i \in Payments |-> IF i \in I THEN to ELSE charge[i]]

GiveBack(I, kind) ==
    /\ \A i \in I : Captured(i) /\ returned[i] # "all"
    /\ returned' = [i \in Payments |-> IF i \in I THEN kind ELSE returned[i]]

Mark(P, state) == share' = [p \in Participants |-> IF p \in P THEN state ELSE share[p]]

-----------------------------------------------------------------------------
(* Payments *)

Open(i) == Move({i}, "none", "open") /\ UNCHANGED <<returned, account>>

Capture(i) == Move({i}, "open", "succeeded") /\ UNCHANGED <<returned, account>>

\* Open payments are canceled and captured ones returned.
Clear(I, J) == Move(I, "open", "canceled") /\ GiveBack(J, "all") /\ UNCHANGED account

Return(i, kind) == GiveBack({i}, kind) /\ UNCHANGED <<charge, account>>

\* A later request cancels a payment, or fails to, and sets it aside.
SetAside(i) ==
    /\ Move({i}, "open", "canceled") \/ UNCHANGED charge
    /\ settledBy' = settledBy \ {i}
    /\ UNCHANGED <<returned, share, payer>>

-----------------------------------------------------------------------------
(* The account *)

\* Payment i pays what is open of the shares of P.
PayFor(P, i) ==
    /\ Captured(i)
    /\ \A p \in P : share[p] \notin {"paid", "waived"}
    /\ Mark(P, "paid")
    /\ payer' = [p \in Participants |-> IF p \in P THEN i ELSE payer[p]]
    /\ UNCHANGED money

Settle(i, P) == settledBy = {} /\ settledBy' = {i} /\ PayFor(P, i)

\* A payment that has lost its snapshot.
Credit(i, P) == (\A p \in P : payer[p] = Nobody) /\ PayFor(P, i) /\ UNCHANGED settledBy

ByHand(P, state) ==
    /\ \A p \in P : share[p] = "pending"
    /\ Mark(P, state)
    /\ \/ state = "paid" /\ settledBy \subseteq {Nobody} /\ settledBy' = {Nobody}
       \/ UNCHANGED settledBy
    /\ UNCHANGED <<money, payer>>

\* The account hears of a returned payment.
Reverse(i, P) ==
    /\ returned[i] # "none"
    /\ Mark(P, "refunded")
    /\ settledBy' \in {settledBy, settledBy \ {i}}
    /\ UNCHANGED <<money, payer>>

\* Staff return a payment, to those whose shares it has paid.
Refund(i, kind) ==
    /\ GiveBack({i}, kind)
    /\ Mark({p \in Participants : payer[p] = i}, "refunded")
    /\ UNCHANGED <<charge, settledBy, payer>>

Next ==
    \/ \E i \in Payments :
          \/ Open(i) \/ Capture(i) \/ SetAside(i)
          \/ \E kind \in {"part", "all"} : Return(i, kind) \/ Refund(i, kind)
          \/ \E P \in SUBSET Participants : Settle(i, P) \/ Credit(i, P) \/ Reverse(i, P)
    \/ \E I \in SUBSET Payments, J \in SUBSET Payments : Clear(I, J)
    \/ \E P \in SUBSET Participants, state \in {"paid", "waived"} : ByHand(P, state)

Spec == Init /\ [][Next]_vars

=============================================================================
