--------------------------- MODULE VersionedRoster ---------------------------
(***************************************************************************)
(* What rosterService promises the clients who edit one roster together.   *)
(* An edit is one step: it compares the version its client was shown,      *)
(* finds room and no second place for the same member, and changes the     *)
(* roster and the version.  The staff pages may strike players in between, *)
(* without touching the version; players they enter themselves are not     *)
(* part of this promise.                                                   *)
(***************************************************************************)
EXTENDS Naturals, FiniteSets

CONSTANTS
    Edits,       \* the edits, and the places they take
    Members,
    Guest,       \* who has a place without being a member
    NoVersion    \* the client was shown no version, or sends none

VARIABLES
    players,     \* who has each place that is taken
    revision,    \* the number of edits made
    shown,       \* the revision shown to the client of each edit
    most         \* the largest number of players the booking has been for

vars == <<players, revision, shown, most>>

Places == DOMAIN players

Init ==
    /\ players = [e \in {} |-> Guest]
    /\ revision = 0
    /\ shown = [e \in Edits |-> NoVersion]
    /\ most \in Nat

Show(e) ==
    /\ shown' = [shown EXCEPT ![e] = revision]
    /\ UNCHANGED <<players, revision, most>>

RaiseCount ==
    /\ most' \in Nat /\ most' > most
    /\ UNCHANGED <<players, revision, shown>>

\* Players leave the places of gone.
Vacate(gone) == players' = [e \in Places \ gone |-> players[e]]

Revise(e) ==
    /\ shown[e] \in {NoVersion, revision}
    /\ revision' = revision + 1
    /\ UNCHANGED <<shown, most>>

\* The owner has a place besides.  A member may take a guest's.
Add(e, p, gone) ==
    /\ Revise(e)
    /\ e \notin Places
    /\ 1 + Cardinality(Places) < most
    /\ p \in Members => \A f \in Places : players[f] # p
    /\ gone # {} => p \in Members /\ \E f \in Places : gone = {f} /\ players[f] = Guest
    /\ players' = [f \in (Places \ gone) \cup {e} |-> IF f = e THEN p ELSE players[f]]

Remove(e, f) == Revise(e) /\ Vacate({f})

Touch(e) == Revise(e) /\ UNCHANGED players

Strike(gone) == Vacate(gone) /\ UNCHANGED <<revision, shown, most>>

Next ==
    \/ \E gone \in SUBSET Places : Strike(gone)
    \/ \E e \in Edits : Show(e) \/ Touch(e)
    \/ RaiseCount
    \/ \E e \in Edits, f \in Edits : Remove(e, f)
    \/ \E e \in Edits, p \in Members \cup {Guest}, gone \in SUBSET Places : Add(e, p, gone)

Spec == Init /\ [][Next]_vars

=============================================================================
