----------------------------- MODULE EventInbox -----------------------------
(***************************************************************************)
(* What the webhook endpoint promises Stripe and the club, as if events    *)
(* were handled in one step each: an event on record is not handled again, *)
(* it is answered only when it is settled, and a subject that has been     *)
(* closed stays closed, unless its events got mixed up: two at a time, or  *)
(* late and by hand.                                                       *)
(***************************************************************************)
CONSTANTS
    Events,
    Subject,     \* what each event is about
    Opening,     \* the events that make their subject the current one
    Closing,     \* the events that end their subject
    Nobody       \* no subject is current

VARIABLES
    recorded,    \* events on record
    done,        \* events that have been applied
    rejected,    \* events turned away for another one of their subject
    undone,      \* events whose handling was undone without a word
    answered,    \* events the sender knows to be settled
    over,        \* events the sender has given up on
    mixed,       \* subjects whose events got mixed up
    current      \* the current subject

vars == <<recorded, done, rejected, undone, answered, over, mixed, current>>

Init ==
    /\ recorded = {} /\ done = {} /\ rejected = {} /\ undone = {}
    /\ answered = {} /\ over = {} /\ mixed = {}
    /\ current = Nobody

Mixed(e) == Subject[e] \in mixed
Closed(e) == \E d \in done \cap Closing : Subject[d] = Subject[e]

\* The current subject is opened by its own events and closed by its own events.
Turn(e) ==
    \/ e \in Opening /\ current' = Subject[e]
    \/ e \in Closing /\ current \in {Subject[e], Nobody} /\ current' = Nobody
    \/ /\ e \notin Opening
       /\ e \in Closing => Mixed(e) \/ current # Subject[e]
       /\ UNCHANGED current

Apply(e) ==
    /\ Mixed(e) \/ e \in Closing \/ ~Closed(e)
    /\ Turn(e)
    /\ done' = done \cup {e}
    /\ UNCHANGED <<rejected, undone, over, mixed>>

\* The answer may get lost.
MayAnswer(e) == answered' \in {answered, answered \cup {e}}

Handle(e) ==
    /\ e \notin recorded
    /\ Mixed(e) \/ e \notin over
    /\ Apply(e)
    /\ recorded' = recorded \cup {e}
    /\ MayAnswer(e)

\* By hand, whether or not the event is on record.
Force(e) ==
    /\ Mixed(e) \/ e \in recorded
    /\ Apply(e)
    /\ UNCHANGED <<recorded, answered>>

Reject(e) ==
    /\ \E f \in recorded \ {e} : Subject[f] = Subject[e]
    /\ rejected' = rejected \cup {e}
    /\ MayAnswer(e)
    /\ UNCHANGED <<recorded, done, undone, over, mixed, current>>

Undo(e) ==
    /\ undone' = undone \cup {e}
    /\ MayAnswer(e)
    /\ UNCHANGED <<recorded, done, rejected, over, mixed, current>>

AnswerAgain(e) ==
    /\ e \in recorded
    /\ answered' = answered \cup {e}
    /\ UNCHANGED <<recorded, done, rejected, undone, over, mixed, current>>

\* Old records go once the sender has given up on their events.
Forget(gone) ==
    /\ recorded' = recorded \ gone
    /\ over \cup gone \subseteq over'
    /\ UNCHANGED <<done, rejected, undone, answered, mixed, current>>

Mix(e) ==
    /\ mixed' = mixed \cup {Subject[e]}
    /\ UNCHANGED <<recorded, done, rejected, undone, answered, over, current>>

Next ==
    \/ \E e \in Events : \/ Handle(e) \/ Force(e) \/ Reject(e) \/ Undo(e)
                         \/ AnswerAgain(e) \/ Mix(e)
    \/ \E gone \in SUBSET recorded : Forget(gone)

Spec == Init /\ [][Next]_vars

=============================================================================
