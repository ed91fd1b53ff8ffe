-------------------------- MODULE MCStripeWebhooks --------------------------
(* One customer who subscribes, falls behind, pauses and leaves, and who     *)
(* subscribes again while the old subscription's events are under way.       *)
EXTENDS StripeWebhooks, TLC

CONSTANTS createdA, behindA, pausedA, resumedA, deletedA, createdB, a, b

MCSubscription == [e \in Events |-> IF e = createdB THEN b ELSE a]
MCType == [e \in Events |->
    CASE e \in {createdA, createdB} -> "created"
      [] e = behindA -> "updated"
      [] e = pausedA -> "paused"
      [] e = resumedA -> "resumed"
      [] e = deletedA -> "deleted"]
MCPayload == [e \in Events |->
    CASE e = createdA -> "trialing"
      [] e = behindA -> "past_due"
      [] e = pausedA -> "paused"
      [] e = deletedA -> "canceled"
      [] OTHER -> "active"]
MCEmittedAt == [e \in Events |->
    CASE e = createdA -> 1 [] e = behindA -> 2 [] e = pausedA -> 3
      [] e = resumedA -> 4 [] e = createdB -> 5 [] e = deletedA -> 6]

Symmetry == Permutations(Workers)

=============================================================================
