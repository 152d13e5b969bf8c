------------------------------ MODULE Delivery ------------------------------
(***************************************************************************)
(* What the message broker promises a publisher, with nothing of how it    *)
(* keeps the promise.  A pair <<m, q>> stands for "message m, as seen by   *)
(* queue q".  Once accepted a pair is live (a copy of it can still reach a *)
(* handler) until some handler has succeeded on it or it has been buried   *)
(* in the dead letter queue.  Duplicates are allowed: a pair may be        *)
(* accepted, handled and buried any number of times.                       *)
(***************************************************************************)
CONSTANT Pairs          \* the (message, queue) pairs there can be

VARIABLES
  accepted,             \* pairs of which a copy has ever been put in a queue
  live,                 \* pairs of which a copy is queued or unacknowledged
  handled,              \* pairs some handler call completed without throwing
  dead                  \* pairs with a copy in the dead letter queue

vars == <<accepted, live, handled, dead>>

Init == /\ accepted = {}
        /\ live = {}
        /\ handled = {}
        /\ dead = {}

\* One publish, or one retry, puts copies of the pairs S in their queues.
Accept(S) == /\ accepted' = accepted \cup S
             /\ live' = live \cup S
             /\ UNCHANGED <<handled, dead>>

Handle(p) == /\ p \in accepted
             /\ handled' = handled \cup {p}
             /\ UNCHANGED <<accepted, live, dead>>

\* A copy of p goes to the dead letter queue; other copies may remain live.
Bury(p) == /\ p \in live
           /\ dead' = dead \cup {p}
           /\ live' \in {live, live \ {p}}
           /\ UNCHANGED <<accepted, handled>>

\* A copy of p is acknowledged, which only a handled pair may suffer.
Retire(p) == /\ p \in live \cap handled
             /\ live' \in {live, live \ {p}}
             /\ UNCHANGED <<accepted, handled, dead>>

Next == \/ \E S \in SUBSET Pairs : Accept(S)
        \/ \E p \in Pairs : Handle(p) \/ Bury(p) \/ Retire(p)

Spec == Init /\ [][Next]_vars

(***************************************************************************)
(* At-least-once: an accepted pair is never forgotten.                     *)
(***************************************************************************)
NeverForgotten == accepted \subseteq live \cup handled \cup dead
=============================================================================
