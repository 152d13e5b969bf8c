--------------------------- MODULE MCRetryDelivery ---------------------------
(***************************************************************************)
(* Small instances of RetryDelivery: two queues and the ways the topic     *)
(* exchange can be bound to them.                                          *)
(***************************************************************************)
EXTENDS RetryDelivery, TLC

CONSTANTS q1, q2, t1

\* One topic, both queues bound to it.
FanOut == (t1 :> {q1, q2}) @@ (q1 :> {q1}) @@ (q2 :> {q2})

\* Queue names match no binding pattern.
NamesUnbound == (t1 :> {q1}) @@ (q1 :> {}) @@ (q2 :> {})

\* A single queue.
Single == (t1 :> {q1}) @@ (q1 :> {q1})
=============================================================================
