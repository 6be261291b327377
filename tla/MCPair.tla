------------------------------- MODULE MCPair -------------------------------
(***************************************************************************)
(* A paced, noisy pair with one stalled consumer, and what TLC checks of it. *)
(***************************************************************************)
EXTENDS Pair

\* "Nothing overtakes anything" (wire.rs:29-30) and "a stalled reader on one side
\* never blocks the other direction" (pair.rs:3-5): what is typed to an attentive
\* side gets there, in order and complete but for noise and failed writes, whatever the
\* other side does.
TypedArrives ==
  \A s \in Attentive : \A n \in 1..MaxTyped :
    (typed[Other(s)] >= n) ~>
      (SelectSeq(heard[s], LAMBDA m : m <= n)
         = SelectSeq([m \in 1..n |-> m], LAMBDA m : m \notin lost[Other(s)]))
=============================================================================
