------------------------------ MODULE MCEvents ------------------------------
(* Instances of Events for TLC. *)
EXTENDS Events

CONSTANTS c1

OneClient == {c1}
\* The files and the readers meet only in Restore, so they are explored apart.
Apart == {[dir |-> TRUE, role |-> "none"], [dir |-> FALSE, role |-> "stream"], [dir |-> FALSE, role |-> "poll"]}
\* One place for detections and two for the host's connects.
Shares == <<0, 1, 0, 0, 2, 0>>

\* Refilled is one Add after another, for snapshots up to three times the ring's size.
ASSUME RefilledIsAdds ==
  \A n \in 0..(3 * RecCap) : LET s == [i \in 1..n |-> i] IN Refilled(s) = FoldLeft(RingAdd, EmptyRing, s)
\* Decoded keeps the lines that decode, in their order.
ASSUME DecodedIsWhole ==
  \A n \in 0..4 : \A f \in [1..n -> BOOLEAN] :
    LET s == [i \in 1..n |-> [e |-> i, ok |-> f[i]]]
        t == SelectSeq(s, LAMBDA l : l.ok)
    IN  Decoded(s) = [i \in DOMAIN t |-> t[i].e]
=============================================================================
