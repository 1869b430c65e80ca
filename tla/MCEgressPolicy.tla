--------------------------- MODULE MCEgressPolicy ---------------------------
(* Instances of EgressPolicy for TLC. *)
EXTENDS EgressPolicy

CONSTANTS v1, v2, t1, t2, n1, n2

\* One VM with two taps: a change may take on one and not on the other.
OneVM == {v1}
TwoTaps == {t1, t2}
OneVMOwner == [t \in TwoTaps |-> v1]

\* Two VMs with a tap each: one file holds both records.
TwoVMs == {v1, v2}
TwoVMsOwner == [t \in TwoTaps |-> IF t = t1 THEN v1 ELSE v2]

OneNet == {n1}
TwoNets == {n1, n2}

=============================================================================
