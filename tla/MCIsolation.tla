---------------------------- MODULE MCIsolation ----------------------------
(* The instance of Isolation in which requests and re-applying overlap; the other is in MCIsolationAlerts. *)
EXTENDS Isolation

CONSTANTS v1, t1, p1, p2

OneVM == {v1}
OneTap == {t1}
OneVMOwner == [t \in Taps |-> v1]

People == {p1, p2}

=============================================================================
