----------------------------- MODULE MCResponse -----------------------------
(* Instances of Response for TLC. *)
EXTENDS Response

CONSTANTS v1, t1, run, h1, h2, propose, enforce, dry

OneVM == {v1}
OneTap == {t1}
OneOwner == [t \in OneTap |-> v1]

\* One goroutine that runs, and one that decides, or two.
OneHandler == {h1}
TwoHandlers == {h1, h2}
AllCallers == {run} \cup Handlers

OnlyPropose == {propose}
ProposeAndEnforce == {propose, enforce}
AllThree == {propose, enforce, dry}
Modes == [r \in Responses |-> CASE r = propose -> "propose" [] r = enforce -> "enforce" [] r = dry -> "dry_run"]

\* The rules stay as they are, or may come to protect the VM, or to have no response.
SameRules == {[cfg |-> Responses, protected |-> {}]}
ChangingRules == {[cfg |-> Responses, protected |-> {}], [cfg |-> Responses, protected |-> VMs],
                  [cfg |-> {}, protected |-> {}]}

=============================================================================
