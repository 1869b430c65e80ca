--------------------------- MODULE CommitConfirm ---------------------------
(***************************************************************************)
(* What the egress policy engine promises of a VM's record, without taps,  *)
(* kernel lists or the steps an operation is made of: a policy is tried,   *)
(* and goes back to what was in force before the trial unless a person     *)
(* confirms it in time; a request is carried out whole or not at all; and  *)
(* a restart has what is on file.  EgressPolicy implements this.           *)
(***************************************************************************)
EXTENDS Naturals

CONSTANTS
  VMs,       \* VM names
  HasStore,  \* records are kept on file
  NoPolicy,  \* the record of a VM without a policy
  NoRevert   \* the revert of a policy that is not on trial

VARIABLES
  held,   \* per VM, the record in force: [mode, allow, revert]
  kept,   \* per VM, the record on file
  asked,  \* the VM a request is being carried out for, or none
  now     \* the clock

ccVars == <<held, kept, asked, now>>

Init ==
  /\ held = [v \in VMs |-> NoPolicy] /\ kept = [v \in VMs |-> NoPolicy]
  /\ asked = {} /\ now = 0

OnTrial(r) == r.revert.on

\* What a record goes back to, or what it is if it is not on trial.
Before(r) ==
  IF OnTrial(r) THEN [mode |-> r.revert.mode, allow |-> r.revert.allow] ELSE [mode |-> r.mode, allow |-> r.allow]

GoneBack(r) == [mode |-> r.revert.mode, allow |-> r.revert.allow, revert |-> NoRevert]
Confirmed(r) == [mode |-> r.mode, allow |-> r.allow, revert |-> NoRevert]

\* A request may make any policy permanent; one it puts on trial enforces, and goes back to what was there before
\* all trials.
Changes(old, new) == OnTrial(new) => new.mode = "enforce" /\ Before(new) = Before(old)

\* The file has a record, if there is a file.
Keeps(r) == kept' = IF HasStore THEN r ELSE kept

\* A request begins.  What an earlier save left out is saved with it.
Ask(v) ==
  /\ asked = {} /\ asked' = {v}
  /\ kept' \in {kept, held}
  /\ UNCHANGED <<held, now>>

\* It is carried out, and is on file.  Only the end of a policy counts without a file that says so.
CarryOut(v) ==
  /\ asked = {v} /\ asked' = {}
  /\ held' = [held EXCEPT ![v] = held'[v]] /\ Changes(held[v], held'[v])
  /\ Keeps(held') \/ (held'[v] = NoPolicy /\ kept' = kept)
  /\ UNCHANGED now

\* It is given up and changes nothing, but the file may have it.
GiveUp(v) ==
  /\ asked \in {{}, {v}} /\ asked' = {}
  /\ \/ kept' \in {kept, held}
     \/ kept' = [held EXCEPT ![v] = kept'[v]] /\ Changes(held[v], kept'[v])
  /\ UNCHANGED <<held, now>>

\* A person confirms a policy on trial, and it stays.
Confirm(v) ==
  /\ asked = {} /\ OnTrial(held[v])
  /\ held' = [held EXCEPT ![v] = Confirmed(@)] /\ Keeps(held')
  /\ UNCHANGED <<asked, now>>

\* The time of a trial is over: the VM goes back.
GoBack(v) ==
  /\ asked = {} /\ OnTrial(held[v]) /\ held[v].revert.until <= now
  /\ held' = [held EXCEPT ![v] = GoneBack(@)]
  /\ UNCHANGED <<kept, asked, now>>

Save == kept' = held /\ UNCHANGED <<held, asked, now>>

\* The daemon ends, and what is on file counts: of a request that was being carried out, the file may have it.
Restart ==
  /\ asked' = {} /\ held' = kept'
  /\ \/ kept' = kept
     \/ \E v \in asked : kept' = [held EXCEPT ![v] = kept'[v]] /\ Changes(held[v], kept'[v])
  /\ UNCHANGED now

Tick == now' = now + 1 /\ UNCHANGED <<held, kept, asked>>

Next ==
  \/ \E v \in VMs : Ask(v) \/ CarryOut(v) \/ GiveUp(v) \/ Confirm(v) \/ GoBack(v)
  \/ Save \/ Restart \/ Tick

Spec == Init /\ [][Next]_ccVars
=============================================================================
