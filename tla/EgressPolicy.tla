---------------------------- MODULE EgressPolicy ----------------------------
(***************************************************************************)
(* The egress policy engine (src/internal/policy/policy.go) with what it   *)
(* drives and what it depends on: the record in memory and on disk         *)
(* (internal/persist), the tap program's per-tap policy in pinned kernel   *)
(* maps and the manager's cached view of it (internal/bpfgen/tap.go), the  *)
(* scan and the sync of taps (internal/agent), and the daemon's own life:  *)
(* crash, graceful stop, start, and `shukrad -detach-all`.                 *)
(*                                                                         *)
(* The engine holds its mutex for a whole operation, so operations never   *)
(* interleave with each other; but a VM may stop, the scan may change,     *)
(* taps may be attached or lost, the clock may advance and the daemon may  *)
(* die between any two steps of one.  An operation is therefore a sequence *)
(* of steps, in `op` (the operation) and `job` (the setTaps call it is in).*)
(***************************************************************************)
EXTENDS Naturals, FiniteSets

CONSTANTS
  VMs,          \* VM names
  Taps,         \* tap interface names
  Owner,        \* Owner[t] is the VM whose tap t is
  Nets,         \* the networks a list is made of
  MaxAllow,     \* the longest list a policy may have (MaxAllow in policy.go)
  Confirms,     \* the confirmation times a request may give, in clock ticks
  HasStore,     \* the daemon runs with -data-dir
  Floors,       \* what -isolate-allow may be at a start: TRUE is a list, FALSE none
  Overlap,      \* policy work may run before the taps are adopted or after shutdown let them go
  MaxTime,      \* bound: the clock stops here
  MaxOps,       \* bound: requests a person makes
  MaxFaults     \* bound: crashes, stops, failed writes and vanished VMs

ASSUME ConstantsAssumption ==
  /\ VMs # {} /\ Taps # {}
  /\ Owner \in [Taps -> VMs]
  /\ MaxAllow \in Nat
  /\ Confirms \subseteq Nat \ {0}
  /\ HasStore \in BOOLEAN
  /\ Floors \subseteq BOOLEAN
  /\ Overlap \in BOOLEAN
  /\ MaxTime \in Nat
  /\ MaxOps \in Nat
  /\ MaxFaults \in Nat

VARIABLES
  up,       \* "down", "up", or "stopping": ShutdownTaps is done and the process is not gone yet
  floor,    \* the management allow list is loaded
  now,      \* the clock
  running,  \* the VMs that run on the host
  scan,     \* the VMs the daemon's state holds (State.SetVMs)
  refresh,  \* "idle", or "scanned": Refresh has set the VMs and not synced the taps
  adopted,  \* the first SyncTaps of this process is done
  att,      \* per tap, the manager's link: "none", "live", or "stale" (its interface is gone)
  cache,    \* per tap, tapLinks.egress: the mode last set or read back
  kern,     \* per tap, the policy the kernel applies on the interface that exists now
  mem,      \* per VM, the engine's record (Engine.pol)
  disk,     \* per VM, the record in policies.json
  unsaved,  \* the last save failed, so the file may differ from the record
  op,       \* the engine operation that holds e.mu
  job,      \* the setTaps call in progress
  ops,      \* requests made so far
  faults    \* faults so far

vars == <<up, floor, now, running, scan, refresh, adopted, att, cache, kern,
          mem, disk, unsaved, op, job, ops, faults>>
envVars == <<up, floor, now, running, scan, refresh, adopted>>
kernVars == <<att, cache, kern>>
recVars == <<mem, disk, unsaved>>

-----------------------------------------------------------------------------
(* Values *)

Modes == {"off", "audit", "enforce"}

\* Revert: where an unconfirmed policy goes back to. Mode off means it is removed.
Reverts == [on : BOOLEAN, until : Nat, mode : Modes, allow : SUBSET Nets]
NoRevert == [on |-> FALSE, until |-> 0, mode |-> "off", allow |-> {}]

\* Policy: the record of one VM. A VM without a record is one with mode off.
Policies == [mode : Modes, allow : SUBSET Nets, revert : Reverts]
NoPolicy == [mode |-> "off", allow |-> {}, revert |-> NoRevert]

\* What the kernel holds for an interface: tap_policy.egress and its keys in egress4 and egress6.
KernelPolicies == [mode : Modes, list : SUBSET Nets]
KernelOff == [mode |-> "off", list |-> {}]

Ops == [kind : {"idle", "apply", "undo", "remove", "revert", "fix"},
        vm : VMs, prev : Policies, due : SUBSET VMs, left : SUBSET Taps]
NoVM == CHOOSE v \in VMs : TRUE
IdleOp == [kind |-> "idle", vm |-> NoVM, prev |-> NoPolicy, due |-> {}, left |-> {}]

\* A setTaps call: the taps it still has to visit, the ones that did not take it, and how far
\* SetTapEgress is with the tap it is on.
Jobs == [todo : SUBSET Taps, failed : SUBSET Taps, stage : {"none", "mode", "trim"},
         tap : Taps, mode : Modes, allow : SUBSET Nets]
NoTap == CHOOSE t \in Taps : TRUE
Job(taps, mode, allow) ==
  [todo |-> taps, failed |-> {}, stage |-> "none", tap |-> NoTap, mode |-> mode, allow |-> allow]
IdleJob == Job({}, "off", {})

TapsOf(v) == {t \in Taps : Owner[t] = v}

\* find: the taps of a VM that is in the current scan, and none otherwise.
ScanTaps(v) == IF v \in scan THEN TapsOf(v) ELSE {}

\* TapEgress: the manager's view of a tap's mode.
Mode(t) == IF att[t] = "none" THEN "off" ELSE cache[t]

Idle == op.kind = "idle"
JobDone == job.todo = {} /\ job.stage = "none"
Fault == faults < MaxFaults /\ faults' = faults + 1
Request == ops < MaxOps /\ ops' = ops + 1

\* The daemon takes requests and does policy work. Overlap is what main.go allows: the engine's ticker
\* runs before the first Refresh has adopted the taps, and after ShutdownTaps has let them go.
Working == up = "up" /\ (Overlap \/ adopted)

-----------------------------------------------------------------------------
(* Saving the record: Engine.saveLocked over persist.WriteFileAtomic *)

\* Wrong variant of Save: the file is left for a later save to write.
SaveSkipped(m) == UNCHANGED disk /\ unsaved' = FALSE

\* saveLocked writes every VM's record. Without a store it does nothing and says it worked.
Save(m) ==
  /\ disk' = IF HasStore THEN m ELSE disk
  /\ unsaved' = FALSE

\* A save that reports an error. The file is as it was, or, when only syncing the directory after
\* the rename failed, already the new one.
SaveFails(m) ==
  /\ HasStore
  /\ Fault
  /\ disk' \in {disk, m}
  /\ unsaved' = TRUE

-----------------------------------------------------------------------------
(* setTaps, and under it SetTapEgress: add what is new, set the mode, remove what is stale *)

Added(list, allow) == list \cup allow

\* Wrong variant of Trimmed: the test of what is stale is the wrong way round.
TrimmedInverted(list, allow) == list \ allow

Trimmed(list, allow) == list \cap allow

JobNext(failed) ==
  job' = [job EXCEPT !.todo = @ \ {job.tap}, !.stage = "none", !.failed = @ \cup failed]

\* The tap does not carry the program: SetTapEgress fails before it changes anything.
SetNoLink(t) ==
  /\ up # "down" /\ job.stage = "none" /\ t \in job.todo
  /\ att[t] = "none"
  /\ job' = [job EXCEPT !.todo = @ \ {t}, !.failed = @ \cup {t}]
  /\ UNCHANGED <<envVars, kernVars, recVars, op, ops, faults>>

\* The new networks are in. A stale link writes under an index no interface has.
SetAdd(t) ==
  /\ up # "down" /\ job.stage = "none" /\ t \in job.todo
  /\ att[t] # "none"
  /\ kern' = IF att[t] = "live" THEN [kern EXCEPT ![t].list = Added(@, job.allow)] ELSE kern
  /\ job' = [job EXCEPT !.stage = "mode", !.tap = t]
  /\ UNCHANGED <<envVars, att, cache, recVars, op, ops, faults>>

\* Adding a network, or writing the mode, failed with part of the networks in. A list of none adds
\* nothing and overwrites a value that is there, which a map update does not fail at.
SetAddFails(t) ==
  /\ up # "down" /\ job.stage = "none" /\ t \in job.todo
  /\ att[t] # "none"
  /\ job.allow # {}
  /\ Fault
  /\ \E part \in SUBSET job.allow :
       kern' = IF att[t] = "live" THEN [kern EXCEPT ![t].list = Added(@, part)] ELSE kern
  /\ job' = [job EXCEPT !.todo = @ \ {t}, !.failed = @ \cup {t}]
  /\ UNCHANGED <<envVars, att, cache, recVars, op, ops>>

SetMode ==
  /\ up # "down" /\ job.stage = "mode"
  /\ kern' = IF att[job.tap] = "live" THEN [kern EXCEPT ![job.tap].mode = job.mode] ELSE kern
  /\ cache' = [cache EXCEPT ![job.tap] = job.mode]
  /\ job' = [job EXCEPT !.stage = "trim"]
  /\ UNCHANGED <<envVars, att, recVars, op, ops, faults>>

SetTrim ==
  /\ up # "down" /\ job.stage = "trim"
  /\ kern' = IF att[job.tap] = "live"
             THEN [kern EXCEPT ![job.tap].list = Trimmed(@, job.allow)] ELSE kern
  /\ JobNext({})
  /\ UNCHANGED <<envVars, att, cache, recVars, op, ops, faults>>

SetTaps == (\E t \in Taps : SetNoLink(t) \/ SetAdd(t) \/ SetAddFails(t)) \/ SetMode \/ SetTrim

-----------------------------------------------------------------------------
(* Apply *)

\* Wrong variant of RevertFor: the mode to go back to is left empty when there was no policy.
RevertForUnset(prev, until) ==
  [on |-> TRUE, until |-> until, mode |-> IF prev.mode = "off" THEN "" ELSE prev.mode,
   allow |-> prev.allow]

\* Wrong variant of RevertFor: a change to an unconfirmed policy goes back to that policy.
RevertForLast(prev, until) ==
  [on |-> TRUE, until |-> until, mode |-> prev.mode, allow |-> prev.allow]

\* Changing a policy that was never confirmed goes back to what came before all of it.
RevertFor(prev, until) ==
  [on |-> TRUE, until |-> until,
   mode |-> IF prev.revert.on THEN prev.revert.mode ELSE prev.mode,
   allow |-> IF prev.revert.on THEN prev.revert.allow ELSE prev.allow]

\* Wrong variant of MayEnforce: an empty list is not refused.
MayEnforceEmpty(list) == floor /\ HasStore

\* What enforcing needs besides a confirmation time or an explicit choice of none.
MayEnforce(list) == floor /\ HasStore /\ list # {}

\* The record a request makes. confirm = 0 is --permanent for enforce, and ignored for audit.
NewPolicy(v, mode, list, confirm) ==
  [mode |-> mode, allow |-> list,
   revert |-> IF mode = "enforce" /\ confirm > 0
              THEN RevertFor(mem[v], now + confirm) ELSE NoRevert]

\* The guards of applyLocked. The list may be the one given, the baseline's (which may be empty) or
\* the VM's own: each is a list of networks.
MayApply(v, mode, list, confirm) ==
  /\ Working /\ Idle
  /\ v \in scan
  /\ TapsOf(v) # {}
  /\ Cardinality(list) <= MaxAllow
  /\ mode = "enforce" => MayEnforce(list)
  /\ now + confirm <= MaxTime

Apply(v, mode, list, confirm) ==
  /\ MayApply(v, mode, list, confirm)
  /\ Request
  /\ mem' = [mem EXCEPT ![v] = NewPolicy(v, mode, list, confirm)]
  /\ Save(mem')
  /\ op' = [IdleOp EXCEPT !.kind = "apply", !.vm = v, !.prev = mem[v]]
  /\ job' = Job(TapsOf(v), mode, list)
  /\ UNCHANGED <<envVars, kernVars, faults>>

\* "The policy was not saved, so it was not applied": the record is put back and nothing else is done.
ApplyNotSaved(v, mode, list, confirm) ==
  /\ MayApply(v, mode, list, confirm)
  /\ Request
  /\ SaveFails([mem EXCEPT ![v] = NewPolicy(v, mode, list, confirm)])
  /\ UNCHANGED <<envVars, kernVars, mem, op, job>>

\* At least one tap took it: it stays.
ApplyDone ==
  /\ op.kind = "apply" /\ JobDone
  /\ job.failed # TapsOf(op.vm)
  /\ op' = IdleOp /\ job' = IdleJob
  /\ UNCHANGED <<envVars, kernVars, recVars, ops, faults>>

\* No tap took it: the record is put back and saved (an error is ignored), and so is the kernel.
ApplyUndo ==
  /\ op.kind = "apply" /\ JobDone
  /\ job.failed = TapsOf(op.vm)
  /\ mem' = [mem EXCEPT ![op.vm] = op.prev]
  /\ (Save(mem') /\ UNCHANGED faults) \/ SaveFails(mem')
  /\ op' = [op EXCEPT !.kind = "undo"]
  /\ job' = Job(TapsOf(op.vm), op.prev.mode, op.prev.allow)
  /\ UNCHANGED <<envVars, kernVars, ops>>

UndoDone ==
  /\ op.kind = "undo" /\ JobDone
  /\ op' = IdleOp /\ job' = IdleJob
  /\ UNCHANGED <<envVars, kernVars, recVars, ops, faults>>

-----------------------------------------------------------------------------
(* Confirm and Remove *)

\* A confirmation that cannot be saved does not take effect.
Confirm(v) ==
  /\ Working /\ Idle
  /\ mem[v].revert.on
  /\ Request
  /\ LET kept == [mem EXCEPT ![v].revert = NoRevert] IN
       \/ mem' = kept /\ Save(kept) /\ UNCHANGED faults
       \/ SaveFails(kept) /\ UNCHANGED mem
  /\ UNCHANGED <<envVars, kernVars, op, job>>

\* Remove works with or without a record, as long as there is something to lift. The kernel first.
Remove(v) ==
  /\ Working /\ Idle
  /\ mem[v].mode # "off" \/ \E t \in ScanTaps(v) : Mode(t) # "off"
  /\ Request
  /\ op' = [IdleOp EXCEPT !.kind = "remove", !.vm = v]
  /\ job' = Job(ScanTaps(v), "off", {})
  /\ UNCHANGED <<envVars, kernVars, recVars, faults>>

\* Then the record. A save that fails is only logged.
RemoveDone ==
  /\ op.kind = "remove" /\ JobDone
  /\ mem' = [mem EXCEPT ![op.vm] = NoPolicy]
  /\ (Save(mem') /\ UNCHANGED faults) \/ SaveFails(mem')
  /\ op' = IdleOp /\ job' = IdleJob
  /\ UNCHANGED <<envVars, kernVars, ops>>

-----------------------------------------------------------------------------
(* Reconcile: every two seconds, after every SyncTaps, and once at start *)

\* Wrong variant of Due: only a VM that is in the scan goes back.
DueInScan(v) == v \in scan /\ mem[v].revert.on /\ mem[v].revert.until <= now

\* The timer of an unconfirmed policy has run out.
Due(v) == mem[v].revert.on /\ mem[v].revert.until <= now

\* Wrong variant of Differs: only a tap that lost its policy altogether is looked at.
DiffersIfOff(t) == mem[Owner[t]].mode # "off" /\ Mode(t) = "off"

\* A tap the second half of Reconcile writes: it compares the mode, and only for a VM with a record.
Differs(t) == mem[Owner[t]].mode # "off" /\ Mode(t) # mem[Owner[t]].mode

\* A pass with nothing due and no difference changes nothing, and is not a step. The ticker also runs
\* while the daemon stops.
ReconcileStart ==
  /\ up = "up" \/ (Overlap /\ up = "stopping")
  /\ Overlap \/ adopted
  /\ Idle
  /\ \/ \E v \in VMs : Due(v)
     \/ \E t \in Taps : Owner[t] \in scan /\ Differs(t)
  /\ op' = [IdleOp EXCEPT !.kind = "revert", !.due = {v \in VMs : Due(v)},
                          !.left = {t \in Taps : Owner[t] \in scan}]
  /\ job' = IdleJob
  /\ UNCHANGED <<envVars, kernVars, recVars, ops, faults>>

\* What an unconfirmed policy becomes: its target, with no timer. Mode off is no record.
Reverted(p) == [mode |-> p.revert.mode, allow |-> p.revert.allow, revert |-> NoRevert]

\* Wrong variant of RevertJob: going back to no policy leaves the kernel alone.
RevertJobRecordOnly(v) ==
  LET p == Reverted(mem[v])
  IN  Job(IF p.mode = "off" THEN {} ELSE ScanTaps(v), p.mode, p.allow)

\* The setTaps of a revert: the taps of the VM as it is in the scan now.
RevertJob(v) == LET p == Reverted(mem[v]) IN Job(ScanTaps(v), p.mode, p.allow)

\* One VM goes back: the record, then its taps (a tap that fails is not noted).
RevertOne(v) ==
  /\ op.kind = "revert" /\ JobDone
  /\ v \in op.due
  /\ mem' = [mem EXCEPT ![v] = Reverted(mem[v])]
  /\ op' = [op EXCEPT !.due = @ \ {v}, !.vm = v, !.prev = mem[v]]
  /\ job' = RevertJob(v)
  /\ UNCHANGED <<envVars, kernVars, disk, unsaved, ops, faults>>

\* Every VM that was due has gone back (prev is what the last of them had): one save if there were
\* any (an error is only logged), and then the kernel is compared with the record.
RevertsDone ==
  /\ op.kind = "revert" /\ JobDone /\ op.due = {}
  /\ \/ op.prev = NoPolicy /\ UNCHANGED <<disk, unsaved, faults>>
     \/ op.prev # NoPolicy /\ ((Save(mem) /\ UNCHANGED faults) \/ SaveFails(mem))
  /\ op' = [op EXCEPT !.kind = "fix"]
  /\ job' = IdleJob
  /\ UNCHANGED <<envVars, kernVars, mem, ops>>

\* One tap whose mode is not the record's is written again.
FixOne(t) ==
  /\ op.kind = "fix" /\ JobDone
  /\ t \in op.left /\ Differs(t)
  /\ op' = [op EXCEPT !.left = @ \ {t}, !.vm = Owner[t]]
  /\ job' = Job({t}, mem[Owner[t]].mode, mem[Owner[t]].allow)
  /\ UNCHANGED <<envVars, kernVars, recVars, ops, faults>>

FixDone ==
  /\ op.kind = "fix" /\ JobDone
  /\ \A t \in op.left : ~Differs(t)
  /\ op' = IdleOp /\ job' = IdleJob
  /\ UNCHANGED <<envVars, kernVars, recVars, ops, faults>>

-----------------------------------------------------------------------------
(* The host: the clock, VMs that stop and start *)

Tick ==
  /\ now < MaxTime
  /\ now' = now + 1
  /\ UNCHANGED <<up, floor, running, scan, refresh, adopted, kernVars, recVars, op, job, ops, faults>>

\* A VM stops and its interfaces go: what the kernel held for them is gone with them.
VMStops(v) ==
  /\ v \in running
  /\ Fault
  /\ running' = running \ {v}
  /\ att' = [t \in Taps |-> IF Owner[t] = v /\ att[t] = "live" THEN "stale" ELSE att[t]]
  /\ kern' = [t \in Taps |-> IF Owner[t] = v THEN KernelOff ELSE kern[t]]
  /\ UNCHANGED <<up, floor, now, scan, refresh, adopted, cache, recVars, op, job, ops>>

VMStarts(v) ==
  /\ v \in VMs \ running
  /\ running' = running \cup {v}
  /\ UNCHANGED <<up, floor, now, scan, refresh, adopted, kernVars, recVars, op, job, ops, faults>>

-----------------------------------------------------------------------------
(* Agent.Refresh: the scan is published first, and the taps are synced after it *)

\* The taps of a scanned VM that exist and do not carry a live link.
Unlinked(t) == Owner[t] \in scan \cap running /\ att[t] # "live"

\* A Refresh that would change nothing is not a step. A scan may miss a VM that runs.
ScanVMs ==
  /\ up = "up" /\ refresh = "idle"
  /\ \/ scan # running \/ ~adopted
     \/ \E t \in Taps : Unlinked(t)
  /\ \/ scan' = running /\ UNCHANGED faults
     \/ \E v \in running : scan' = running \ {v} /\ Fault
  /\ refresh' = "scanned"
  /\ UNCHANGED <<up, floor, now, running, adopted, kernVars, recVars, op, job, ops>>

\* SyncTaps, under the manager's mutex and so never inside a SetTapEgress: a tap no VM wants, or
\* whose interface is gone, is detached or dropped with its policy; a tap without a live link is
\* adopted with the policy its pins hold, or attached anew with none. `lost` did not attach. A Refresh
\* that was under way when the daemon was told to stop may still get here.
SyncTaps ==
  /\ up = "up" \/ (Overlap /\ up = "stopping")
  /\ refresh = "scanned" /\ job.stage = "none"
  /\ \E lost \in SUBSET {t \in Taps : Unlinked(t)} :
       /\ IF lost = {} THEN UNCHANGED faults ELSE Fault
       /\ LET linked == {t \in Taps : Owner[t] \in scan \cap running} \ lost IN
            /\ att' = [t \in Taps |-> IF t \in linked THEN "live" ELSE "none"]
            /\ kern' = [t \in Taps |-> IF t \in linked THEN kern[t] ELSE KernelOff]
            /\ cache' = [t \in Taps |-> IF t \in linked THEN kern[t].mode ELSE "off"]
  /\ refresh' = "idle" /\ adopted' = TRUE
  /\ UNCHANGED <<up, floor, now, running, scan, recVars, op, job, ops>>

-----------------------------------------------------------------------------
(* The daemon's life *)

\* What is in the process is gone.
Forget ==
  /\ scan' = {} /\ refresh' = "idle" /\ adopted' = FALSE
  /\ att' = [t \in Taps |-> "none"] /\ cache' = [t \in Taps |-> "off"]
  /\ mem' = [v \in VMs |-> NoPolicy] /\ unsaved' = FALSE
  /\ op' = IdleOp /\ job' = IdleJob

\* A crash leaves every pinned link and map as it was.
Crash ==
  /\ up = "up"
  /\ Fault
  /\ up' = "down"
  /\ Forget
  /\ UNCHANGED <<floor, now, running, kern, disk, ops>>

\* A graceful stop: the API is shut down, then ShutdownTaps keeps the taps that enforce, and those
\* that are isolated (`held`), and detaches the others. The engine's ticker runs until the sinks have
\* been given time to drain.
ShutdownTaps ==
  /\ up = "up" /\ job.stage = "none"
  /\ Overlap \/ Idle
  /\ Fault
  /\ up' = "stopping"
  /\ \E held \in SUBSET Taps :
       kern' = [t \in Taps |-> IF att[t] = "live" /\ cache[t] # "enforce" /\ t \notin held
                              THEN KernelOff ELSE kern[t]]
  /\ att' = [t \in Taps |-> "none"] /\ cache' = [t \in Taps |-> "off"]
  /\ UNCHANGED <<floor, now, running, scan, refresh, adopted, recVars, op, job, ops>>

Exit ==
  /\ up = "stopping"
  /\ up' = "down"
  /\ Forget
  /\ UNCHANGED <<floor, now, running, kern, disk, ops, faults>>

\* main: the records are restored; the kernel is not touched until the taps are known. The allow
\* list is whatever this start was given.
Start ==
  /\ up = "down"
  /\ up' = "up"
  /\ floor' \in Floors
  /\ mem' = IF HasStore THEN disk ELSE [v \in VMs |-> NoPolicy]
  /\ UNCHANGED <<now, running, scan, refresh, adopted, kernVars, disk, unsaved, op, job, ops, faults>>

\* shukrad -detach-all, with the daemon down: the kernel side is lifted and the record is kept.
DetachAll ==
  /\ up = "down"
  /\ Request
  /\ kern' = [t \in Taps |-> KernelOff]
  /\ UNCHANGED <<envVars, att, cache, recVars, op, job, faults>>

-----------------------------------------------------------------------------
Init ==
  /\ up = "down" /\ floor = FALSE /\ now = 0
  /\ running = VMs /\ scan = {} /\ refresh = "idle" /\ adopted = FALSE
  /\ att = [t \in Taps |-> "none"] /\ cache = [t \in Taps |-> "off"]
  /\ kern = [t \in Taps |-> KernelOff]
  /\ mem = [v \in VMs |-> NoPolicy] /\ disk = [v \in VMs |-> NoPolicy] /\ unsaved = FALSE
  /\ op = IdleOp /\ job = IdleJob
  /\ ops = 0 /\ faults = 0

Engine ==
  \/ \E v \in VMs, list \in SUBSET Nets, c \in Confirms \cup {0} :
       Apply(v, "enforce", list, c) \/ ApplyNotSaved(v, "enforce", list, c)
  \/ \E v \in VMs, list \in SUBSET Nets :
       Apply(v, "audit", list, 0) \/ ApplyNotSaved(v, "audit", list, 0)
  \/ \E v \in VMs : Confirm(v) \/ Remove(v)

\* The steps the engine takes by itself once an operation has begun, and its ticker.
Progress ==
  \/ SetTaps
  \/ ApplyDone \/ ApplyUndo \/ UndoDone \/ RemoveDone
  \/ ReconcileStart \/ (\E v \in VMs : RevertOne(v)) \/ RevertsDone
  \/ (\E t \in Taps : FixOne(t)) \/ FixDone

Host == Tick \/ \E v \in VMs : VMStops(v) \/ VMStarts(v)

Daemon == ScanVMs \/ SyncTaps \/ Crash \/ ShutdownTaps \/ Exit \/ Start \/ DetachAll

Next == Engine \/ Progress \/ Host \/ Daemon

\* The clock runs; the operation that holds the mutex goes on and the ticker fires; Refresh runs
\* every two seconds; a process that was told to stop ends; and the service manager starts the
\* daemon again. Nothing is assumed of people, of VMs or of faults.
Fairness ==
  /\ WF_vars(Tick) /\ WF_vars(Progress)
  /\ WF_vars(ScanVMs) /\ WF_vars(SyncTaps)
  /\ WF_vars(Exit) /\ WF_vars(Start)

Spec == Init /\ [][Next]_vars
FairSpec == Spec /\ Fairness

-----------------------------------------------------------------------------
(* Properties *)

\* Every variable has its shape.
TypeOK ==
  /\ up \in {"down", "up", "stopping"} /\ floor \in BOOLEAN /\ now \in 0..MaxTime
  /\ running \subseteq VMs /\ scan \subseteq VMs
  /\ refresh \in {"idle", "scanned"} /\ adopted \in BOOLEAN
  /\ att \in [Taps -> {"none", "live", "stale"}]
  /\ cache \in [Taps -> Modes]
  /\ kern \in [Taps -> KernelPolicies]
  /\ mem \in [VMs -> Policies] /\ disk \in [VMs -> Policies] /\ unsaved \in BOOLEAN
  /\ op \in Ops /\ job \in Jobs
  /\ ops \in 0..MaxOps /\ faults \in 0..MaxFaults

\* A tap that enforces always has a network on its list, at every step of SetTapEgress, through
\* reverts, failed changes, crashes and restarts: an enforcing policy never cuts a VM off from
\* everything ("that is what isolate is for", applyLocked).
EnforceNeverEmpty == \A t \in Taps : kern[t].mode = "enforce" => kern[t].list # {}

\* While a tap goes on enforcing, no step takes away a network that is on the record of its VM: a
\* change of list cannot cut off a destination that is on both lists (SetTapEgress).
ListedStaysAllowed ==
  [][\A t \in Taps : kern[t].mode = "enforce" /\ kern'[t].mode = "enforce"
       => kern[t].list \cap mem[Owner[t]].allow \subseteq kern'[t].list]_vars

\* The file says that v enforces this list, or that it goes back to enforcing it.
OnFile(v, list) ==
  \/ disk[v].mode = "enforce" /\ disk[v].allow = list
  \/ disk[v].revert.on /\ disk[v].revert.mode = "enforce" /\ disk[v].revert.allow = list

\* A tap starts to enforce only what the saved record says, unless the last save failed: the record
\* is written before the kernel is changed (applyLocked, Reconcile, Restore).
RecordBeforeKernel ==
  [][\A t \in Taps : kern[t].mode # "enforce" /\ kern'[t].mode = "enforce"
       => unsaved \/ OnFile(Owner[t], job.allow)]_vars

\* Between operations, and unless the last save failed, what a restart would read is the engine's
\* record, timers included: an unconfirmed policy cannot lose its way back to a crash.
RecordSaved ==
  HasStore /\ up # "down" /\ ~unsaved /\ op.kind # "revert" => disk = mem

\* The record as a person sees it: what is on file while the daemon is down, and what there was before for as long
\* as a change is under way.
Held == IF up = "down" THEN disk ELSE IF op.kind = "apply" THEN [mem EXCEPT ![op.vm] = op.prev] ELSE mem
Kept == IF HasStore /\ op.kind = "apply" THEN Held ELSE disk
Asked == IF op.kind \in {"apply", "remove"} THEN {op.vm} ELSE {}

CC == INSTANCE CommitConfirm WITH held <- Held, kept <- Kept, asked <- Asked

\* The engine keeps the promise of a trial: a policy is in force once the request for it is through, whole, and on
\* file; unless it is confirmed it goes back, not before its time, and to what there was before all of it, however
\* often it is changed meanwhile; and through crashes, failed saves and taps that do not take it, nothing else
\* changes a record.
KeepsTrialPromise == CC!Spec

\* A policy that waits for confirmation on file does not wait for ever: the daemon comes to hold it
\* with no timer (confirmed, changed, removed or gone back), also when it was down as the timer ran out
\* and whether or not the VM is there.
TimerRunsOut ==
  \A v \in VMs : disk[v].revert.on ~> up = "up" /\ ~mem[v].revert.on

\* Once nobody and nothing disturbs it any more, every tap of a running VM that has a record is in
\* the record's mode: Reconcile puts a lost or a different mode right.
ModesConverge ==
  <>[](up = "up" /\ \A t \in Taps :
         Owner[t] \in running /\ mem[Owner[t]].mode # "off" => kern[t].mode = mem[Owner[t]].mode)

\* In the end no tap enforces a policy that nobody has a record of.
NoOrphans ==
  <>[](up = "up" /\ \A t \in Taps : kern[t].mode = "enforce" => mem[Owner[t]].mode # "off")

\* The kernel comes to do what the records say, and nothing else.
KernelConverges == ModesConverge /\ NoOrphans

=============================================================================
