------------------------- MODULE EgressPolicyProofs -------------------------
(***************************************************************************)
(* Proofs about EgressPolicy, for every set of VMs, taps and networks,     *)
(* every list of confirmation times and every bound.                       *)
(***************************************************************************)
EXTENDS EgressPolicy, TLAPS

\* The values operations start from have their types.
LEMMA Constants ==
  /\ NoVM \in VMs /\ NoTap \in Taps
  /\ NoRevert \in Reverts /\ NoPolicy \in Policies /\ KernelOff \in KernelPolicies
  /\ IdleOp \in Ops /\ IdleJob \in Jobs
  /\ \A taps \in SUBSET Taps, m \in Modes, list \in SUBSET Nets : Job(taps, m, list) \in Jobs
<1>1. NoVM \in VMs /\ NoTap \in Taps
  BY ConstantsAssumption DEF NoVM, NoTap
<1>2. NoRevert \in Reverts /\ KernelOff \in KernelPolicies
  BY DEF NoRevert, Reverts, KernelOff, KernelPolicies, Modes
<1>3. NoPolicy \in Policies
  BY <1>2 DEF NoPolicy, Policies, Modes
<1>4. IdleOp \in Ops
  BY <1>1, <1>3 DEF IdleOp, Ops
<1>5. \A taps \in SUBSET Taps, m \in Modes, list \in SUBSET Nets : Job(taps, m, list) \in Jobs
  BY <1>1 DEF Job, Jobs
<1>6. IdleJob \in Jobs
  BY <1>5 DEF IdleJob, Modes
<1> QED BY <1>1, <1>2, <1>3, <1>4, <1>5, <1>6

\* The taps of a VM are taps, also when the scan is asked.
LEMMA TapsAreTaps == \A v \in VMs : TapsOf(v) \subseteq Taps /\ ScanTaps(v) \subseteq Taps
  BY DEF TapsOf, ScanTaps

\* A save, whether it works or not, leaves a file of records.
LEMMA SaveType ==
  ASSUME TypeOK, NEW m \in [VMs -> Policies], Save(m) \/ SaveFails(m)
  PROVE  disk' \in [VMs -> Policies] /\ unsaved' \in BOOLEAN
  BY DEF TypeOK, Save, SaveFails

\* What a request records, and what an unconfirmed policy becomes, are records.
LEMMA PolicyTypes ==
  ASSUME TypeOK, NEW v \in VMs
  PROVE  /\ \A m \in Modes, list \in SUBSET Nets, c \in Nat : NewPolicy(v, m, list, c) \in Policies
         /\ Reverted(mem[v]) \in Policies
<1>1. /\ mem[v] \in Policies /\ mem[v].mode \in Modes /\ mem[v].allow \in SUBSET Nets
      /\ mem[v].revert \in Reverts /\ mem[v].revert.mode \in Modes
      /\ mem[v].revert.allow \in SUBSET Nets /\ now \in Nat
  BY ConstantsAssumption DEF TypeOK, Policies, Reverts
<1>2. \A u \in Nat : RevertFor(mem[v], u) \in Reverts
  BY <1>1 DEF RevertFor, Reverts
<1>3. \A m \in Modes, list \in SUBSET Nets, c \in Nat : NewPolicy(v, m, list, c) \in Policies
  BY <1>1, <1>2, Constants DEF NewPolicy, Policies
<1>4. Reverted(mem[v]) \in Policies
  BY <1>1, Constants DEF Reverted, Policies
<1> QED BY <1>3, <1>4

\* The bounded counters stay within their bounds.
LEMMA CounterTypes ==
  ASSUME TypeOK
  PROVE  /\ Fault => faults' \in 0..MaxFaults
         /\ Request => ops' \in 0..MaxOps
  BY ConstantsAssumption DEF TypeOK, Fault, Request

-----------------------------------------------------------------------------
(* Type correctness *)

\* A step of setTaps keeps the types.
LEMMA SetTapsType == TypeOK /\ SetTaps => TypeOK'
<1> USE ConstantsAssumption DEF TypeOK, envVars, recVars, kernVars
<1> SUFFICES ASSUME TypeOK, SetTaps PROVE TypeOK'
  OBVIOUS
<1>1. ASSUME NEW t \in Taps, SetNoLink(t) PROVE TypeOK'
  BY <1>1 DEF SetNoLink, Jobs
<1>2. ASSUME NEW t \in Taps, SetAdd(t) PROVE TypeOK'
  BY ZenonT(60), <1>2 DEF SetAdd, Jobs, Added, KernelPolicies
<1>3. ASSUME NEW t \in Taps, SetAddFails(t) PROVE TypeOK'
  <2>1. PICK part \in SUBSET job.allow :
          kern' = IF att[t] = "live" THEN [kern EXCEPT ![t].list = Added(@, part)] ELSE kern
    BY <1>3 DEF SetAddFails
  <2>2. kern' \in [Taps -> KernelPolicies]
    BY <2>1 DEF Jobs, Added, KernelPolicies
  <2>3. job' \in Jobs
    BY <1>3 DEF SetAddFails, Jobs
  <2> QED BY <1>3, <2>2, <2>3, CounterTypes DEF SetAddFails
<1>4. CASE SetMode
  BY SMTT(30), <1>4 DEF SetMode, Jobs, KernelPolicies
<1>5. CASE SetTrim
  BY ZenonT(60), <1>5 DEF SetTrim, JobNext, Jobs, Trimmed, KernelPolicies
<1> QED BY <1>1, <1>2, <1>3, <1>4, <1>5 DEF SetTaps

\* So does a step of a person's request.
LEMMA EngineType == TypeOK /\ Engine => TypeOK'
<1> USE DEF envVars, recVars, kernVars
<1> SUFFICES ASSUME TypeOK, Engine PROVE TypeOK'
  OBVIOUS
<1>1. ASSUME NEW v \in VMs, NEW m \in {"audit", "enforce"}, NEW list \in SUBSET Nets,
             NEW c \in Nat, Apply(v, m, list, c)
      PROVE  TypeOK'
  <2>1. mem' \in [VMs -> Policies]
    BY <1>1, PolicyTypes DEF Apply, TypeOK, Modes
  <2>2. disk' \in [VMs -> Policies] /\ unsaved' \in BOOLEAN
    BY <1>1, <2>1, SaveType DEF Apply
  <2>3. op' \in Ops /\ job' \in Jobs
    BY <1>1, Constants, TapsAreTaps DEF Apply, TypeOK, Ops, Modes
  <2> QED BY <1>1, <2>1, <2>2, <2>3, CounterTypes DEF Apply, TypeOK
<1>2. ASSUME NEW v \in VMs, NEW m \in {"audit", "enforce"}, NEW list \in SUBSET Nets,
             NEW c \in Nat, ApplyNotSaved(v, m, list, c)
      PROVE  TypeOK'
  <2>1. [mem EXCEPT ![v] = NewPolicy(v, m, list, c)] \in [VMs -> Policies]
    BY PolicyTypes DEF TypeOK, Modes
  <2>2. disk' \in [VMs -> Policies] /\ unsaved' \in BOOLEAN
    BY <1>2, <2>1, SaveType DEF ApplyNotSaved
  <2> QED BY <1>2, <2>2, CounterTypes DEF ApplyNotSaved, SaveFails, TypeOK
<1>3. ASSUME NEW v \in VMs, Confirm(v) PROVE TypeOK'
  <2> DEFINE kept == [mem EXCEPT ![v].revert = NoRevert]
  <2>1. kept \in [VMs -> Policies]
    BY Constants DEF TypeOK, Policies
  <2>2. /\ disk' \in [VMs -> Policies] /\ unsaved' \in BOOLEAN
        /\ mem' \in [VMs -> Policies] /\ faults' \in 0..MaxFaults
    BY <1>3, <2>1, SaveType, CounterTypes DEF Confirm, SaveFails, TypeOK
  <2> QED BY <1>3, <2>2, CounterTypes DEF Confirm, TypeOK
<1>4. ASSUME NEW v \in VMs, Remove(v) PROVE TypeOK'
  <2>1. op' \in Ops /\ job' \in Jobs
    BY <1>4, Constants, TapsAreTaps DEF Remove, Ops, Modes
  <2> QED BY <1>4, <2>1, CounterTypes DEF Remove, TypeOK
<1> QED BY <1>1, <1>2, <1>3, <1>4, ConstantsAssumption DEF Engine

\* So does a step the engine takes by itself.
LEMMA ProgressType == TypeOK /\ Progress => TypeOK'
<1> USE DEF envVars, recVars, kernVars
<1> SUFFICES ASSUME TypeOK, Progress PROVE TypeOK'
  OBVIOUS
<1> op.vm \in VMs /\ op.prev \in Policies /\ op.prev.mode \in Modes /\ op.prev.allow \in SUBSET Nets
  BY DEF TypeOK, Ops, Policies
<1>1. CASE SetTaps
  BY <1>1, SetTapsType
<1>2. CASE ApplyDone \/ UndoDone \/ FixDone
  BY <1>2, Constants DEF ApplyDone, UndoDone, FixDone, TypeOK
<1>3. CASE ApplyUndo
  <2>1. mem' \in [VMs -> Policies]
    BY <1>3 DEF ApplyUndo, TypeOK
  <2>2. disk' \in [VMs -> Policies] /\ unsaved' \in BOOLEAN /\ faults' \in 0..MaxFaults
    BY <1>3, <2>1, SaveType, CounterTypes DEF ApplyUndo, SaveFails, TypeOK
  <2>3. op' \in Ops /\ job' \in Jobs
    BY <1>3, Constants, TapsAreTaps DEF ApplyUndo, TypeOK, Ops
  <2> QED BY <1>3, <2>1, <2>2, <2>3 DEF ApplyUndo, TypeOK
<1>4. CASE RemoveDone
  <2>1. mem' \in [VMs -> Policies]
    BY <1>4, Constants DEF RemoveDone, TypeOK
  <2>2. disk' \in [VMs -> Policies] /\ unsaved' \in BOOLEAN /\ faults' \in 0..MaxFaults
    BY <1>4, <2>1, SaveType, CounterTypes DEF RemoveDone, SaveFails, TypeOK
  <2> QED BY <1>4, <2>1, <2>2, Constants DEF RemoveDone, TypeOK
<1>5. CASE ReconcileStart
  <2>1. op' \in Ops /\ job' \in Jobs
    BY <1>5, Constants DEF ReconcileStart, Ops
  <2> QED BY <1>5, <2>1 DEF ReconcileStart, TypeOK
<1>6. ASSUME NEW v \in VMs, RevertOne(v) PROVE TypeOK'
  <2>1. Reverted(mem[v]) \in Policies /\ mem[v] \in Policies
    BY PolicyTypes DEF TypeOK
  <2>2. RevertJob(v) \in Jobs
    BY <2>1, Constants, TapsAreTaps DEF RevertJob, Policies
  <2>3. mem' \in [VMs -> Policies] /\ op' \in Ops
    BY <1>6, <2>1 DEF RevertOne, TypeOK, Ops
  <2> QED BY <1>6, <2>2, <2>3 DEF RevertOne, TypeOK
<1>7. CASE RevertsDone
  <2>1. disk' \in [VMs -> Policies] /\ unsaved' \in BOOLEAN /\ faults' \in 0..MaxFaults
    BY <1>7, SaveType, CounterTypes DEF RevertsDone, SaveFails, TypeOK
  <2>2. op' \in Ops
    BY <1>7 DEF RevertsDone, TypeOK, Ops
  <2> QED BY <1>7, <2>1, <2>2, Constants DEF RevertsDone, TypeOK
<1>8. ASSUME NEW t \in Taps, FixOne(t) PROVE TypeOK'
  <2>1. Owner[t] \in VMs /\ mem[Owner[t]].mode \in Modes /\ mem[Owner[t]].allow \in SUBSET Nets
    BY ConstantsAssumption DEF TypeOK, Policies
  <2>2. op' \in Ops /\ job' \in Jobs
    BY <1>8, <2>1, Constants DEF FixOne, TypeOK, Ops
  <2> QED BY <1>8, <2>2 DEF FixOne, TypeOK
<1> QED BY <1>1, <1>2, <1>3, <1>4, <1>5, <1>6, <1>7, <1>8 DEF Progress

\* So does what happens on the host and to the daemon.
LEMMA WorldType == TypeOK /\ (Host \/ Daemon) => TypeOK'
<1> USE ConstantsAssumption DEF TypeOK, envVars, recVars, kernVars
<1> SUFFICES ASSUME TypeOK, Host \/ Daemon PROVE TypeOK'
  OBVIOUS
<1>1. CASE Tick
  BY <1>1 DEF Tick
<1>2. ASSUME NEW v \in VMs, VMStops(v) PROVE TypeOK'
  BY <1>2, CounterTypes, Constants DEF VMStops
<1>3. ASSUME NEW v \in VMs, VMStarts(v) PROVE TypeOK'
  BY <1>3 DEF VMStarts
<1>4. CASE ScanVMs
  BY <1>4, CounterTypes DEF ScanVMs
<1>5. CASE SyncTaps
  <2>1. PICK lost \in SUBSET {t \in Taps : Unlinked(t)} :
          /\ IF lost = {} THEN UNCHANGED faults ELSE Fault
          /\ LET linked == {t \in Taps : Owner[t] \in scan \cap running} \ lost IN
               /\ att' = [t \in Taps |-> IF t \in linked THEN "live" ELSE "none"]
               /\ kern' = [t \in Taps |-> IF t \in linked THEN kern[t] ELSE KernelOff]
               /\ cache' = [t \in Taps |-> IF t \in linked THEN kern[t].mode ELSE "off"]
    BY <1>5 DEF SyncTaps
  <2>2. /\ att' \in [Taps -> {"none", "live", "stale"}] /\ kern' \in [Taps -> KernelPolicies]
        /\ cache' \in [Taps -> Modes] /\ faults' \in 0..MaxFaults
    BY <2>1, Constants, CounterTypes DEF KernelPolicies, Modes
  <2> QED BY <1>5, <2>2 DEF SyncTaps
<1>6. CASE Crash
  BY <1>6, CounterTypes, Constants DEF Crash, Forget, Modes
<1>7. CASE ShutdownTaps
  BY <1>7, CounterTypes, Constants DEF ShutdownTaps, Modes
<1>8. CASE Exit
  BY <1>8, Constants DEF Exit, Forget, Modes
<1>9. CASE Start
  BY <1>9, Constants DEF Start
<1>10. CASE DetachAll
  BY <1>10, CounterTypes, Constants DEF DetachAll
<1> QED BY <1>1, <1>2, <1>3, <1>4, <1>5, <1>6, <1>7, <1>8, <1>9, <1>10 DEF Host, Daemon

\* The types hold in every state the engine, the host and the daemon can reach.
THEOREM TypeCorrect == Spec => []TypeOK
<1>1. ASSUME Init PROVE TypeOK
  <2>1. /\ now \in 0..MaxTime /\ ops \in 0..MaxOps /\ faults \in 0..MaxFaults
    BY <1>1, ConstantsAssumption DEF Init
  <2>2. /\ att \in [Taps -> {"none", "live", "stale"}] /\ cache \in [Taps -> Modes]
        /\ kern \in [Taps -> KernelPolicies]
    BY <1>1, Constants DEF Init, Modes
  <2>3. mem \in [VMs -> Policies] /\ disk \in [VMs -> Policies] /\ op \in Ops /\ job \in Jobs
    BY <1>1, Constants DEF Init
  <2> QED BY <1>1, <2>1, <2>2, <2>3 DEF Init, TypeOK
<1>2. TypeOK /\ [Next]_vars => TypeOK'
  <2>1. TypeOK /\ UNCHANGED vars => TypeOK'
    BY DEF TypeOK, vars
  <2> QED BY <2>1, EngineType, ProgressType, WorldType DEF Next
<1> QED BY <1>1, <1>2, PTL DEF Spec

-----------------------------------------------------------------------------
(* The inductive invariant of the kernel side *)

\* A record that enforces, or goes back to enforcing, has a list.
Listed(p) ==
  /\ p.mode = "enforce" => p.allow # {}
  /\ p.revert.mode = "enforce" => p.revert.allow # {}

RecordsListed == Listed(op.prev) /\ \A v \in VMs : Listed(mem[v]) /\ Listed(disk[v])

JobListed == job.mode = "enforce" => job.allow # {}

\* SetTapEgress adds before it sets the mode and sets the mode before it trims.
JobOrder ==
  job.stage # "none" /\ att[job.tap] = "live" =>
    /\ job.allow \subseteq kern[job.tap].list
    /\ job.stage = "trim" => kern[job.tap].mode = job.mode

\* setTaps is only ever called with the record of the VM the taps belong to, or to lift.
JobServesRecord ==
  ~JobDone =>
    /\ job.todo \subseteq TapsOf(op.vm)
    /\ job.stage # "none" => Owner[job.tap] = op.vm
    /\ op.kind = "remove" => job.mode = "off"
    /\ op.kind # "remove" => job.mode = mem[op.vm].mode /\ job.allow = mem[op.vm].allow

\* Between operations, and without a process, no setTaps call is under way.
Quiet == (up = "down" => Idle) /\ (Idle => JobDone)

KernelInv ==
  /\ RecordsListed /\ JobListed /\ JobOrder /\ JobServesRecord /\ Quiet /\ EnforceNeverEmpty

\* What a save leaves in the file is what was there or what it was given.
LEMMA SaveListed ==
  ASSUME NEW m, Save(m) \/ SaveFails(m)
  PROVE  disk' = disk \/ disk' = m
  BY DEF Save, SaveFails

\* A step of setTaps keeps the invariant.
LEMMA SetTapsKeeps == TypeOK /\ KernelInv /\ SetTaps => KernelInv'
<1> USE DEF envVars, recVars, kernVars
<1> SUFFICES ASSUME TypeOK, KernelInv, SetTaps PROVE KernelInv'
  OBVIOUS
<1>1. ASSUME NEW t \in Taps, SetNoLink(t) PROVE KernelInv'
  BY <1>1 DEF TypeOK, Jobs, SetNoLink, KernelInv, RecordsListed, Listed, JobListed, JobOrder,
     JobServesRecord, Quiet, EnforceNeverEmpty, JobDone, Idle
<1>2. ASSUME NEW t \in Taps, SetAdd(t) PROVE KernelInv'
  <2>1. JobOrder' /\ EnforceNeverEmpty'
    BY <1>2 DEF TypeOK, Jobs, KernelPolicies, SetAdd, Added, KernelInv, JobOrder, EnforceNeverEmpty
  <2>2. JobServesRecord'
    BY <1>2 DEF TypeOK, Jobs, SetAdd, KernelInv, JobServesRecord, JobDone, TapsOf
  <2> QED BY <1>2, <2>1, <2>2 DEF TypeOK, Jobs, SetAdd, KernelInv, RecordsListed, Listed, JobListed,
            Quiet, JobDone, Idle
<1>3. ASSUME NEW t \in Taps, SetAddFails(t) PROVE KernelInv'
  <2>1. PICK part \in SUBSET job.allow :
          kern' = IF att[t] = "live" THEN [kern EXCEPT ![t].list = Added(@, part)] ELSE kern
    BY <1>3 DEF SetAddFails
  <2>2. JobOrder' /\ EnforceNeverEmpty'
    BY <1>3, <2>1 DEF TypeOK, Jobs, KernelPolicies, SetAddFails, Added, KernelInv, JobOrder,
       EnforceNeverEmpty
  <2> QED BY <1>3, <2>2 DEF TypeOK, Jobs, SetAddFails, KernelInv, RecordsListed, Listed, JobListed,
            JobServesRecord, Quiet, JobDone, Idle
<1>4. CASE SetMode
  <2>1. JobOrder' /\ EnforceNeverEmpty'
    BY <1>4 DEF TypeOK, Jobs, KernelPolicies, SetMode, KernelInv, JobListed, JobOrder, EnforceNeverEmpty
  <2> QED BY <1>4, <2>1 DEF TypeOK, Jobs, SetMode, KernelInv, RecordsListed, Listed, JobListed,
            JobServesRecord, Quiet, JobDone, Idle
<1>5. CASE SetTrim
  <2>1. JobOrder' /\ EnforceNeverEmpty'
    BY <1>5 DEF TypeOK, Jobs, KernelPolicies, SetTrim, JobNext, Trimmed, KernelInv, JobListed, JobOrder,
       EnforceNeverEmpty
  <2> QED BY <1>5, <2>1 DEF TypeOK, Jobs, SetTrim, JobNext, KernelInv, RecordsListed, Listed, JobListed,
            JobServesRecord, Quiet, JobDone, Idle
<1> QED BY <1>1, <1>2, <1>3, <1>4, <1>5 DEF SetTaps

\* A new call serves the VM it is made for and finds no other under way.
LEMMA NewJob ==
  ASSUME NEW taps \in SUBSET Taps, NEW m \in Modes, NEW list \in SUBSET Nets,
         job' = Job(taps, m, list)
  PROVE  /\ job'.todo = taps /\ job'.mode = m /\ job'.allow = list
         /\ job'.stage = "none" /\ JobOrder' /\ (JobDone' <=> taps = {})
  BY DEF Job, JobOrder, JobDone

\* No operation and no call.
LEMMA IdleKeeps ==
  ASSUME op' = IdleOp, job' = IdleJob
  PROVE  JobListed' /\ JobOrder' /\ JobServesRecord' /\ Quiet' /\ Listed(op'.prev)
  BY DEF IdleOp, IdleJob, Job, NoPolicy, NoRevert, JobListed, JobOrder, JobServesRecord, Quiet, JobDone,
     Idle, Listed

\* A request keeps the invariant: what is recorded for a VM has a list if it enforces.
LEMMA EngineKeeps == TypeOK /\ KernelInv /\ Engine => KernelInv'
<1> USE DEF envVars, recVars, kernVars
<1> SUFFICES ASSUME TypeOK, KernelInv, Engine PROVE KernelInv'
  OBVIOUS
<1>0. ASSUME NEW v \in VMs, NEW m \in {"audit", "enforce"}, NEW list \in SUBSET Nets, NEW c \in Nat,
             MayApply(v, m, list, c)
      PROVE  Listed(NewPolicy(v, m, list, c))
  BY <1>0 DEF MayApply, MayEnforce, NewPolicy, RevertFor, NoRevert, Listed, KernelInv, RecordsListed
<1>1. ASSUME NEW v \in VMs, NEW m \in {"audit", "enforce"}, NEW list \in SUBSET Nets,
             NEW c \in Nat, Apply(v, m, list, c)
      PROVE  KernelInv'
  <2>1. Listed(NewPolicy(v, m, list, c))
    BY <1>0, <1>1 DEF Apply
  <2>2. /\ mem' = [mem EXCEPT ![v] = NewPolicy(v, m, list, c)] /\ op'.prev = mem[v] /\ op'.vm = v
        /\ op'.kind = "apply"
    BY <1>1 DEF Apply, IdleOp
  <2>3. RecordsListed'
    BY <1>1, <2>1, <2>2, SaveListed DEF Apply, TypeOK, KernelInv, RecordsListed
  <2>4. /\ job'.todo = TapsOf(v) /\ job'.mode = m /\ job'.allow = list
        /\ job'.stage = "none" /\ JobOrder'
    BY <1>1, NewJob, TapsAreTaps DEF Apply, Modes
  <2>5. JobListed'
    BY <1>1, <2>4 DEF Apply, MayApply, MayEnforce, JobListed
  <2>6. JobServesRecord'
    BY <2>2, <2>4 DEF JobServesRecord, NewPolicy, TypeOK, TapsOf
  <2> QED BY <1>1, <2>2, <2>3, <2>4, <2>5, <2>6
          DEF Apply, MayApply, Working, KernelInv, Quiet, Idle, EnforceNeverEmpty
<1>2. ASSUME NEW v \in VMs, NEW m \in {"audit", "enforce"}, NEW list \in SUBSET Nets,
             NEW c \in Nat, ApplyNotSaved(v, m, list, c)
      PROVE  KernelInv'
  <2>1. Listed(NewPolicy(v, m, list, c))
    BY <1>0, <1>2 DEF ApplyNotSaved
  <2>2. RecordsListed'
    BY <1>2, <2>1, SaveListed DEF ApplyNotSaved, TypeOK, KernelInv, RecordsListed
  <2> QED BY <1>2, <2>2 DEF ApplyNotSaved, KernelInv, JobListed, JobOrder, JobServesRecord, Quiet, JobDone,
            Idle, EnforceNeverEmpty
<1>3. ASSUME NEW v \in VMs, Confirm(v) PROVE KernelInv'
  <2> DEFINE kept == [mem EXCEPT ![v].revert = NoRevert]
  <2>1. \A w \in VMs : Listed(kept[w])
    BY DEF TypeOK, Policies, KernelInv, RecordsListed, Listed, NoRevert
  <2>2. (mem' = kept \/ mem' = mem) /\ (disk' = kept \/ disk' = disk)
    BY <1>3, SaveListed DEF Confirm
  <2>3. RecordsListed'
    BY <1>3, <2>1, <2>2 DEF Confirm, KernelInv, RecordsListed
  <2>4. JobDone
    BY <1>3 DEF Confirm, KernelInv, Quiet
  <2> QED BY <1>3, <2>3, <2>4 DEF Confirm, KernelInv, JobListed, JobOrder, JobServesRecord, Quiet, JobDone,
            Idle, EnforceNeverEmpty
<1>4. ASSUME NEW v \in VMs, Remove(v) PROVE KernelInv'
  <2>1. op'.kind = "remove" /\ op'.vm = v /\ op'.prev = NoPolicy
    BY <1>4 DEF Remove, IdleOp
  <2>2. /\ job'.todo = ScanTaps(v) /\ job'.mode = "off" /\ job'.stage = "none" /\ JobOrder'
    BY <1>4, NewJob, TapsAreTaps DEF Remove, Modes
  <2>3. JobServesRecord' /\ JobListed' /\ Quiet'
    BY <1>4, <2>1, <2>2 DEF Remove, Working, JobServesRecord, JobListed, Quiet, Idle, ScanTaps, TapsOf
  <2> QED BY <1>4, <2>1, <2>2, <2>3 DEF Remove, KernelInv, RecordsListed, Listed, NoPolicy, NoRevert,
            EnforceNeverEmpty
<1> QED BY <1>1, <1>2, <1>3, <1>4, ConstantsAssumption DEF Engine

\* The engine's own steps keep the invariant.
LEMMA ProgressKeeps == TypeOK /\ KernelInv /\ Progress => KernelInv'
<1> USE DEF envVars, recVars, kernVars
<1> SUFFICES ASSUME TypeOK, KernelInv, Progress PROVE KernelInv'
  OBVIOUS
<1> /\ op.vm \in VMs /\ op.prev \in Policies /\ op.prev.mode \in Modes /\ op.prev.allow \in SUBSET Nets
    /\ Listed(op.prev) /\ Listed(NoPolicy)
  BY DEF TypeOK, Ops, Policies, KernelInv, RecordsListed, Listed, NoPolicy, NoRevert
<1>1. CASE SetTaps
  BY <1>1, SetTapsKeeps
<1>2. CASE ApplyDone \/ UndoDone \/ FixDone
  BY <1>2, IdleKeeps DEF ApplyDone, UndoDone, FixDone, KernelInv, RecordsListed, EnforceNeverEmpty
<1>3. CASE ApplyUndo
  <2>1. /\ mem' = [mem EXCEPT ![op.vm] = op.prev] /\ op'.prev = op.prev /\ op'.vm = op.vm
        /\ op'.kind = "undo"
    BY <1>3 DEF ApplyUndo, TypeOK, Ops
  <2>2. RecordsListed'
    BY <1>3, <2>1, SaveListed DEF ApplyUndo, TypeOK, KernelInv, RecordsListed
  <2>3. /\ job'.todo = TapsOf(op.vm) /\ job'.mode = op.prev.mode /\ job'.allow = op.prev.allow
        /\ job'.stage = "none" /\ JobOrder'
    BY <1>3, NewJob, TapsAreTaps DEF ApplyUndo
  <2>4. JobServesRecord' /\ JobListed'
    BY <2>1, <2>3 DEF JobServesRecord, JobListed, Listed, TypeOK, TapsOf
  <2>5. Quiet'
    BY <1>3, <2>1 DEF ApplyUndo, KernelInv, Quiet, Idle
  <2> QED BY <1>3, <2>2, <2>3, <2>4, <2>5 DEF ApplyUndo, KernelInv, EnforceNeverEmpty
<1>4. CASE RemoveDone
  <2>1. RecordsListed'
    BY <1>4, IdleKeeps, SaveListed DEF RemoveDone, TypeOK, KernelInv, RecordsListed
  <2> QED BY <1>4, <2>1, IdleKeeps DEF RemoveDone, KernelInv, EnforceNeverEmpty
<1>5. CASE ReconcileStart
  <2>1. op'.kind = "revert" /\ op'.prev = NoPolicy /\ up' # "down"
    BY <1>5 DEF ReconcileStart, IdleOp
  <2>2. JobDone' /\ JobListed' /\ JobOrder'
    BY <1>5 DEF ReconcileStart, IdleJob, Job, JobDone, JobListed, JobOrder
  <2> QED BY <1>5, <2>1, <2>2 DEF ReconcileStart, KernelInv, RecordsListed, JobServesRecord, Quiet, Idle,
            EnforceNeverEmpty
<1>6. ASSUME NEW v \in VMs, RevertOne(v) PROVE KernelInv'
  <2>1. /\ Reverted(mem[v]) \in Policies /\ mem[v] \in Policies /\ Listed(mem[v])
    BY PolicyTypes DEF TypeOK, KernelInv, RecordsListed
  <2>2. Listed(Reverted(mem[v]))
    BY <2>1 DEF Listed, Reverted, NoRevert
  <2>3. /\ mem' = [mem EXCEPT ![v] = Reverted(mem[v])] /\ op'.prev = mem[v] /\ op'.vm = v
        /\ op'.kind = "revert"
    BY <1>6 DEF RevertOne, TypeOK, Ops
  <2>4. RecordsListed'
    BY <1>6, <2>1, <2>2, <2>3 DEF RevertOne, TypeOK, KernelInv, RecordsListed
  <2>5. /\ job'.todo = ScanTaps(v) /\ job'.mode = Reverted(mem[v]).mode
        /\ job'.allow = Reverted(mem[v]).allow /\ job'.stage = "none" /\ JobOrder'
    BY <1>6, <2>1, NewJob, TapsAreTaps DEF RevertOne, RevertJob, Policies
  <2>6. JobServesRecord' /\ JobListed'
    BY <2>2, <2>3, <2>5 DEF JobServesRecord, JobListed, Listed, TypeOK, TapsOf, ScanTaps
  <2>7. Quiet'
    BY <1>6, <2>3 DEF RevertOne, KernelInv, Quiet, Idle
  <2> QED BY <1>6, <2>4, <2>5, <2>6, <2>7 DEF RevertOne, KernelInv, EnforceNeverEmpty
<1>7. CASE RevertsDone
  <2>1. op'.kind = "fix" /\ op'.prev = op.prev
    BY <1>7 DEF RevertsDone, TypeOK, Ops
  <2>2. disk' = disk \/ disk' = mem
    BY <1>7, SaveListed DEF RevertsDone
  <2>3. JobDone' /\ JobListed' /\ JobOrder'
    BY <1>7 DEF RevertsDone, IdleJob, Job, JobDone, JobListed, JobOrder
  <2>4. RecordsListed'
    BY <1>7, <2>1, <2>2 DEF RevertsDone, KernelInv, RecordsListed
  <2> QED BY <1>7, <2>1, <2>3, <2>4 DEF RevertsDone, KernelInv, JobServesRecord, Quiet, Idle,
            EnforceNeverEmpty
<1>8. ASSUME NEW t \in Taps, FixOne(t) PROVE KernelInv'
  <2>1. /\ Owner[t] \in VMs /\ mem[Owner[t]].mode \in Modes /\ mem[Owner[t]].allow \in SUBSET Nets
        /\ Listed(mem[Owner[t]])
    BY ConstantsAssumption DEF TypeOK, Policies, KernelInv, RecordsListed
  <2>2. op'.kind = "fix" /\ op'.vm = Owner[t] /\ op'.prev = op.prev
    BY <1>8 DEF FixOne, TypeOK, Ops
  <2>3. /\ job'.todo = {t} /\ job'.mode = mem[Owner[t]].mode /\ job'.allow = mem[Owner[t]].allow
        /\ job'.stage = "none" /\ JobOrder'
    BY <1>8 DEF FixOne, Job, JobOrder
  <2>4. JobServesRecord' /\ JobListed' /\ Quiet'
    BY <1>8, <2>1, <2>2, <2>3 DEF FixOne, JobServesRecord, JobListed, Listed, TapsOf, Quiet, Idle, KernelInv
  <2> QED BY <1>8, <2>2, <2>3, <2>4 DEF FixOne, KernelInv, RecordsListed, EnforceNeverEmpty
<1> QED BY <1>1, <1>2, <1>3, <1>4, <1>5, <1>6, <1>7, <1>8 DEF Progress

\* What happens on the host and to the daemon keeps it too: a list is only lost with its mode, and
\* never while SetTapEgress is at work on a live link.
LEMMA WorldKeeps == TypeOK /\ KernelInv /\ (Host \/ Daemon) => KernelInv'
<1> USE DEF envVars, recVars, kernVars
<1> SUFFICES ASSUME TypeOK, KernelInv, Host \/ Daemon PROVE KernelInv'
  OBVIOUS
<1> Listed(NoPolicy)
  BY DEF Listed, NoPolicy, NoRevert
<1>1. CASE Tick \/ \E v \in VMs : VMStarts(v)
  BY <1>1 DEF Tick, VMStarts, KernelInv, RecordsListed, JobListed, JobOrder, JobServesRecord, Quiet,
     JobDone, Idle, EnforceNeverEmpty
<1>2. ASSUME NEW v \in VMs, VMStops(v) PROVE KernelInv'
  <2>1. JobOrder' /\ EnforceNeverEmpty'
    BY <1>2 DEF VMStops, KernelOff, TypeOK, Jobs, KernelInv, JobOrder, EnforceNeverEmpty
  <2> QED BY <1>2, <2>1 DEF VMStops, KernelInv, RecordsListed, JobListed, JobServesRecord, Quiet, JobDone,
            Idle
<1>3. CASE ScanVMs
  BY <1>3 DEF ScanVMs, KernelInv, RecordsListed, JobListed, JobOrder, JobServesRecord, Quiet,
     JobDone, Idle, EnforceNeverEmpty
<1>4. CASE SyncTaps
  <2>1. PICK linked \in SUBSET Taps : kern' = [t \in Taps |-> IF t \in linked THEN kern[t] ELSE KernelOff]
    BY <1>4 DEF SyncTaps
  <2>2. EnforceNeverEmpty'
    BY <2>1 DEF KernelOff, KernelInv, EnforceNeverEmpty
  <2>3. JobOrder'
    BY <1>4 DEF SyncTaps, JobOrder
  <2> QED BY <1>4, <2>2, <2>3 DEF SyncTaps, KernelInv, RecordsListed, JobListed, JobServesRecord, Quiet,
            JobDone, Idle
<1>5. CASE Crash \/ Exit
  <2>1. Forget /\ disk' = disk /\ kern' = kern
    BY <1>5 DEF Crash, Exit
  <2>2. RecordsListed'
    BY <2>1, IdleKeeps DEF Forget, KernelInv, RecordsListed
  <2> QED BY <2>1, <2>2, IdleKeeps DEF Forget, KernelInv, EnforceNeverEmpty
<1>6. CASE ShutdownTaps
  <2>1. JobOrder' /\ EnforceNeverEmpty'
    BY <1>6 DEF ShutdownTaps, KernelOff, KernelInv, JobOrder, EnforceNeverEmpty
  <2> QED BY <1>6, <2>1 DEF ShutdownTaps, KernelInv, RecordsListed, JobListed, JobServesRecord, Quiet,
            JobDone, Idle
<1>7. CASE Start
  <2>1. JobDone /\ Idle
    BY <1>7 DEF Start, KernelInv, Quiet
  <2>2. RecordsListed'
    BY <1>7 DEF Start, KernelInv, RecordsListed
  <2> QED BY <1>7, <2>1, <2>2 DEF Start, KernelInv, JobListed, JobOrder, JobServesRecord, Quiet, JobDone,
            Idle, EnforceNeverEmpty
<1>8. CASE DetachAll
  <2>1. JobDone /\ Idle
    BY <1>8 DEF DetachAll, KernelInv, Quiet
  <2> QED BY <1>8, <2>1 DEF DetachAll, KernelOff, KernelInv, RecordsListed, JobListed, JobOrder,
            JobServesRecord, Quiet, JobDone, Idle, EnforceNeverEmpty
<1> QED BY <1>1, <1>2, <1>3, <1>4, <1>5, <1>6, <1>7, <1>8 DEF Host, Daemon

\* KernelInv holds in every reachable state.
THEOREM KernelInvariant == Spec => [](TypeOK /\ KernelInv)
<1>1. Init => KernelInv
  BY ConstantsAssumption DEF Init, IdleOp, IdleJob, Job, NoPolicy, NoRevert, KernelOff, KernelInv,
     RecordsListed, Listed, JobListed, JobOrder, JobServesRecord, Quiet, JobDone, Idle, EnforceNeverEmpty
<1>2. TypeOK /\ KernelInv /\ [Next]_vars => KernelInv'
  <2>1. TypeOK /\ KernelInv /\ UNCHANGED vars => KernelInv'
    BY DEF vars, KernelInv, RecordsListed, Listed, JobListed, JobOrder, JobServesRecord, Quiet, JobDone,
       Idle, EnforceNeverEmpty
  <2> QED BY <2>1, EngineKeeps, ProgressKeeps, WorldKeeps DEF Next
<1> QED BY <1>1, <1>2, TypeCorrect, PTL DEF Spec

\* A tap that enforces has a network on its list, in every reachable state: through every step of
\* SetTapEgress, failed changes, reverts, crashes and restarts.
THEOREM EnforcingIsListed == Spec => []EnforceNeverEmpty
<1>1. KernelInv => EnforceNeverEmpty
  BY DEF KernelInv
<1> QED BY <1>1, KernelInvariant, PTL

\* The step of ListedStaysAllowed. Only SetTrim and the loss of a whole policy take networks away, and
\* SetTrim keeps the list of the call, which is the record's unless the call lifts.
LEMMA ListedStep ==
  ASSUME TypeOK, KernelInv, [Next]_vars, NEW t \in Taps,
         kern[t].mode = "enforce", kern'[t].mode = "enforce"
  PROVE  kern[t].list \cap mem[Owner[t]].allow \subseteq kern'[t].list
<1> USE DEF envVars, recVars, kernVars
<1>1. CASE kern' = kern
  BY <1>1
<1>2. ASSUME NEW x \in Taps, SetAdd(x) PROVE kern[t].list \subseteq kern'[t].list
  BY <1>2 DEF SetAdd, Added, TypeOK, KernelPolicies
<1>3. ASSUME NEW x \in Taps, SetAddFails(x) PROVE kern[t].list \subseteq kern'[t].list
  <2>1. PICK part \in SUBSET job.allow :
          kern' = IF att[x] = "live" THEN [kern EXCEPT ![x].list = Added(@, part)] ELSE kern
    BY <1>3 DEF SetAddFails
  <2> QED BY <2>1 DEF Added, TypeOK, KernelPolicies
<1>4. ASSUME SetMode PROVE kern[t].list \subseteq kern'[t].list
  BY <1>4 DEF SetMode, TypeOK, KernelPolicies
<1>5. CASE SetTrim
  <2>1. CASE job.tap = t /\ att[t] = "live"
    <3>1. job.mode = "enforce" /\ Owner[t] = op.vm
      BY <1>5, <2>1 DEF SetTrim, KernelInv, JobOrder, JobServesRecord, JobDone
    <3>2. job.allow = mem[Owner[t]].allow
      BY <1>5, <3>1 DEF SetTrim, KernelInv, JobServesRecord, JobDone
    <3> QED BY <1>5, <2>1, <3>2 DEF SetTrim, Trimmed, TypeOK, KernelPolicies
  <2>2. CASE ~(job.tap = t /\ att[t] = "live")
    BY <1>5, <2>2 DEF SetTrim, TypeOK, Jobs
  <2> QED BY <2>1, <2>2
<1>6. ASSUME kern'[t] = kern[t] \/ kern'[t] = KernelOff PROVE kern[t].list \subseteq kern'[t].list
  BY <1>6 DEF KernelOff
<1>7. CASE SyncTaps
  <2>1. PICK linked \in SUBSET Taps : kern' = [y \in Taps |-> IF y \in linked THEN kern[y] ELSE KernelOff]
    BY <1>7 DEF SyncTaps
  <2> QED BY <1>6, <2>1
<1>8. CASE (\E v \in VMs : VMStops(v)) \/ ShutdownTaps \/ DetachAll
  BY <1>6, <1>8 DEF VMStops, ShutdownTaps, DetachAll
<1>9. CASE Engine
  BY <1>1, <1>9 DEF Engine, Apply, ApplyNotSaved, Confirm, Remove
<1>10. CASE Progress
  BY <1>1, <1>2, <1>3, <1>4, <1>5, <1>10 DEF Progress, SetTaps, SetNoLink, ApplyDone, ApplyUndo, UndoDone,
     RemoveDone, ReconcileStart, RevertOne, RevertsDone, FixOne, FixDone
<1>11. CASE Host \/ Daemon \/ UNCHANGED vars
  BY <1>1, <1>7, <1>8, <1>11 DEF Host, Daemon, Tick, VMStarts, ScanVMs, Crash, Exit, Start, vars
<1> QED BY <1>9, <1>10, <1>11 DEF Next

\* Changing the list of a VM never cuts off a destination its record allows, on any tap that enforces
\* before and after the step, whatever runs in between.
THEOREM ListChangesAreSafe == Spec => ListedStaysAllowed
<1>1. TypeOK /\ KernelInv /\ [Next]_vars =>
        [\A t \in Taps : kern[t].mode = "enforce" /\ kern'[t].mode = "enforce"
           => kern[t].list \cap mem[Owner[t]].allow \subseteq kern'[t].list]_vars
  BY ListedStep
<1> QED BY <1>1, KernelInvariant, PTL DEF Spec, ListedStaysAllowed

-----------------------------------------------------------------------------
(* The record: what a restart would read is what the engine holds, and the *)
(* kernel enforces nothing that is not on file.                            *)

\* The record and the file are trusted to agree: there is a file, a process, and no failed save.
Agreed == HasStore /\ up # "down" /\ ~unsaved

\* Also while Reconcile takes policies back, until it has taken the first one.
FileIsRecord == Agreed /\ (op.kind # "revert" \/ op.prev = NoPolicy) => disk = mem

\* While Reconcile takes policies back, the file holds each as it is or as it was with its timer.
FileLeadsToRecord ==
  Agreed => \A v \in VMs : disk[v] = mem[v] \/ (disk[v].revert.on /\ mem[v] = Reverted(disk[v]))

\* What Reconcile has yet to take back still waits for confirmation.
DueWaits == op.kind = "revert" => \A v \in op.due : mem[v].revert.on

\* Without a file nothing enforces and nothing goes back to enforcing.
Plain(p) == p.mode # "enforce" /\ p.revert.mode # "enforce"
NothingToKeep == HasStore \/ (Plain(op.prev) /\ \A v \in VMs : Plain(mem[v]))

RecordInv == FileIsRecord /\ FileLeadsToRecord /\ DueWaits /\ NothingToKeep

\* A save that works makes the file the record; one that fails is remembered.
LEMMA SaveAgrees ==
  ASSUME NEW m, Save(m) \/ SaveFails(m), mem' = m \/ SaveFails(m)
  PROVE  Agreed' => disk' = mem'
  BY DEF Save, SaveFails, Agreed

\* After a save, or a step that leaves both alone, the invariant's first two parts hold.
LEMMA EqualIsEnough ==
  ASSUME Agreed' => disk' = mem'
  PROVE  FileIsRecord' /\ FileLeadsToRecord'
  BY DEF FileIsRecord, FileLeadsToRecord

\* A record that waits for confirmation is one.
LEMMA WaitingIsRecord == \A p \in Policies : p.revert.on => p # NoPolicy
  BY DEF Policies, NoPolicy, NoRevert

\* What a step that touches neither the record nor the operation keeps.
LEMMA RecordUntouched ==
  ASSUME RecordInv, mem' = mem, disk' = disk, unsaved' = unsaved, op' = op,
         up = "down" => up' = "down"
  PROVE  RecordInv'
<1>1. Agreed' => Agreed
  BY DEF Agreed
<1> QED BY <1>1 DEF RecordInv, FileIsRecord, FileLeadsToRecord, DueWaits, NothingToKeep

\* Every step keeps the invariant.
LEMMA RecordStep == TypeOK /\ Quiet /\ RecordInv /\ [Next]_vars => RecordInv'
<1> USE DEF envVars, recVars, kernVars
<1> SUFFICES ASSUME TypeOK, Quiet, RecordInv, [Next]_vars PROVE RecordInv'
  OBVIOUS
<1>0. Plain(NoPolicy) /\ Plain(IdleOp.prev) /\ IdleOp.kind = "idle" /\ IdleOp.prev = NoPolicy
  BY DEF Plain, NoPolicy, NoRevert, IdleOp
<1>1. ASSUME NEW v \in VMs, NEW m \in {"audit", "enforce"}, NEW list \in SUBSET Nets,
             NEW c \in Nat, Apply(v, m, list, c)
      PROVE  RecordInv'
  <2>1. FileIsRecord' /\ FileLeadsToRecord'
    BY <1>1, SaveAgrees, EqualIsEnough DEF Apply
  <2>2. op'.kind = "apply" /\ op'.prev = mem[v] /\ mem' = [mem EXCEPT ![v] = NewPolicy(v, m, list, c)]
    BY <1>1 DEF Apply, IdleOp
  <2>3. HasStore \/ Plain(NewPolicy(v, m, list, c))
    BY <1>1 DEF Apply, MayApply, MayEnforce, NewPolicy, NoRevert, Plain
  <2>4. NothingToKeep'
    BY <2>2, <2>3 DEF TypeOK, RecordInv, NothingToKeep
  <2> QED BY <2>1, <2>2, <2>4 DEF RecordInv, DueWaits
<1>2. ASSUME NEW v \in VMs, NEW m \in {"audit", "enforce"}, NEW list \in SUBSET Nets,
             NEW c \in Nat, ApplyNotSaved(v, m, list, c)
      PROVE  RecordInv'
  BY <1>2 DEF ApplyNotSaved, SaveFails, RecordInv, FileIsRecord, FileLeadsToRecord, Agreed, DueWaits,
     NothingToKeep
<1>3. ASSUME NEW v \in VMs, Confirm(v) PROVE RecordInv'
  <2> DEFINE kept == [mem EXCEPT ![v].revert = NoRevert]
  <2>1. FileIsRecord' /\ FileLeadsToRecord'
    BY <1>3, SaveAgrees, EqualIsEnough DEF Confirm
  <2>2. HasStore \/ \A w \in VMs : Plain(kept[w])
    BY DEF TypeOK, Policies, RecordInv, NothingToKeep, Plain, NoRevert
  <2>3. op' = op /\ op.kind = "idle" /\ (mem' = kept \/ mem' = mem)
    BY <1>3 DEF Confirm, Idle
  <2>4. NothingToKeep'
    BY <2>2, <2>3 DEF RecordInv, NothingToKeep
  <2> QED BY <2>1, <2>3, <2>4 DEF RecordInv, DueWaits
<1>4. ASSUME NEW v \in VMs, Remove(v) PROVE RecordInv'
  BY <1>0, <1>4 DEF Remove, Idle, IdleOp, RecordInv, FileIsRecord, FileLeadsToRecord, Agreed, DueWaits,
     NothingToKeep
<1>5. CASE SetTaps
  BY <1>5, RecordUntouched DEF SetTaps, SetNoLink, SetAdd, SetAddFails, SetMode, SetTrim
<1>6. CASE ApplyDone \/ UndoDone \/ FixDone
  BY <1>0, <1>6 DEF ApplyDone, UndoDone, FixDone, RecordInv, FileIsRecord, FileLeadsToRecord, Agreed,
     DueWaits, NothingToKeep
<1>7. CASE ApplyUndo
  <2>1. FileIsRecord' /\ FileLeadsToRecord'
    BY <1>7, SaveAgrees, EqualIsEnough DEF ApplyUndo
  <2>2. /\ op'.kind = "undo" /\ op'.prev = op.prev /\ op.vm \in VMs
        /\ mem' = [mem EXCEPT ![op.vm] = op.prev]
    BY <1>7 DEF ApplyUndo, TypeOK, Ops
  <2>3. NothingToKeep'
    BY <2>2 DEF TypeOK, RecordInv, NothingToKeep
  <2> QED BY <2>1, <2>2, <2>3 DEF RecordInv, DueWaits
<1>8. CASE RemoveDone
  <2>1. FileIsRecord' /\ FileLeadsToRecord'
    BY <1>8, SaveAgrees, EqualIsEnough DEF RemoveDone
  <2>2. NothingToKeep'
    BY <1>0, <1>8 DEF RemoveDone, TypeOK, RecordInv, NothingToKeep
  <2> QED BY <1>0, <1>8, <2>1, <2>2 DEF RemoveDone, RecordInv, DueWaits
<1>9. CASE ReconcileStart
  <2>1. op'.kind = "revert" /\ op'.prev = NoPolicy /\ op'.due = {v \in VMs : Due(v)} /\ op.kind = "idle"
    BY <1>9 DEF ReconcileStart, Idle, IdleOp
  <2>2. FileIsRecord' /\ FileLeadsToRecord'
    BY <1>9, <2>1 DEF ReconcileStart, RecordInv, FileIsRecord, FileLeadsToRecord, Agreed
  <2> QED BY <1>0, <1>9, <2>1, <2>2 DEF ReconcileStart, RecordInv, DueWaits, Due, NothingToKeep
<1>10. ASSUME NEW v \in VMs, RevertOne(v) PROVE RecordInv'
  <2>1. /\ op.kind = "revert" /\ op'.kind = "revert" /\ op'.due = op.due \ {v} /\ op'.prev = mem[v]
        /\ mem' = [mem EXCEPT ![v] = Reverted(mem[v])] /\ disk' = disk /\ (Agreed' <=> Agreed)
    <3>1. Agreed' <=> Agreed
      BY <1>10 DEF RevertOne, Agreed
    <3> QED BY <1>10, <3>1 DEF RevertOne, TypeOK, Ops
  <2>2. mem[v].revert.on /\ mem[v] \in Policies
    BY <1>10 DEF RevertOne, RecordInv, DueWaits, TypeOK
  <2>3. FileIsRecord'
    BY <2>1, <2>2, WaitingIsRecord DEF FileIsRecord
  <2>4. ASSUME Agreed PROVE disk[v] = mem[v]
    <3>1. mem[v] # Reverted(disk[v])
      <4>1. Reverted(disk[v]).revert.on = FALSE
        BY DEF Reverted, NoRevert
      <4> QED BY <2>2, <4>1
    <3> QED BY <2>4, <3>1 DEF RecordInv, FileLeadsToRecord
  <2>5. FileLeadsToRecord'
    BY <2>1, <2>2, <2>4 DEF RecordInv, FileLeadsToRecord, TypeOK
  <2>6. DueWaits'
    BY <2>1 DEF RecordInv, DueWaits, TypeOK, Ops
  <2>7. NothingToKeep'
    BY <2>1 DEF RecordInv, NothingToKeep, Plain, Reverted, NoRevert, TypeOK
  <2> QED BY <2>3, <2>5, <2>6, <2>7 DEF RecordInv
<1>11. CASE RevertsDone
  <2>1. op'.kind = "fix" /\ op'.prev = op.prev /\ mem' = mem /\ up' = up
    BY <1>11 DEF RevertsDone, TypeOK, Ops
  <2>2. Agreed' => disk' = mem'
    <3>1. CASE op.prev = NoPolicy /\ UNCHANGED <<disk, unsaved, faults>>
      BY <2>1, <3>1 DEF RecordInv, FileIsRecord, Agreed
    <3>2. CASE Save(mem) \/ SaveFails(mem)
      BY <2>1, <3>2, SaveAgrees
    <3> QED BY <1>11, <3>1, <3>2 DEF RevertsDone
  <2> QED BY <2>1, <2>2, EqualIsEnough DEF RecordInv, DueWaits, NothingToKeep
<1>12. ASSUME NEW t \in Taps, FixOne(t) PROVE RecordInv'
  <2>1. op.kind = "fix" /\ op'.kind = "fix" /\ op'.prev = op.prev
    BY <1>12 DEF FixOne, TypeOK, Ops
  <2> QED BY <1>12, <2>1 DEF FixOne, RecordInv, FileIsRecord, FileLeadsToRecord, Agreed, DueWaits,
            NothingToKeep
<1>13. CASE Host \/ ScanVMs \/ SyncTaps \/ DetachAll \/ UNCHANGED vars
  BY <1>13, RecordUntouched DEF Host, Tick, VMStops, VMStarts, ScanVMs, SyncTaps, DetachAll, vars
<1>14. CASE ShutdownTaps
  BY <1>14 DEF ShutdownTaps, RecordInv, FileIsRecord, FileLeadsToRecord, Agreed, DueWaits, NothingToKeep
<1>15. CASE Crash \/ Exit
  BY <1>0, <1>15 DEF Crash, Exit, Forget, RecordInv, FileIsRecord, FileLeadsToRecord, Agreed, DueWaits,
     NothingToKeep
<1>16. CASE Start
  <2>1. op' = op /\ op.kind = "idle"
    BY <1>16 DEF Start, Quiet, Idle
  <2>2. FileIsRecord' /\ FileLeadsToRecord'
    BY <1>16, EqualIsEnough DEF Start, Agreed
  <2>3. NothingToKeep'
    BY <1>0, <1>16, <2>1 DEF Start, RecordInv, NothingToKeep
  <2> QED BY <2>1, <2>2, <2>3 DEF RecordInv, DueWaits
<1>17. CASE Engine
  BY <1>1, <1>2, <1>3, <1>4, <1>17, ConstantsAssumption DEF Engine
<1>18. CASE Progress
  BY <1>5, <1>6, <1>7, <1>8, <1>9, <1>10, <1>11, <1>12, <1>18 DEF Progress
<1>19. CASE Daemon
  BY <1>13, <1>14, <1>15, <1>16, <1>19 DEF Daemon
<1> QED BY <1>13, <1>17, <1>18, <1>19 DEF Next

\* RecordInv holds in every reachable state.
THEOREM RecordInvariant == Spec => []RecordInv
<1>1. Init => RecordInv
  BY DEF Init, IdleOp, NoPolicy, NoRevert, RecordInv, FileIsRecord, FileLeadsToRecord, Agreed, DueWaits,
     NothingToKeep, Plain
<1>2. KernelInv => Quiet
  BY DEF KernelInv
<1> QED BY <1>1, <1>2, RecordStep, KernelInvariant, PTL DEF Spec

\* Unless a save failed, what a restart would read is the engine's record whenever no policy is being
\* taken back: a crash at any step of Apply, Confirm, Remove or Reconcile loses no record and no timer.
THEOREM RestartReadsRecord == Spec => []RecordSaved
<1>1. RecordInv => RecordSaved
  BY DEF RecordInv, FileIsRecord, Agreed, RecordSaved
<1> QED BY <1>1, RecordInvariant, PTL

\* The step of RecordBeforeKernel: only SetMode makes a tap enforce, and it writes the record's mode.
LEMMA EnforceStep ==
  ASSUME TypeOK, KernelInv, RecordInv, [Next]_vars, NEW t \in Taps,
         kern[t].mode # "enforce", kern'[t].mode = "enforce"
  PROVE  unsaved \/ OnFile(Owner[t], job.allow)
<1> USE DEF envVars, recVars, kernVars
<1>1. CASE SetMode /\ job.tap = t /\ att[t] = "live"
  <2>1. job.mode = "enforce" /\ Owner[t] = op.vm /\ up # "down"
    BY <1>1 DEF SetMode, TypeOK, KernelPolicies, KernelInv, JobServesRecord, JobDone
  <2>2. mem[Owner[t]].mode = "enforce" /\ mem[Owner[t]].allow = job.allow /\ Owner[t] \in VMs
    BY <1>1, <2>1, ConstantsAssumption DEF SetMode, KernelInv, JobServesRecord, JobDone
  <2>3. HasStore
    BY <2>2 DEF RecordInv, NothingToKeep, Plain
  <2>4. CASE ~unsaved
    <3>1. \/ disk[Owner[t]] = mem[Owner[t]]
          \/ disk[Owner[t]].revert.on /\ mem[Owner[t]] = Reverted(disk[Owner[t]])
      BY <2>1, <2>2, <2>3, <2>4 DEF RecordInv, FileLeadsToRecord, Agreed
    <3> QED BY <2>2, <3>1 DEF OnFile, Reverted
  <2> QED BY <2>4
<1>2. ASSUME kern'[t] = kern[t] \/ kern'[t] = KernelOff \/ kern'[t].mode = kern[t].mode PROVE FALSE
  BY <1>2 DEF KernelOff
<1>3. CASE SetMode /\ ~(job.tap = t /\ att[t] = "live")
  BY <1>2, <1>3 DEF SetMode, TypeOK, Jobs
<1>4. ASSUME NEW x \in Taps, SetAdd(x) \/ SetAddFails(x) PROVE kern'[t].mode = kern[t].mode
  <2>1. PICK part : kern' = IF att[x] = "live" THEN [kern EXCEPT ![x].list = Added(@, part)] ELSE kern
    BY <1>4 DEF SetAdd, SetAddFails
  <2> QED BY <2>1 DEF TypeOK, KernelPolicies
<1>5. ASSUME SetTrim PROVE kern'[t].mode = kern[t].mode
  BY <1>5 DEF SetTrim, TypeOK, KernelPolicies
<1>6. CASE SyncTaps
  <2>1. PICK linked \in SUBSET Taps : kern' = [y \in Taps |-> IF y \in linked THEN kern[y] ELSE KernelOff]
    BY <1>6 DEF SyncTaps
  <2> QED BY <1>2, <2>1
<1>7. CASE (\E v \in VMs : VMStops(v)) \/ ShutdownTaps \/ DetachAll
  BY <1>2, <1>7 DEF VMStops, ShutdownTaps, DetachAll
<1>8. CASE Engine
  BY <1>2, <1>8 DEF Engine, Apply, ApplyNotSaved, Confirm, Remove
<1>9. CASE Progress
  BY <1>1, <1>2, <1>3, <1>4, <1>5, <1>9 DEF Progress, SetTaps, SetNoLink, ApplyDone, ApplyUndo, UndoDone,
     RemoveDone, ReconcileStart, RevertOne, RevertsDone, FixOne, FixDone
<1>10. CASE Host \/ Daemon \/ UNCHANGED vars
  BY <1>2, <1>6, <1>7, <1>10 DEF Host, Daemon, Tick, VMStarts, ScanVMs, Crash, Exit, Start, vars
<1> QED BY <1>8, <1>9, <1>10 DEF Next

\* No tap starts to enforce what is not on file, unless the last save failed.
THEOREM FileLeadsKernel == Spec => RecordBeforeKernel
<1>1. TypeOK /\ KernelInv /\ RecordInv /\ [Next]_vars =>
        [\A t \in Taps : kern[t].mode # "enforce" /\ kern'[t].mode = "enforce"
           => unsaved \/ OnFile(Owner[t], job.allow)]_vars
  BY EnforceStep
<1> QED BY <1>1, KernelInvariant, RecordInvariant, PTL DEF Spec, RecordBeforeKernel

-----------------------------------------------------------------------------
(* EgressPolicy implements CommitConfirm: the record as Held, Kept and     *)
(* Asked show it starts and steps as the abstract one may.                 *)

\* While a change is under way the last save worked, and the new record is one a request may make of the old.
ChangeIsFair ==
  op.kind = "apply" => ~unsaved /\ CC!Changes(op.prev, mem[op.vm])

\* What Reconcile has yet to take back is due.
DueIsDue == op.kind = "revert" => \A v \in op.due : mem[v].revert.until <= now

\* Without a store there is nothing on file.
NothingOnFile == ~HasStore => disk = [v \in VMs |-> NoPolicy]

TrialInv == ChangeIsFair /\ DueIsDue /\ NothingOnFile

\* A save needs a store to change the file.
LEMMA SaveNeedsStore ==
  ASSUME NothingOnFile, NEW m, Save(m) \/ SaveFails(m) \/ disk' = disk
  PROVE  NothingOnFile'
  BY DEF NothingOnFile, Save, SaveFails

\* The record a request makes is a fair change: on trial only to enforce, and to go back to what came before.
LEMMA NewIsFair ==
  ASSUME TypeOK, NEW v \in VMs, NEW m, NEW list, NEW c
  PROVE  CC!Changes(mem[v], NewPolicy(v, m, list, c))
<1>1. mem[v] \in Policies
  BY DEF TypeOK
<1> QED BY <1>1 DEF CC!Changes, CC!OnTrial, CC!Before, NewPolicy, RevertFor, NoRevert, Policies, Reverts

\* Every step keeps the invariant.
LEMMA TrialStep == TypeOK /\ Quiet /\ RecordInv /\ TrialInv /\ [Next]_vars => TrialInv'
<1> USE DEF envVars, recVars, kernVars
<1> SUFFICES ASSUME TypeOK, Quiet, RecordInv, TrialInv, [Next]_vars PROVE TrialInv'
  OBVIOUS
<1>0. IdleOp.kind = "idle" /\ op.vm \in VMs /\ op.due \in SUBSET VMs /\ now \in Nat
  BY ConstantsAssumption DEF IdleOp, TypeOK, Ops
<1>1. ASSUME NEW v \in VMs, NEW m \in {"audit", "enforce"}, NEW list \in SUBSET Nets,
             NEW c \in Nat, Apply(v, m, list, c)
      PROVE  TrialInv'
  <2>1. /\ op'.kind = "apply" /\ op'.vm = v /\ op'.prev = mem[v] /\ unsaved' = FALSE
        /\ mem'[v] = NewPolicy(v, m, list, c)
    BY <1>1 DEF Apply, IdleOp, Save, TypeOK
  <2>2. NothingOnFile'
    BY <1>1, SaveNeedsStore DEF Apply, TrialInv
  <2> QED BY <2>1, <2>2, NewIsFair DEF TrialInv, ChangeIsFair, DueIsDue
<1>2. ASSUME ~(op'.kind \in {"apply", "revert"}), \E m : Save(m) \/ SaveFails(m) \/ disk' = disk
      PROVE  TrialInv'
  BY <1>2, SaveNeedsStore DEF TrialInv, ChangeIsFair, DueIsDue
<1>3. ASSUME op' = op, mem' = mem, disk' = disk, unsaved' = unsaved, now' = now \/ now' = now + 1
      PROVE  TrialInv'
  <2>1. DueIsDue'
    BY <1>0, <1>3 DEF TrialInv, DueIsDue, TypeOK, Policies, Reverts
  <2> QED BY <1>3, <2>1 DEF TrialInv, ChangeIsFair, NothingOnFile
<1>4. ASSUME NEW v \in VMs, NEW m \in {"audit", "enforce"}, NEW list \in SUBSET Nets, NEW c \in Nat,
             ApplyNotSaved(v, m, list, c) \/ Confirm(v)
      PROVE  TrialInv'
  BY <1>2, <1>4 DEF ApplyNotSaved, MayApply, Confirm, Idle
<1>5. ASSUME NEW v \in VMs, Remove(v) PROVE TrialInv'
  <2>1. op'.kind = "remove" /\ disk' = disk
    BY <1>5 DEF Remove, IdleOp
  <2> QED BY <1>2, <2>1
<1>6. CASE SetTaps
  BY <1>3, <1>6 DEF SetTaps, SetNoLink, SetAdd, SetAddFails, SetMode, SetTrim
<1>7. CASE ApplyDone \/ UndoDone \/ FixDone
  BY <1>0, <1>2, <1>7 DEF ApplyDone, UndoDone, FixDone
<1>8. CASE ApplyUndo \/ RemoveDone
  <2>1. op'.kind \in {"undo", "idle"}
    BY <1>0, <1>8 DEF ApplyUndo, RemoveDone, TypeOK, Ops
  <2> QED BY <1>2, <1>8, <2>1 DEF ApplyUndo, RemoveDone
<1>9. CASE ReconcileStart
  <2>1. op'.kind = "revert" /\ op'.due = {v \in VMs : Due(v)} /\ UNCHANGED <<mem, disk, now>>
    BY <1>9 DEF ReconcileStart, IdleOp
  <2> QED BY <2>1 DEF TrialInv, ChangeIsFair, DueIsDue, Due, NothingOnFile
<1>10. ASSUME NEW v \in VMs, RevertOne(v) PROVE TrialInv'
  <2>1. /\ op.kind = "revert" /\ op'.kind = "revert" /\ op'.due = op.due \ {v} /\ UNCHANGED <<disk, now>>
        /\ \A w \in VMs \ {v} : mem'[w] = mem[w]
    BY <1>10 DEF RevertOne, TypeOK, Ops
  <2> QED BY <1>0, <2>1 DEF TrialInv, ChangeIsFair, DueIsDue, NothingOnFile
<1>11. CASE RevertsDone
  <2>1. op'.kind = "fix"
    BY <1>11 DEF RevertsDone, TypeOK, Ops
  <2> QED BY <1>2, <1>11, <2>1 DEF RevertsDone
<1>12. ASSUME NEW t \in Taps, FixOne(t) PROVE TrialInv'
  <2>1. op'.kind = "fix" /\ disk' = disk
    BY <1>12 DEF FixOne, TypeOK, Ops
  <2> QED BY <1>2, <2>1
<1>13. CASE Host \/ ScanVMs \/ SyncTaps \/ ShutdownTaps \/ DetachAll \/ UNCHANGED vars
  BY <1>3, <1>13 DEF Host, Tick, VMStops, VMStarts, ScanVMs, SyncTaps, ShutdownTaps, DetachAll, vars
<1>14. CASE Crash \/ Exit
  BY <1>0, <1>2, <1>14 DEF Crash, Exit, Forget
<1>15. CASE Start
  BY <1>2, <1>15 DEF Start, Quiet, Idle
<1>16. CASE Engine
  BY <1>1, <1>4, <1>5, <1>16, ConstantsAssumption DEF Engine
<1>17. CASE Progress
  BY <1>6, <1>7, <1>8, <1>9, <1>10, <1>11, <1>12, <1>17 DEF Progress
<1>18. CASE Daemon
  BY <1>13, <1>14, <1>15, <1>18 DEF Daemon
<1> QED BY <1>13, <1>16, <1>17, <1>18 DEF Next

-----------------------------------------------------------------------------
(* The refinement *)

\* What Held, Kept and Asked are between operations, and in each operation.
Mapped ==
  /\ up # "down" /\ op.kind # "apply" => Held = mem
  /\ up = "down" => Held = disk /\ Kept = disk /\ Asked = {}
  /\ op.kind # "apply" => Kept = disk
  /\ op.kind = "apply" =>
       /\ up # "down" /\ Held = [mem EXCEPT ![op.vm] = op.prev] /\ Asked = {op.vm}
       /\ Kept = IF HasStore THEN Held ELSE disk
       /\ HasStore => disk = mem
  /\ op.kind = "remove" => up # "down" /\ Asked = {op.vm}
  /\ op.kind \notin {"apply", "remove"} => Asked = {}

LEMMA Mapping == Quiet /\ RecordInv /\ TrialInv => Mapped
<1>1. Quiet /\ RecordInv /\ TrialInv /\ op.kind = "apply" /\ HasStore => disk = mem
  BY DEF RecordInv, FileIsRecord, Agreed, TrialInv, ChangeIsFair, Quiet, Idle
<1> QED BY <1>1 DEF Mapped, Held, Kept, Asked, Quiet, Idle

LEMMA MappingNext == Quiet' /\ RecordInv' /\ TrialInv' => Mapped'
<1>1. Quiet' /\ RecordInv' /\ TrialInv' /\ op'.kind = "apply" /\ HasStore => disk' = mem'
  BY DEF RecordInv, FileIsRecord, Agreed, TrialInv, ChangeIsFair, Quiet, Idle
<1> QED BY <1>1 DEF Mapped, Held, Kept, Asked, Quiet, Idle

\* A step that leaves the record, the file and the operation alone, and does not end the daemon, shows in none of
\* them.
LEMMA MappedUntouched ==
  ASSUME mem' = mem, disk' = disk, op' = op, (up' = "down") <=> (up = "down")
  PROVE  Held' = Held /\ Kept' = Kept /\ Asked' = Asked
  BY DEF Held, Kept, Asked

\* The first steps of a request, and those that end it at once.
LEMMA EngineRefines ==
  ASSUME TypeOK, Mapped, TypeOK', Mapped', Engine
  PROVE  CC!Next
<1> USE DEF envVars, recVars, kernVars
<1>0. mem \in [VMs -> Policies] /\ mem' \in [VMs -> Policies]
  BY DEF TypeOK
<1>1. ASSUME NEW v \in VMs, NEW m \in {"audit", "enforce"}, NEW list \in SUBSET Nets,
             NEW c \in Nat, Apply(v, m, list, c)
      PROVE  CC!Ask(v)
  <2>1. /\ op.kind = "idle" /\ up = "up" /\ op'.kind = "apply" /\ op'.vm = v /\ op'.prev = mem[v] /\ now' = now
        /\ mem' = [mem EXCEPT ![v] = NewPolicy(v, m, list, c)] /\ (~HasStore => disk' = disk)
    BY <1>1 DEF Apply, MayApply, Working, Idle, IdleOp, Save
  <2>2. Held = mem /\ Kept = disk /\ Asked = {}
    BY <2>1 DEF Mapped
  <2>3. Held' = [mem' EXCEPT ![v] = mem[v]] /\ Asked' = {v} /\ Kept' = IF HasStore THEN Held' ELSE disk'
    BY <2>1 DEF Mapped
  <2>4. Held' = mem
    BY <1>0, <2>1, <2>3
  <2> QED BY <2>1, <2>2, <2>3, <2>4 DEF CC!Ask
<1>2. ASSUME NEW v \in VMs, NEW m \in {"audit", "enforce"}, NEW list \in SUBSET Nets,
             NEW c \in Nat, ApplyNotSaved(v, m, list, c)
      PROVE  CC!GiveUp(v)
  <2>1. /\ op.kind = "idle" /\ up = "up" /\ op' = op /\ up' = up /\ mem' = mem /\ now' = now
        /\ disk' \in {disk, [mem EXCEPT ![v] = NewPolicy(v, m, list, c)]}
    BY <1>2 DEF ApplyNotSaved, MayApply, Working, Idle, SaveFails
  <2>2. Held = mem /\ Kept = disk /\ Asked = {} /\ Held' = mem /\ Kept' = disk' /\ Asked' = {}
    BY <2>1 DEF Mapped
  <2>3. CASE disk' = [mem EXCEPT ![v] = NewPolicy(v, m, list, c)]
    <3>1. disk'[v] = NewPolicy(v, m, list, c) /\ disk' = [mem EXCEPT ![v] = disk'[v]]
      BY <1>0, <2>3
    <3>2. CC!Changes(mem[v], disk'[v])
      BY <3>1, NewIsFair
    <3> QED BY <2>1, <2>2, <3>1, <3>2 DEF CC!GiveUp
  <2> QED BY <2>1, <2>2, <2>3 DEF CC!GiveUp
<1>3. ASSUME NEW v \in VMs, Confirm(v) PROVE CC!Confirm(v) \/ CC!GiveUp(v)
  <2> DEFINE kept == [mem EXCEPT ![v].revert = NoRevert]
  <2>1. /\ op.kind = "idle" /\ up = "up" /\ op' = op /\ up' = up /\ now' = now /\ mem[v].revert.on
        /\ \/ mem' = kept /\ disk' = IF HasStore THEN kept ELSE disk
           \/ disk' \in {disk, kept} /\ mem' = mem
    BY <1>3 DEF Confirm, Working, Idle, Save, SaveFails
  <2>2. Held = mem /\ Kept = disk /\ Asked = {} /\ Held' = mem' /\ Kept' = disk' /\ Asked' = {}
    BY <2>1 DEF Mapped
  <2>3. kept = [mem EXCEPT ![v] = CC!Confirmed(@)]
    <3>1. [mem[v] EXCEPT !.revert = NoRevert] = CC!Confirmed(mem[v])
      BY <1>0 DEF CC!Confirmed, Policies
    <3> QED BY <1>0, <3>1
  <2>4. kept = [mem EXCEPT ![v] = kept[v]] /\ CC!Changes(mem[v], kept[v])
    <3>1. ~kept[v].revert.on
      BY <1>0 DEF NoRevert, Policies
    <3> QED BY <1>0, <3>1 DEF CC!Changes, CC!OnTrial
  <2>5. CASE mem' = kept /\ disk' = IF HasStore THEN kept ELSE disk
    BY <2>1, <2>2, <2>3, <2>5 DEF CC!Confirm, CC!OnTrial, CC!Keeps
  <2>6. CASE disk' \in {disk, kept} /\ mem' = mem
    BY <2>1, <2>2, <2>4, <2>6 DEF CC!GiveUp
  <2> QED BY <2>1, <2>5, <2>6
<1>4. ASSUME NEW v \in VMs, Remove(v) PROVE CC!Ask(v)
  <2>1. /\ op.kind = "idle" /\ up = "up" /\ op'.kind = "remove" /\ op'.vm = v /\ up' = up
        /\ UNCHANGED <<mem, disk, now>>
    BY <1>4 DEF Remove, Working, Idle, IdleOp
  <2> QED BY <2>1 DEF Mapped, CC!Ask
<1> QED BY <1>1, <1>2, <1>3, <1>4, ConstantsAssumption DEF Engine, CC!Next

\* The steps the engine takes by itself.
LEMMA ProgressRefines ==
  ASSUME TypeOK, Quiet, TrialInv, RecordInv, Mapped, TypeOK', Mapped', Progress
  PROVE  CC!Next \/ UNCHANGED CC!ccVars
<1> USE DEF envVars, recVars, kernVars
<1>0. /\ mem \in [VMs -> Policies] /\ mem' \in [VMs -> Policies] /\ op.vm \in VMs /\ IdleOp.kind = "idle"
      /\ \A v \in op.due : v \in VMs
  BY DEF TypeOK, Ops, IdleOp
<1>1. ASSUME Held' = Held, Kept' = Kept, Asked' = Asked, now' = now PROVE UNCHANGED CC!ccVars
  BY <1>1 DEF CC!ccVars
<1>2. CASE SetTaps
  BY <1>1, <1>2, MappedUntouched DEF SetTaps, SetNoLink, SetAdd, SetAddFails, SetMode, SetTrim
<1>3. CASE ApplyDone
  <2>1. op.kind = "apply" /\ op'.kind = "idle" /\ UNCHANGED <<mem, disk, up, now>>
    BY <1>0, <1>3 DEF ApplyDone
  <2>2. /\ Held = [mem EXCEPT ![op.vm] = op.prev] /\ Held' = mem /\ Asked = {op.vm} /\ Asked' = {}
        /\ Kept' = IF HasStore THEN mem ELSE Kept
    BY <2>1 DEF Mapped
  <2>3. Held[op.vm] = op.prev /\ mem = [Held EXCEPT ![op.vm] = mem[op.vm]]
    BY <1>0, <2>2
  <2>4. CC!Changes(Held[op.vm], Held'[op.vm])
    BY <2>1, <2>2, <2>3 DEF TrialInv, ChangeIsFair
  <2>5. CC!CarryOut(op.vm)
    BY <2>1, <2>2, <2>3, <2>4 DEF CC!CarryOut, CC!Keeps
  <2> QED BY <1>0, <2>5 DEF CC!Next
<1>4. CASE ApplyUndo
  <2>1. /\ op.kind = "apply" /\ op'.kind = "undo" /\ up' = up /\ now' = now /\ up # "down"
        /\ mem' = [mem EXCEPT ![op.vm] = op.prev]
        /\ disk' \in {disk, mem'} /\ (~HasStore => disk' = disk)
    BY <1>4 DEF ApplyUndo, TypeOK, Ops, Save, SaveFails, Mapped
  <2>2. /\ Held = mem' /\ Held' = mem' /\ Asked = {op.vm} /\ Asked' = {} /\ Kept' = disk'
        /\ (HasStore => disk = mem) /\ (~HasStore => Kept = disk)
    BY <2>1 DEF Mapped
  <2>3. Held[op.vm] = op.prev /\ mem = [Held EXCEPT ![op.vm] = mem[op.vm]]
    BY <1>0, <2>1, <2>2
  <2>4. CC!Changes(Held[op.vm], mem[op.vm])
    BY <2>1, <2>3 DEF TrialInv, ChangeIsFair
  <2>5. CC!GiveUp(op.vm)
    BY <2>1, <2>2, <2>3, <2>4 DEF CC!GiveUp
  <2> QED BY <1>0, <2>5 DEF CC!Next
<1>5. CASE RemoveDone
  <2>1. /\ op.kind = "remove" /\ op'.kind = "idle" /\ up' = up /\ now' = now
        /\ mem' = [mem EXCEPT ![op.vm] = NoPolicy]
        /\ disk' \in {disk, mem'} /\ (~HasStore => disk' = disk)
    BY <1>0, <1>5 DEF RemoveDone, Save, SaveFails
  <2>2. Held = mem /\ Held' = mem' /\ Kept = disk /\ Kept' = disk' /\ Asked = {op.vm} /\ Asked' = {}
    BY <2>1 DEF Mapped
  <2>3. mem'[op.vm] = NoPolicy /\ mem' = [mem EXCEPT ![op.vm] = mem'[op.vm]]
    BY <1>0, <2>1
  <2>4. CC!Changes(mem[op.vm], NoPolicy)
    BY DEF CC!Changes, CC!OnTrial, NoPolicy, NoRevert
  <2>5. CC!CarryOut(op.vm)
    BY <2>1, <2>2, <2>3, <2>4 DEF CC!CarryOut, CC!Keeps
  <2> QED BY <1>0, <2>5 DEF CC!Next
<1>6. ASSUME op.kind \notin {"apply", "remove"}, op'.kind \notin {"apply", "remove"},
             UNCHANGED <<mem, disk, up, now>>
      PROVE  UNCHANGED CC!ccVars
  <2>1. Held' = Held /\ Kept' = Kept /\ Asked' = Asked
    BY <1>6 DEF Held, Kept, Asked
  <2> QED BY <1>1, <1>6, <2>1
<1>7. CASE UndoDone \/ FixDone
  BY <1>0, <1>6, <1>7 DEF UndoDone, FixDone
<1>8. CASE ReconcileStart
  <2>1. op.kind = "idle" /\ op'.kind = "revert" /\ UNCHANGED <<mem, disk, up, now>>
    BY <1>8 DEF ReconcileStart, Idle, IdleOp
  <2> QED BY <1>6, <2>1
<1>9. ASSUME NEW v \in VMs, RevertOne(v) PROVE CC!Next
  <2>1. /\ op.kind = "revert" /\ op'.kind = "revert" /\ UNCHANGED <<disk, up, now>> /\ v \in op.due
        /\ mem' = [mem EXCEPT ![v] = Reverted(mem[v])]
    BY <1>9 DEF RevertOne, TypeOK, Ops
  <2>2. Held = mem /\ Held' = mem' /\ Kept' = Kept /\ Asked = {} /\ Asked' = {}
    BY <2>1 DEF Mapped, Quiet, Idle
  <2>3. mem[v].revert.on /\ mem[v].revert.until <= now
    BY <2>1 DEF RecordInv, DueWaits, TrialInv, DueIsDue
  <2>4. CC!GoneBack(mem[v]) = Reverted(mem[v])
    BY DEF CC!GoneBack, Reverted
  <2>5. CC!GoBack(v)
    BY <2>1, <2>2, <2>3, <2>4 DEF CC!GoBack, CC!OnTrial
  <2> QED BY <2>5 DEF CC!Next
<1>10. CASE RevertsDone
  <2>1. /\ op.kind = "revert" /\ op'.kind = "fix" /\ UNCHANGED <<mem, up, now>> /\ up # "down"
        /\ disk' \in {disk, mem}
    BY <1>10 DEF RevertsDone, TypeOK, Ops, Save, SaveFails, Quiet, Idle
  <2>2. CASE disk' = disk
    BY <1>6, <2>1, <2>2
  <2>3. CASE disk' = mem
    <3>1. Held = mem /\ Held' = mem /\ Kept' = mem /\ Asked = {} /\ Asked' = {}
      BY <2>1, <2>3 DEF Mapped
    <3> QED BY <2>1, <3>1 DEF CC!Save, CC!Next
  <2> QED BY <2>1, <2>2, <2>3
<1>11. ASSUME NEW t \in Taps, FixOne(t) PROVE UNCHANGED CC!ccVars
  <2>1. op.kind = "fix" /\ op'.kind = "fix" /\ UNCHANGED <<mem, disk, up, now>>
    BY <1>11 DEF FixOne, TypeOK, Ops
  <2> QED BY <1>6, <2>1
<1> QED BY <1>2, <1>3, <1>4, <1>5, <1>7, <1>8, <1>9, <1>10, <1>11 DEF Progress

\* What happens on the host and to the daemon.
LEMMA WorldRefines ==
  ASSUME TypeOK, Quiet, TrialInv, RecordInv, Mapped, Mapped', Host \/ Daemon \/ UNCHANGED vars
  PROVE  CC!Next \/ UNCHANGED CC!ccVars
<1> USE DEF envVars, recVars, kernVars
<1>1. CASE Tick
  <2>1. Held' = Held /\ Kept' = Kept /\ Asked' = Asked /\ now' = now + 1
    BY <1>1, MappedUntouched DEF Tick
  <2> QED BY <2>1 DEF CC!Tick, CC!Next
<1>2. CASE (\E v \in VMs : VMStops(v) \/ VMStarts(v)) \/ ScanVMs \/ SyncTaps \/ ShutdownTaps \/ DetachAll
           \/ UNCHANGED vars
  <2>1. Held' = Held /\ Kept' = Kept /\ Asked' = Asked /\ now' = now
    BY <1>2, MappedUntouched DEF VMStops, VMStarts, ScanVMs, SyncTaps, ShutdownTaps, DetachAll, vars
  <2> QED BY <2>1 DEF CC!ccVars
<1>3. CASE Crash \/ Exit
  <2>1. up # "down" /\ up' = "down" /\ disk' = disk /\ now' = now
    BY <1>3 DEF Crash, Exit, Forget
  <2>2. Held' = disk /\ Kept' = disk /\ Asked' = {}
    BY <2>1 DEF Mapped
  <2>3. CASE Kept = disk
    BY <2>1, <2>2, <2>3 DEF CC!Restart, CC!Next
  <2>4. CASE op.kind = "apply" /\ HasStore
    <3>1. Held = [mem EXCEPT ![op.vm] = op.prev] /\ Asked = {op.vm} /\ disk = mem
      BY <2>4 DEF Mapped
    <3>2. mem \in [VMs -> Policies] /\ op.vm \in VMs
      BY DEF TypeOK, Ops
    <3>3. Held[op.vm] = op.prev /\ disk = [Held EXCEPT ![op.vm] = disk[op.vm]]
      BY <3>1, <3>2
    <3>4. CC!Changes(Held[op.vm], disk[op.vm])
      BY <2>4, <3>1, <3>3 DEF TrialInv, ChangeIsFair
    <3>5. CC!Restart
      BY <2>1, <2>2, <3>1, <3>3, <3>4 DEF CC!Restart
    <3> QED BY <3>5 DEF CC!Next
  <2> QED BY <2>3, <2>4 DEF Mapped
<1>4. CASE Start
  <2>1. up = "down" /\ up' = "up" /\ op' = op /\ op.kind = "idle" /\ disk' = disk /\ now' = now /\ mem' = disk
    BY <1>4 DEF Start, Quiet, Idle, TrialInv, NothingOnFile
  <2>2. Held' = Held /\ Kept' = Kept /\ Asked' = Asked
    BY <2>1 DEF Mapped
  <2> QED BY <2>1, <2>2 DEF CC!ccVars
<1> QED BY <1>1, <1>2, <1>3, <1>4 DEF Host, Daemon

\* TrialInv holds in every reachable state.
THEOREM TrialInvariant == Spec => []TrialInv
<1>1. Init => TrialInv
  BY DEF Init, IdleOp, TrialInv, ChangeIsFair, DueIsDue, NothingOnFile
<1>2. KernelInv => Quiet
  BY DEF KernelInv
<1> QED BY <1>1, <1>2, TrialStep, KernelInvariant, RecordInvariant, PTL DEF Spec

\* For every set of VMs, taps and networks the engine keeps the promise of a trial: each of its steps, a crash at
\* any point and a failed save included, is one that CommitConfirm allows, or does not show.
THEOREM TrialPromiseKept == Spec => KeepsTrialPromise
<1>1. Init => CC!Init
  BY DEF Init, CC!Init, Held, Kept, Asked, IdleOp
<1>2. TypeOK /\ KernelInv /\ RecordInv /\ TrialInv /\ TypeOK' /\ KernelInv' /\ RecordInv' /\ TrialInv' /\ [Next]_vars
        => [CC!Next]_CC!ccVars
  <2> SUFFICES ASSUME TypeOK, KernelInv, RecordInv, TrialInv, TypeOK', KernelInv', RecordInv', TrialInv', [Next]_vars
               PROVE  CC!Next \/ UNCHANGED CC!ccVars
    OBVIOUS
  <2>1. Quiet /\ Quiet'
    BY DEF KernelInv
  <2>2. Mapped /\ Mapped'
    BY <2>1, Mapping, MappingNext
  <2> QED BY <2>1, <2>2, EngineRefines, ProgressRefines, WorldRefines DEF Next
<1> QED BY <1>1, <1>2, KernelInvariant, RecordInvariant, TrialInvariant, PTL DEF Spec, KeepsTrialPromise, CC!Spec

=============================================================================
