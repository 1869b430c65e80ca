----------------------------- MODULE Isolation -----------------------------
(***************************************************************************)
(* Isolating and releasing VMs (src/internal/state/enforce.go): requests   *)
(* that set a flag on each tap of a VM and then record what came of it,    *)
(* the record on disk (internal/persist/attach.go), Refresh putting        *)
(* recorded isolations back on taps that lack the flag, and the daemon's   *)
(* life around them: crash, graceful stop, start, `shukrad -detach-all`.   *)
(*                                                                         *)
(* State.act takes the state's lock to read the VM and again to append the *)
(* record, and holds nothing in between: requests about one VM, and the    *)
(* re-applying of Refresh, interleave tap by tap.                          *)
(***************************************************************************)
EXTENDS Naturals, FiniteSets

CONSTANTS
  VMs,        \* VM names
  Taps,       \* tap interface names
  Owner,      \* Owner[t] is the VM whose tap t is
  Callers,    \* the goroutines that may ask to isolate or release
  Pinned,     \* links and maps are pinned on a bpf filesystem
  Avails,     \* what Enforcer.Available may say in one run of the daemon
  Serial,     \* requests and re-applying do not overlap
  MaxCalls,   \* bound: requests made by people and -detach-all runs
  MaxFaults   \* bound: crashes, stops, failed writes, missed scans and vanished VMs

ASSUME IsolationAssumption ==
  /\ VMs # {} /\ Owner \in [Taps -> VMs]
  /\ Pinned \in BOOLEAN /\ Avails \subseteq BOOLEAN /\ Serial \in BOOLEAN
  /\ MaxCalls \in Nat /\ MaxFaults \in Nat

VARIABLES
  up,       \* "down", "starting" (before the API listens), "up", or "stopping" (ShutdownTaps is done)
  avail,    \* this run of the daemon can isolate: it has an allow list and a tap program
  running,  \* the VMs that run on the host
  scan,     \* the VMs of the last scan
  refresh,  \* where Refresh is, and the taps ReapplyIsolations has yet to look at
  link,     \* per tap, the manager's link: "none", "live", or "stale" (its interface is gone)
  flag,     \* per tap, the kernel drops its traffic: tap_policy.isolated of the interface that exists
  last,     \* per VM, the latest record in memory (State.isolations)
  file,     \* per VM, the latest record in isolations.jsonl
  lost,     \* an append to isolations.jsonl failed, or was cut off by a crash
  call,     \* per caller, the act call it is in
  calls,    \* requests made so far
  faults    \* faults so far

isoVars == <<up, avail, running, scan, refresh, link, flag, last, file, lost, call, calls, faults>>
lifeVars == <<up, avail, running>>
tapVars == <<scan, refresh, link>>
logVars == <<last, file, lost>>

-----------------------------------------------------------------------------
(* Values *)

Acts == {"isolate", "release"}
Results == {"applied", "partial", "failed", "refused"}
Records == [act : Acts \cup {"none"}, result : Results]
NoRecord == [act |-> "none", result |-> "refused"]

Calls == [pc : {"idle", "taps", "save", "ret"}, act : Acts, vm : VMs, todo : SUBSET Taps,
          done : SUBSET Taps, result : Results]
IdleCall == [pc |-> "idle", act |-> "release", vm |-> CHOOSE v \in VMs : TRUE, todo |-> {}, done |-> {},
             result |-> "refused"]

IdleRefresh == [pc |-> "idle", todo |-> {}]

TapsOf(v) == {t \in Taps : Owner[t] = v}

\* An isolation that took effect, wholly or in part.
Effective(r) == r.act = "isolate" /\ r.result \in {"applied", "partial"}

\* ActiveIsolations: the latest record of the VM is an isolation that took effect.
Active(v) == Effective(last[v])

Fault == faults < MaxFaults /\ faults' = faults + 1
Request == calls < MaxCalls /\ calls' = calls + 1

AllIdle == \A p \in Callers : call[p].pc = "idle"

-----------------------------------------------------------------------------
(* State.act, called by p *)

\* Reads the enforcer and the VM. A request that cannot be carried out goes on to the record.
Begin(p, a, v) ==
  /\ up # "down" /\ call[p].pc = "idle"
  /\ Serial => up # "stopping" /\ AllIdle /\ refresh.pc # "reapply"
  /\ call' = [call EXCEPT ![p] = [pc |-> "taps", act |-> a, vm |-> v,
                                  todo |-> IF avail /\ v \in scan THEN TapsOf(v) ELSE {},
                                  done |-> {}, result |-> IF avail /\ v \in scan /\ TapsOf(v) # {}
                                                          THEN "failed" ELSE "refused"]]
  /\ UNCHANGED <<lifeVars, tapVars, flag, logVars, faults>>

\* SetTapIsolated on one tap. One that does not carry the program does not take it; a stale link
\* takes it under an index no interface has.
TakeTap(p, t) ==
  /\ up # "down" /\ call[p].pc = "taps" /\ t \in call[p].todo
  /\ \/ /\ link[t] # "none"
        /\ flag' = IF link[t] = "live" THEN [flag EXCEPT ![t] = call[p].act = "isolate"] ELSE flag
        /\ call' = [call EXCEPT ![p].todo = @ \ {t}, ![p].done = @ \cup {t}]
        /\ UNCHANGED faults
     \/ /\ IF link[t] = "none" THEN UNCHANGED faults ELSE Fault
        /\ call' = [call EXCEPT ![p].todo = @ \ {t}]
        /\ UNCHANGED flag
  /\ UNCHANGED <<lifeVars, tapVars, logVars, calls>>

\* Wrong variant of ResultOf: some taps are enough.
ResultOfAny(c) ==
  IF c.result = "refused" THEN "refused" ELSE IF c.done = {} THEN "failed" ELSE "applied"

\* Wrong variant of ResultOf: a call that no tap took has no result.
ResultOfNone(c) ==
  IF c.result = "refused" THEN "refused" ELSE
  IF c.done = TapsOf(c.vm) THEN "applied" ELSE IF c.done # {} THEN "partial" ELSE ""

\* What came of a call, once every tap was tried.
ResultOf(c) ==
  CASE c.result = "refused"     -> "refused"
    [] c.result # "refused" /\ c.done = TapsOf(c.vm) -> "applied"
    [] c.result # "refused" /\ c.done = {}           -> "failed"
    [] OTHER                    -> "partial"

\* The record is appended in memory, under the state's lock, ...
Record(p) ==
  /\ up # "down" /\ call[p].pc = "taps" /\ call[p].todo = {}
  /\ LET r == ResultOf(call[p]) IN
       /\ last' = [last EXCEPT ![call[p].vm] = [act |-> call[p].act, result |-> r]]
       /\ call' = [call EXCEPT ![p].pc = "save", ![p].result = r]
  /\ UNCHANGED <<lifeVars, tapVars, flag, file, lost, calls, faults>>

\* Wrong variant of AppendRecord: only what took effect is written.
AppendRecordIfApplied(v, r) == file' = IF r.result = "applied" THEN [file EXCEPT ![v] = r] ELSE file

AppendRecord(v, r) == file' = [file EXCEPT ![v] = r]

\* ... and then to the file, after the lock is gone. An append that fails is only logged.
SaveRecord(p) ==
  /\ up # "down" /\ call[p].pc = "save"
  /\ \/ /\ AppendRecord(call[p].vm, [act |-> call[p].act, result |-> call[p].result])
        /\ UNCHANGED <<lost, faults>>
     \/ Fault /\ lost' = TRUE /\ UNCHANGED file
  /\ call' = [call EXCEPT ![p].pc = "ret"]
  /\ UNCHANGED <<lifeVars, tapVars, flag, last, calls>>

\* The steps of a call after its first.
CallStep(p) == (\E t \in Taps : TakeTap(p, t)) \/ Record(p) \/ SaveRecord(p)

\* A person asks, once the API listens, and has the answer.
Ask(p) == up = "up" /\ Request /\ \E a \in Acts, v \in VMs : Begin(p, a, v)

Answer(p) ==
  /\ call[p].pc = "ret"
  /\ call' = [call EXCEPT ![p] = IdleCall]
  /\ UNCHANGED <<lifeVars, tapVars, flag, logVars, calls, faults>>

-----------------------------------------------------------------------------
(* Agent.Refresh, as far as isolation goes *)

\* The taps of a scanned VM that exist and have no live link.
Unlinked(t) == Owner[t] \in scan \cap running /\ link[t] # "live"

\* SetVMs. A scan may miss a VM that runs. A Refresh with nothing to sync and no isolation is no step.
ScanVMs ==
  /\ up \in {"starting", "up"} /\ refresh.pc = "idle"
  /\ up = "starting" \/ scan # running \/ (\E t \in Taps : Unlinked(t)) \/ \E v \in running : Active(v)
  /\ \/ scan' = running /\ UNCHANGED faults
     \/ \E v \in running : scan' = running \ {v} /\ Fault
  /\ refresh' = [refresh EXCEPT !.pc = "scanned"]
  /\ UNCHANGED <<lifeVars, link, flag, logVars, call, calls>>

\* SyncTaps: a tap no VM wants is detached and its flag cleared, a tap without a live link is adopted
\* with the flag its pins hold or attached anew with none. `unmade` did not attach.
SyncTaps ==
  /\ up # "down" /\ refresh.pc = "scanned"
  /\ \E unmade \in SUBSET {t \in Taps : Unlinked(t)} :
       /\ IF unmade = {} THEN UNCHANGED faults ELSE Fault
       /\ LET linked == {t \in Taps : Owner[t] \in scan \cap running} \ unmade IN
            /\ link' = [t \in Taps |-> IF t \in linked THEN "live" ELSE "none"]
            /\ flag' = [t \in Taps |-> t \in linked /\ flag[t]]
  /\ refresh' = [refresh EXCEPT !.pc = "synced"]
  /\ UNCHANGED <<lifeVars, scan, logVars, call, calls>>

\* Wrong variant of Reapplied: only a VM that has no tap with the flag is looked at.
ReappliedIfOpen == {t \in Taps : Owner[t] \in scan /\ Active(Owner[t])
                                 /\ \A s \in TapsOf(Owner[t]) : ~flag[s]}

\* The taps ReapplyIsolations looks at.
Reapplied == {t \in Taps : Owner[t] \in scan /\ Active(Owner[t])}

\* ReapplyIsolations reads which isolations are active, ...
ReapplyStart ==
  /\ up # "down" /\ refresh.pc = "synced"
  /\ Serial => up # "stopping" /\ AllIdle
  /\ refresh' = [pc |-> "reapply", todo |-> IF avail THEN Reapplied ELSE {}]
  /\ UNCHANGED <<lifeVars, scan, link, flag, logVars, call, calls, faults>>

\* ... and flags their taps, with no lock held and nothing recorded.
ReapplyTap(t) ==
  /\ up # "down" /\ refresh.pc = "reapply" /\ t \in refresh.todo
  /\ \/ /\ flag' = IF link[t] = "live" THEN [flag EXCEPT ![t] = TRUE] ELSE flag
        /\ UNCHANGED faults
     \/ link[t] = "live" /\ ~flag[t] /\ Fault /\ UNCHANGED flag
  /\ refresh' = [refresh EXCEPT !.todo = @ \ {t}]
  /\ UNCHANGED <<lifeVars, scan, link, logVars, call, calls>>

\* Refresh is done. The API listens once the first one is.
ReapplyDone ==
  /\ refresh.pc = "reapply" /\ refresh.todo = {}
  /\ refresh' = IdleRefresh
  /\ up' = IF up = "starting" THEN "up" ELSE up
  /\ UNCHANGED <<avail, running, scan, link, flag, logVars, call, calls, faults>>

\* The scan fails and Refresh returns before it does anything. The daemon goes on without it.
ScanFails ==
  /\ up = "starting" /\ refresh.pc = "idle"
  /\ Fault
  /\ up' = "up"
  /\ UNCHANGED <<avail, running, tapVars, flag, logVars, call, calls>>

Refresh == ScanVMs \/ SyncTaps \/ ReapplyStart \/ (\E t \in Taps : ReapplyTap(t)) \/ ReapplyDone

-----------------------------------------------------------------------------
(* The host and the daemon's life *)

\* A VM stops and its interfaces go, and their flags with them.
VMStops(v) ==
  /\ v \in running
  /\ Fault
  /\ running' = running \ {v}
  /\ link' = [t \in Taps |-> IF Owner[t] = v /\ link[t] = "live" THEN "stale" ELSE link[t]]
  /\ flag' = [t \in Taps |-> Owner[t] # v /\ flag[t]]
  /\ UNCHANGED <<up, avail, scan, refresh, logVars, call, calls>>

VMStarts(v) ==
  /\ v \in VMs \ running
  /\ running' = running \cup {v}
  /\ UNCHANGED <<up, avail, scan, refresh, link, flag, logVars, call, calls, faults>>

\* What is in the process is gone. A call that was not saved never will be.
Forget ==
  /\ scan' = {} /\ refresh' = IdleRefresh
  /\ link' = [t \in Taps |-> "none"]
  /\ last' = [v \in VMs |-> NoRecord]
  /\ lost' = (lost \/ ~AllIdle)
  /\ call' = [p \in Callers |-> IdleCall]

\* A crash leaves what is pinned as it was. Without pins the links end with the process.
Crash ==
  /\ up \in {"starting", "up"}
  /\ Fault
  /\ up' = "down"
  /\ flag' = [t \in Taps |-> Pinned /\ flag[t]]
  /\ Forget
  /\ UNCHANGED <<avail, running, file, calls>>

\* Wrong variant of KeptAtStop: a graceful stop detaches every tap.
KeptAtStopNone(t) == FALSE

\* The taps a graceful stop leaves enforcing.
KeptAtStop(t) == Pinned /\ flag[t]

\* ListenAndServe returns as soon as the server is told to stop, so requests may still be under way.
ShutdownTaps ==
  /\ up = "up"
  /\ Serial => AllIdle /\ refresh.pc = "idle"
  /\ Fault
  /\ up' = "stopping"
  /\ flag' = [t \in Taps |-> IF link[t] = "live" THEN KeptAtStop(t) ELSE flag[t]]
  /\ link' = [t \in Taps |-> "none"]
  /\ UNCHANGED <<avail, running, scan, refresh, logVars, call, calls>>

Exit ==
  /\ up = "stopping"
  /\ up' = "down"
  /\ flag' = [t \in Taps |-> Pinned /\ flag[t]]
  /\ Forget
  /\ UNCHANGED <<avail, running, file, calls, faults>>

\* persist.Attach: the records are read back. The kernel is looked at by the first Refresh.
Start ==
  /\ up = "down"
  /\ up' = "starting"
  /\ avail' \in Avails
  /\ last' = file
  /\ UNCHANGED <<running, tapVars, flag, file, lost, call, calls, faults>>

\* shukrad -detach-all -data-dir: everything pinned is removed, and then a release is recorded for
\* every VM whose latest record is an isolation that took effect. Recording may fail.
DetachAll ==
  /\ up = "down"
  /\ Request
  /\ flag' = [t \in Taps |-> FALSE]
  /\ \/ /\ file' = [v \in VMs |-> IF Effective(file[v]) THEN [act |-> "release", result |-> "applied"]
                                                        ELSE file[v]]
        /\ UNCHANGED faults
     \/ Fault /\ UNCHANGED file
  /\ UNCHANGED <<lifeVars, tapVars, last, lost, call>>

Life == Crash \/ ShutdownTaps \/ Exit \/ Start \/ DetachAll
Host == \E v \in VMs : VMStops(v) \/ VMStarts(v)

-----------------------------------------------------------------------------
IsoInit ==
  /\ up = "down" /\ avail = FALSE /\ running = VMs /\ scan = {} /\ refresh = IdleRefresh
  /\ link = [t \in Taps |-> "none"] /\ flag = [t \in Taps |-> FALSE]
  /\ last = [v \in VMs |-> NoRecord] /\ file = [v \in VMs |-> NoRecord] /\ lost = FALSE
  /\ call = [p \in Callers |-> IdleCall]
  /\ calls = 0 /\ faults = 0

IsoNext ==
  \/ \E p \in Callers : Ask(p) \/ CallStep(p) \/ Answer(p)
  \/ Refresh \/ ScanFails \/ Host \/ Life

\* A request that was begun goes on, Refresh runs every two seconds, a process that was told to stop
\* ends, and the service manager starts the daemon again.
IsoFairness ==
  /\ \A p \in Callers : WF_isoVars(CallStep(p) \/ Answer(p))
  /\ WF_isoVars(Refresh)
  /\ WF_isoVars(Exit) /\ WF_isoVars(Start)

IsoSpec == IsoInit /\ [][IsoNext]_isoVars
IsoFairSpec == IsoSpec /\ IsoFairness

-----------------------------------------------------------------------------
(* Properties *)

\* Every variable has its shape.
IsoTypeOK ==
  /\ up \in {"down", "starting", "up", "stopping"} /\ avail \in BOOLEAN
  /\ running \subseteq VMs /\ scan \subseteq VMs
  /\ refresh \in [pc : {"idle", "scanned", "synced", "reapply"}, todo : SUBSET Taps]
  /\ link \in [Taps -> {"none", "live", "stale"}] /\ flag \in [Taps -> BOOLEAN]
  /\ last \in [VMs -> Records] /\ file \in [VMs -> Records] /\ lost \in BOOLEAN
  /\ call \in [Callers -> Calls]
  /\ calls \in 0..MaxCalls /\ faults \in 0..MaxFaults

\* "A stop does not reopen a VM": on a host with pins, a tap that is isolated is opened only by a
\* release at work on it, by -detach-all, with its VM, or because the scan does not know the VM; never
\* by a crash, a stop, a start or a Refresh that knows it.
NeverReopened ==
  [][\A t \in Taps : Pinned /\ flag[t] /\ ~flag'[t] =>
       \/ \E p \in Callers : call[p].act = "release" /\ call[p].vm = Owner[t] /\ t \in call[p].todo
       \/ up = "down"
       \/ Owner[t] \notin running' \cap scan
       \/ refresh.pc = "scanned" /\ link[t] # "live"]_isoVars

\* Once an answer is out, what a restart would read is what the daemon holds, unless an append failed
\* or was cut off.
FileAgrees == up = "up" /\ AllIdle /\ ~lost => file = last

\* Once nothing disturbs it any more, every tap of a running VM whose isolation is active has the
\* flag: a restart, a VM that came back with a new tap, a tap that did not take it the first time.
ActiveConverges ==
  <>[](up = "up" /\ (avail => \A t \in Taps : Owner[t] \in running /\ Active(Owner[t]) => flag[t]))

\* "A release is recorded too, so a released VM is not re-isolated": once nothing disturbs it any
\* more, no tap of a VM whose latest record is a release that was applied has the flag, unless a
\* record was lost.
ReleasedConverges ==
  <>[](~lost => \A t \in Taps : last[Owner[t]] = [act |-> "release", result |-> "applied"] => ~flag[t])

=============================================================================
