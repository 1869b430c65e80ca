----------------------------- MODULE Contention -----------------------------
(***************************************************************************)
(* Who took whose CPU: the preemption counts of the sched program          *)
(* (bpf/sched.bpf.c), the names they are given when they are read          *)
(* (internal/observe/preempt.go, sample_bpf.go), their difference over a   *)
(* window (internal/aggregate) and what is said of it: trace contention    *)
(* (internal/state/contention.go) and the findings cpu_preempted and       *)
(* noisy_neighbour (internal/state/verdict.go).                            *)
(*                                                                         *)
(* The kernel counts by thread id and for good.  A name is put on the      *)
(* whole count each time it is read, from the scan of that moment; VMs     *)
(* start, and scans miss one, between the two ends of a window.            *)
(***************************************************************************)
EXTENDS Integers, FiniteSets, Sums

CONSTANTS
  Names,       \* VMs
  Threads,     \* threads that run on the host
  VMOf,        \* the VM of a thread, "host" for a host task
  VCPUs,       \* the threads that are vCPUs
  Floor,       \* preemptFloorNs
  Medium,      \* preemptMedium, in percent
  MaxSlices,   \* bound: slices of time that are run or lost
  MaxMishaps   \* bound: VMs that start, scans that miss one, evictions

ASSUME ContentionAssumption ==
  /\ IsFiniteSet(Threads)
  /\ VMOf \in [Threads -> Names \cup {"host"}] /\ "host" \notin Names
  /\ VCPUs \subseteq {t \in Threads : VMOf[t] # "host"}
  /\ Floor \in Nat \ {0} /\ Medium \in 0..100
  /\ MaxSlices \in Nat /\ MaxMishaps \in Nat

VARIABLES
  slices, mishaps,
  up,          \* the VMs that run
  refs,        \* State.vms and observe.threads: the VMs of the last scan
  onCPU,       \* sched_stats: time on a CPU, of each vCPU
  preempt,     \* sched_stats: time runnable and off the CPU, of each vCPU
  preemptBy,   \* preempt_by: the same by the thread that took it
  taken,       \* history: preemptBy without the evictions
  reading,     \* State.byPID, the scan it was named by, and (history) `taken' when it was read
  earlier,     \* the snapshot at the other end of the window
  forgotten    \* history: an entry of preempt_by was evicted since `earlier'

counters == <<onCPU, preempt, preemptBy, taken>>
contVars == <<slices, mishaps, up, refs, counters, reading, earlier, forgotten>>

Slice == slices < MaxSlices /\ slices' = slices + 1 /\ UNCHANGED mishaps
Mishap == mishaps < MaxMishaps /\ mishaps' = mishaps + 1 /\ UNCHANGED slices

ThreadsOf(n) == {t \in Threads : VMOf[t] = n}
VCPUsOf(n) == ThreadsOf(n) \cap VCPUs
Nobody == [v \in VCPUs |-> [b \in Threads |-> 0]]
NoReading == [at |-> FALSE, refs |-> {}, preempt |-> [v \in VCPUs |-> 0],
             by |-> [v \in VCPUs |-> [w \in {} |-> 0]], onCPU |-> [v \in VCPUs |-> 0], taken |-> Nobody]

ContInit ==
  /\ slices = 0 /\ mishaps = 0
  /\ up \in SUBSET Names \ {{}} /\ refs = {}
  /\ onCPU = [v \in VCPUs |-> 0] /\ preempt = [v \in VCPUs |-> 0] /\ preemptBy = Nobody /\ taken = Nobody
  /\ reading = NoReading /\ earlier = NoReading /\ forgotten = FALSE

-----------------------------------------------------------------------------
(* The host, and the sched program.                                        *)

RunsNow(t) == VMOf[t] \in up \cup {"host"}

OnCPU(v) ==
  /\ RunsNow(v) /\ Slice
  /\ onCPU' = [onCPU EXCEPT ![v] = @ + 1]
  /\ UNCHANGED <<up, refs, preempt, preemptBy, taken, reading, earlier, forgotten>>

LostOverwrites(v) == [preempt EXCEPT ![v] = 1]
Lost(v) == [preempt EXCEPT ![v] = @ + 1]
\* A vCPU of a watched process is switched out while it is runnable, and comes back a slice later.
Preempted(v, b) ==
  /\ RunsNow(v) /\ RunsNow(b) /\ v # b /\ Slice
  /\ VMOf[v] \in refs                          \* SetWatched
  /\ preempt' = Lost(v)
  /\ preemptBy' = [preemptBy EXCEPT ![v][b] = @ + 1]
  /\ taken' = [taken EXCEPT ![v][b] = @ + 1]
  /\ UNCHANGED <<up, refs, onCPU, reading, earlier, forgotten>>

\* preempt_by is a small LRU.
PreemptorEvicted(v, b) ==
  /\ preemptBy[v][b] > 0 /\ Mishap
  /\ preemptBy' = [preemptBy EXCEPT ![v][b] = 0]
  /\ forgotten' = TRUE
  /\ UNCHANGED <<up, refs, onCPU, preempt, taken, reading, earlier>>

VMStarts(n) ==
  /\ n \notin up /\ Mishap
  /\ up' = up \cup {n}
  /\ UNCHANGED <<refs, counters, reading, earlier, forgotten>>

-----------------------------------------------------------------------------
(* Refresh: the scan gives SetVMs, SetWatched and SetThreads, then Sample and SetCounters. *)

ScanHost ==
  /\ refs # up /\ refs' = up
  /\ UNCHANGED <<slices, mishaps, up, counters, reading, earlier, forgotten>>

ScanMissesVM(n) ==
  /\ n \in up /\ Mishap
  /\ refs' = up \ {n}
  /\ UNCHANGED <<up, counters, reading, earlier, forgotten>>

\* preemptorLabel: the VM of the thread if the scan has it, else its command.
preemptorLabel(b) == IF VMOf[b] \in refs THEN <<"vm", VMOf[b]>> ELSE <<"task", b>>
\* readPreemptors of one vCPU: its takers' time by name.
readPreemptors(v) ==
  LET labels == {preemptorLabel(b) : b \in {c \in Threads : preemptBy[v][c] > 0}}
  IN  [w \in labels |-> Total([b \in {c \in Threads : preemptorLabel(c) = w} |-> preemptBy[v][b]])]
\* Only a vCPU the scan has counts as preempted.
InScan(v) == VMOf[v] \in refs

Sampled ==
  [at |-> TRUE, refs |-> refs,
   preempt |-> [v \in VCPUs |-> IF InScan(v) THEN preempt[v] ELSE 0],
   by |-> [v \in VCPUs |-> IF InScan(v) THEN readPreemptors(v) ELSE [w \in {} |-> 0]],
   onCPU |-> onCPU, taken |-> taken]

\* SetCounters; with `keep' this is the sample that a later window starts from.
SampleHost(keep) ==
  /\ reading' = Sampled
  /\ earlier' = IF keep THEN Sampled ELSE earlier
  /\ forgotten' = (forgotten /\ ~keep)
  /\ UNCHANGED <<slices, mishaps, up, refs, counters>>

ContNext ==
  \/ \E v \in VCPUs : OnCPU(v) \/ \E b \in Threads : Preempted(v, b) \/ PreemptorEvicted(v, b)
  \/ \E n \in Names : VMStarts(n) \/ ScanMissesVM(n)
  \/ ScanHost \/ \E keep \in BOOLEAN : SampleHost(keep)

ContSpec == ContInit /\ [][ContNext]_contVars

-----------------------------------------------------------------------------
(* The window of one VM: Delta per thread, added up over its threads.      *)

subCounter(cur, old) == IF cur < old THEN cur ELSE cur - old
NsOf(f, w) == IF w \in DOMAIN f THEN f[w] ELSE 0
InBase(n) == earlier.at /\ n \in earlier.refs

PreemptedNs(n) == Total([v \in VCPUsOf(n) |-> subCounter(reading.preempt[v], IF InBase(n) THEN earlier.preempt[v] ELSE 0)])
OnCPUNs(n) == Total([v \in VCPUsOf(n) |-> subCounter(reading.onCPU[v], IF InBase(n) THEN earlier.onCPU[v] ELSE 0)])
subLabelsLifetime(v, w) == NsOf(reading.by[v], w)
subLabels(v, w) == subCounter(NsOf(reading.by[v], w), IF InBase(VMOf[v]) THEN NsOf(earlier.by[v], w) ELSE 0)
Labels(n) == UNION {DOMAIN reading.by[v] : v \in VCPUsOf(n)}
AllPreemptors(n) == [w \in Labels(n) |-> Total([v \in {u \in VCPUsOf(n) : w \in DOMAIN reading.by[u]} |-> subLabels(v, w)])]

\* Contention: one pair per victim and other VM, and the victim's time in three parts.
Pair(n, c) == NsOf(AllPreemptors(n), <<"vm", c>>)
ByOtherVMs(n) == Total([w \in {x \in Labels(n) : x[1] = "vm" /\ x[2] # n} |-> AllPreemptors(n)[w]])
BySelf(n) == Pair(n, n)
ByHost(n) == Total([w \in {x \in Labels(n) : x[1] = "task"} |-> AllPreemptors(n)[w]])

\* diagnose: enough of the time the vCPUs wanted to run, and a taker that had half of it.  Of two that took
\* the same the code looks at the one whose name sorts first; here each of them may be the one.
CPUPreempted(n) ==
  /\ PreemptedNs(n) >= Floor
  /\ 100 * PreemptedNs(n) >= Medium * (OnCPUNs(n) + PreemptedNs(n))
IsTop(n, w) == \A x \in Labels(n) : AllPreemptors(n)[x] <= AllPreemptors(n)[w]
MostOfItAny(n, w) == TRUE
MostOfIt(n, w) == 2 * AllPreemptors(n)[w] >= PreemptedNs(n)
NoisyNeighbours(n) ==
  {c \in Names \ {n} : LET w == <<"vm", c>>
                       IN CPUPreempted(n) /\ w \in Labels(n) /\ Pair(n, c) > 0 /\ IsTop(n, w) /\ MostOfIt(n, w)}

-----------------------------------------------------------------------------
(* Properties.                                                             *)

\* The variables keep their types, and what is charged to takers is never more than what was taken in all
\* (docs/signals.md:163: "Totals are exact, the split is bounded").
ContTypeOK ==
  /\ slices \in 0..MaxSlices /\ mishaps \in 0..MaxMishaps
  /\ up \subseteq Names /\ refs \subseteq Names /\ forgotten \in BOOLEAN
  /\ \A v \in VCPUs : onCPU[v] \in 0..MaxSlices /\ preempt[v] \in 0..MaxSlices
  /\ \A v \in VCPUs : Total(preemptBy[v]) <= preempt[v]

\* The two ends of the window named the same VMs, and no entry was lost between them.
Settled == reading.at /\ earlier.at /\ reading.refs = earlier.refs /\ ~forgotten
ReallyTaken(n, S) == Total([v \in VCPUsOf(n) |-> Total([b \in S |-> reading.taken[v][b] - earlier.taken[v][b]])])
Reported == reading.refs \cap refs

\* What trace contention says (contention.go:98-122): while the scans name the same VMs, what each VM, the
\* VM itself and the host are said to have taken from a VM in the window is what their threads took, and the
\* three parts add up to all that its vCPUs lost.
TakenIsTrue ==
  Settled => \A n \in Reported :
    /\ \A c \in Reported : Pair(n, c) = ReallyTaken(n, ThreadsOf(c))
    /\ ByOtherVMs(n) + BySelf(n) + ByHost(n) = PreemptedNs(n)
    /\ PreemptedNs(n) = ReallyTaken(n, Threads)

\* verdict.go:142-152: a VM that is named as the noisy neighbour had at least half of the time that the
\* explained VM's vCPUs were kept off a CPU in the window.
NoisyIsTrue ==
  Settled => \A n \in Reported : \A c \in NoisyNeighbours(n) \cap Reported :
    2 * ReallyTaken(n, ThreadsOf(c)) >= ReallyTaken(n, Threads)

\* docs/api.md:298 and contention.go:22: the share of a pair is between 0 and 1, also when a VM has just
\* started or a scan has missed one.
ShareWithinOne == earlier.at => \A n \in refs \cap earlier.refs : \A c \in Names \ {n} : Pair(n, c) <= PreemptedNs(n)

\* Whoever is said to have taken a VM's CPU took it, as much as is said.
ContentionIsTrue == ContTypeOK /\ TakenIsTrue /\ NoisyIsTrue

=============================================================================
