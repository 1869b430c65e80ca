------------------------------ MODULE Verdicts ------------------------------
(***************************************************************************)
(* What is said of one VM: why it is slow (internal/state/verdict.go), and *)
(* whether it has the right size (internal/state/advice.go), from log2     *)
(* histograms (internal/hist) and from counters over a window that starts  *)
(* anew (internal/state/state.go, ExplainOver).                            *)
(*                                                                         *)
(* The state is what happens to the VM in the window, exactly; the verdict *)
(* and the advice are functions of what the counters keep of it.  Latency  *)
(* is in quarters of a millisecond, and time in ticks.                     *)
(***************************************************************************)
EXTENDS Integers, Sequences, FiniteSets, FiniteSetsExt, Sums

CONSTANTS
  Subjects,   \* what is explored: "latency", "counts", "size"
  VThreads,   \* the VM's vCPU threads; one more, "io", is not a vCPU
  Latencies,  \* latencies that occur
  Batch,      \* how many of a latency occur at once
  MaxBatches, \* bound, for each subject: batches, counts and windows
  Sizes,      \* how many vCPUs the VM has, where its size is the question
  PreemptFloor, \* preemptFloorNs, in ticks
  LeastSpan, ShortSpan,  \* adviceMinSpan, and three minutes, in ticks
  Ticks,      \* what the vCPUs may do in a tick
  MaxSpan     \* bound: ticks in a window

ASSUME VerdictsAssumption ==
  /\ Subjects \subseteq {"latency", "counts", "size"}
  /\ IsFiniteSet(VThreads) /\ VThreads # {} /\ VThreads \cap {"io", "vm", "read", "write", "exit"} = {}
  /\ Latencies \subseteq 0..511 /\ Latencies # {} /\ Batch \subseteq Nat \ {0} /\ Sizes \subseteq Nat \ {0}
  /\ \A s \in Subjects : MaxBatches[s] \in Nat
  /\ Ticks \subseteq [on : Nat, byVM : Nat, byHost : Nat, halt : Nat]
  /\ {PreemptFloor, ShortSpan, MaxSpan} \subseteq Nat /\ LeastSpan \in Nat \ {0}

VARIABLES
  subject, batches,
  seen,       \* the programs that have ever measured the VM
  lat,        \* history: how many of at most a latency occurred, of each thread's wakeups, reads, writes and exits,
              \*   and of the wakeups of all the VM's threads
  hist,       \* what the programs keep of that: counts by log2 bucket
  count,      \* retransmits, drops and connections
  size,       \* the VM's vCPUs, and whether this CPU names its exit reasons
  span,       \* ticks of the window
  use,        \* vCPU ticks of the window: on a CPU, taken by another VM, by the host, and halts that ended
  asleep      \* vCPU ticks of halts that have not ended: they are counted when they end
verdVars == <<subject, batches, seen, lat, hist, count, size, span, use, asleep>>

VMTids == VThreads \cup {"io"}
Sources == VMTids \cup {"read", "write", "exit"}
Observed == Sources \cup {"vm"}
ProgramOf(s) == IF s \in {"read", "write"} THEN "block" ELSE IF s = "exit" THEN "kvm" ELSE "sched"
Counts == {"retrans", "other", "full", "ok", "refused", "timeout"}
None3 == [on |-> 0, byVM |-> 0, byHost |-> 0, halt |-> 0]

Buckets == 0..8
BucketOf == [ns \in Latencies |-> IF ns = 0 THEN 0 ELSE CHOOSE b \in Buckets : 2^b <= ns /\ ns < 2^(b + 1)]
Bucket(ns) == BucketOf[ns]
NoneYet == [o \in Observed |-> [x \in Latencies |-> 0]]
NoneKept == [s \in Sources |-> [b \in Buckets |-> 0]]

VerdInit ==
  /\ subject \in Subjects /\ batches = 0
  /\ seen \in {{}, {"sched"}, {"sched", "kvm"}}
  /\ lat = NoneYet /\ hist = NoneKept
  /\ count = [c \in Counts |-> 0]
  /\ size \in [vcpus : Sizes, named : BOOLEAN]
  /\ IF subject = "size" THEN seen = {} ELSE size = [vcpus |-> Min(Sizes), named |-> TRUE]
  /\ span = 0 /\ use = None3 /\ asleep = 0

-----------------------------------------------------------------------------
(* What happens to the VM.                                                 *)

Batches == batches < MaxBatches[subject] /\ batches' = batches + 1

Occurs(s, x, n) ==
  /\ subject = "latency" \/ (subject = "size" /\ s \in VThreads)
  /\ Batches
  /\ lat' = [o \in Observed |-> IF o = s \/ (o = "vm" /\ s \in VMTids)
                                THEN [y \in Latencies |-> IF x <= y THEN lat[o][y] + n ELSE lat[o][y]]
                                ELSE lat[o]]
  /\ hist' = [hist EXCEPT ![s][Bucket(x)] = @ + n]
  /\ seen' = seen \cup {ProgramOf(s)}
  /\ UNCHANGED <<subject, count, size, span, use, asleep>>

Happened(c, n) ==
  /\ subject = "counts" /\ Batches
  /\ count' = [count EXCEPT ![c] = @ + n]
  /\ UNCHANGED <<subject, seen, lat, hist, size, span, use, asleep>>

\* A tick: each vCPU ran, waited for what was running in its place, or was halted, or none of them (it idles
\* without a halt).  Its scheduling is measured.
VTick(t) ==
  /\ subject = "size" /\ span < MaxSpan /\ t.on + t.byVM + t.byHost + t.halt <= size.vcpus
  /\ span' = span + 1
  /\ use' = [use EXCEPT !.on = @ + t.on, !.byVM = @ + t.byVM, !.byHost = @ + t.byHost]
  /\ asleep' = asleep + t.halt
  /\ seen' = seen \cup {"sched", "kvm"}
  /\ UNCHANGED <<subject, batches, lat, hist, count, size>>

\* A halt ends: all of its time counts in the window of that moment (kvm_exit and kvm_entry of the HLT).
HaltsEnd ==
  /\ asleep > 0
  /\ use' = [use EXCEPT !.halt = @ + asleep] /\ asleep' = 0
  /\ UNCHANGED <<subject, batches, seen, lat, hist, count, size, span>>

\* The window moves on: what is in it starts from nothing, and what was ever measured stays.
WindowMoves ==
  /\ Batches
  /\ lat' = NoneYet /\ hist' = NoneKept
  /\ count' = [c \in Counts |-> 0]
  /\ span' = 0 /\ use' = None3
  /\ UNCHANGED <<subject, seen, size, asleep>>

VerdNext ==
  \/ \E s \in Sources, x \in Latencies, n \in Batch : Occurs(s, x, n)
  \/ \E c \in Counts : Happened(c, 5)
  \/ \E t \in Ticks : VTick(t)
  \/ HaltsEnd \/ WindowMoves

VerdSpec == VerdInit /\ [][VerdNext]_verdVars

-----------------------------------------------------------------------------
(* hist.                                                                   *)

CeilDiv(n, d) == (n + d - 1) \div d
edgeOfNext(bucket) == 2^(bucket + 2)
edge(bucket) == 2^(bucket + 1)

\* The counts of the buckets so far, summed from the lowest on.
Cum(counts) == LET cum[b \in Buckets] == counts[b] + IF b = 0 THEN 0 ELSE cum[b - 1] IN cum

Percentile(counts, p) ==
  LET cum == Cum(counts)
      total == cum[Max(Buckets)]
      target == IF p = 0 THEN 1 ELSE CeilDiv(total * p, 100)
  IN  IF total = 0 THEN 0 ELSE edge(Min({b \in Buckets : cum[b] >= target}))
\* addHist, over the VM's threads: their histograms together.
VMThreads == [b \in Buckets |-> Total([t \in VMTids |-> hist[t][b]])]
P99(s) == Percentile(hist[s], 99)
WorstOf(S) == Max({P99(s) : s \in S})

-----------------------------------------------------------------------------
(* diagnose.                                                               *)

CpuMedium == 8
SlowWakeup == 80
SlowBlock == 40
StorageHigh == 200
ExitMedium == 4
ExitHigh == 40
RetransFloor == 10
DropFloor == 5
ConnectFloor == 10

\* carryMeasured: whether a program measures is a fact of the VM's whole life.
MeasuredInWindow == {ProgramOf(s) : s \in {t \in Sources : lat[t][Max(Latencies)] > 0}}
                      \cup (IF span > 0 THEN {"sched"} ELSE {})
Measured == seen

AsHigh(at, high) == IF at >= high THEN "high" ELSE "medium"
Maybe(holds, cause, conf) == IF holds THEN <<[cause |-> cause, conf |-> conf]>> ELSE <<>>

\* The worst vCPU thread, or without one the VM's threads together, of which no more than medium is claimed.
CPUContention ==
  LET own == WorstOf(VThreads)
      worst == IF own > 0 THEN own ELSE Percentile(VMThreads, 99)
  IN  Maybe(worst >= CpuMedium, "host_cpu_contention", IF own > 0 THEN AsHigh(own, SlowWakeup) ELSE "medium")

Taken == use.byVM + use.byHost
Wanted == use.on + Taken
IsPreempted == "sched" \in Measured /\ Taken >= PreemptFloor /\ Taken > 0 /\ 100 * Taken >= 5 * Wanted
HowPreempted == AsHigh(100 * Taken, 20 * Wanted)
\* The one that took most is named when it is another VM that took at least half.
Preemption ==
  Maybe(IsPreempted, "cpu_preempted", HowPreempted)
    \o Maybe(IsPreempted /\ use.byVM > use.byHost /\ 2 * use.byVM >= Taken, "noisy_neighbour", HowPreempted)

\* The slower of reads and writes.
SlowerReadsOnly == P99("read")
Slower == WorstOf({"read", "write"})
Storage == LET p99 == Slower IN Maybe("block" \in Measured /\ p99 >= SlowBlock, "storage_latency", AsHigh(p99, StorageHigh))
ExitHandling ==
  LET p99 == P99("exit") IN Maybe("kvm" \in Measured /\ p99 >= ExitMedium, "kvm_exit_handling", AsHigh(p99, ExitHigh))

connectFailing ==
  LET failed == count.refused + count.timeout
      finished == count.ok + failed
  IN  finished >= ConnectFloor /\ 2 * failed >= finished

Traffic ==
  Maybe(count.retrans >= RetransFloor, "tcp_retransmits", "low")
    \o Maybe(count.other >= DropFloor, "guest_traffic_dropped", "medium")
    \o Maybe(count.full >= DropFloor, "guest_not_reading_nic", "medium")
    \o Maybe(connectFailing, "guest_connects_failing", "medium")

\* The stable sort by confidence: a finding's place is the number of those that do not come after it.
Rank == [none |-> 0, low |-> 1, medium |-> 2, high |-> 3]
ComesFirstUnstable(list, j, i) ==
  Rank[list[j].conf] > Rank[list[i].conf] \/ (list[j].conf = list[i].conf /\ j >= i)
ComesFirst(list, j, i) ==
  Rank[list[j].conf] > Rank[list[i].conf] \/ (list[j].conf = list[i].conf /\ j <= i)
Place(list, i) == Cardinality({j \in DOMAIN list : ComesFirst(list, j, i)})
RankedNot(list) == list
Ranked(list) == [k \in DOMAIN list |-> list[CHOOSE i \in DOMAIN list : Place(list, i) = k]]

diagnose ==
  LET found == CPUContention \o Preemption \o Storage \o ExitHandling \o Traffic
  IN  IF Measured = {} THEN <<[cause |-> "not_measured", conf |-> "high"]>>
      ELSE IF found = <<>> THEN <<[cause |-> "no_host_cause", conf |-> "low"]>>
      ELSE Ranked(found)

-----------------------------------------------------------------------------
(* fillAdvice.  Shares are compared without dividing.                      *)

Capacity == span * size.vcpus
Share(n, percent) == 100 * n >= percent * Capacity       \* min(1, n/capacity) is at least so much, percent <= 100
HasData == span >= LeastSpan /\ {"sched", "kvm"} \subseteq Measured
StarvedRQ == 8
WorstRQ == WorstOf(VThreads)
Starved == Share(use.on, 50) /\ ((Wanted > 0 /\ 100 * Taken >= 10 * Wanted) \/ WorstRQ >= StarvedRQ)
HowStarved == IF Wanted > 0 /\ 100 * Taken >= 20 * Wanted THEN "high" ELSE AsHigh(WorstRQ, SlowWakeup)
SuggestRounded == Max({1, (2 * use.on) \div span})
Suggest == Max({1, CeilDiv(2 * use.on, span)})
MayShrinkAnyway == TRUE
MayShrink == ~Starved
Overprovisioned ==
  /\ MayShrink /\ size.vcpus >= 2 /\ Share(use.halt, 80) /\ 100 * use.on <= 20 * Capacity /\ Suggest < size.vcpus
NearlyIdle == MayShrink /\ size.vcpus = 1 /\ Share(use.halt, 95)
IdleConf == IF span < ShortSpan THEN "low" ELSE "medium"

Advise ==
  LET starved == Maybe(Starved, "starved", HowStarved)
      shrink == Maybe(Overprovisioned, "overprovisioned", IdleConf) \o Maybe(NearlyIdle, "nearly_idle", IdleConf)
  IN  IF ~HasData THEN <<[cause |-> "not_enough_data", conf |-> "high"]>>
      ELSE IF ~size.named THEN Append(starved, [cause |-> "idle_unavailable", conf |-> "high"])
      ELSE IF starved \o shrink = <<>> THEN <<[cause |-> "no_change", conf |-> IdleConf]>>
      ELSE starved \o shrink

-----------------------------------------------------------------------------
(* Properties.                                                             *)

CausesIn(list) == {list[i].cause : i \in DOMAIN list}
ConfIn(list, cause) ==
  IF cause \in CausesIn(list) THEN list[CHOOSE i \in DOMAIN list : list[i].cause = cause].conf ELSE "none"

\* The variables keep their types, and every verdict is a list of different causes, the best supported first.
VerdTypeOK(d) ==
  /\ subject \in Subjects /\ batches \in 0..MaxBatches[subject] /\ seen \subseteq {"sched", "kvm", "block"}
  /\ lat \in [Observed -> [Latencies -> Nat]] /\ hist \in [Sources -> [Buckets -> Nat]] /\ count \in [Counts -> Nat]
  /\ span \in 0..MaxSpan /\ use \in [on : Nat, byVM : Nat, byHost : Nat, halt : Nat] /\ asleep \in Nat
  /\ \A i, j \in DOMAIN d : i < j => Rank[d[i].conf] >= Rank[d[j].conf] /\ d[i].cause # d[j].cause

\* The exact 99th percentile of what occurred, by nearest rank: no more than one in a hundred of the latencies is
\* larger.
Often(o) == lat[o][Max(Latencies)]
ExactP99(o) ==
  IF Often(o) = 0 THEN 0 ELSE Min({x \in Latencies : 100 * (Often(o) - lat[o][x]) <= Often(o)})
\* What each cause claims to be slow, and from where on.
Claims ==
  {[cause |-> "host_cpu_contention", of |-> VThreads, medium |-> CpuMedium, high |-> SlowWakeup],
   [cause |-> "storage_latency", of |-> {"read", "write"}, medium |-> SlowBlock, high |-> StorageHigh],
   [cause |-> "kvm_exit_handling", of |-> {"exit"}, medium |-> ExitMedium, high |-> ExitHigh]}
Level(c, x) == IF x >= c.high THEN 3 ELSE IF x >= c.medium THEN 2 ELSE 0
Exact(c) == Max({ExactP99(s) : s \in c.of})

\* Buckets and merging hide nothing: where a vCPU's wakeups, the reads, the writes or the exits were really slow
\* at the 99th percentile, the verdict says so, with the confidence they deserve.
SlowIsFound(d, p99) == \A c \in Claims : Rank[ConfIn(d, c.cause)] >= Level(c, p99[c])

\* "each can read up to 2x high" (verdict.go:22), and no more: what is called slow, and how surely, is true of
\* twice the exact percentile; with no wakeup of a vCPU yet it is about the VM's threads together, and at most
\* medium.
NotMoreThanTwice(d, p99) ==
  \A c \in Claims :
    LET byVCPU == c.cause # "host_cpu_contention" \/ \E t \in VThreads : Often(t) > 0
        exact == IF byVCPU THEN p99[c] ELSE ExactP99("vm")
    IN  Rank[ConfIn(d, c.cause)] <= IF byVCPU THEN Level(c, 2 * exact) ELSE Min({2, Level(c, 2 * exact)})

\* "a quiet minute must not read as a detached program" (state.go:553): once a program has measured the
\* VM, no window makes the verdict say that none has.
QuietIsNotDetached(d) == seen # {} => "not_measured" \notin CausesIn(d)

\* `noisy_neighbour' "follows cpu_preempted" (docs/api.md:474): wherever the ranking puts the finding, the one about
\* the neighbour comes right after the one it explains.
CulpritFollows(d) ==
  \A i \in DOMAIN d : d[i].cause = "noisy_neighbour" => i > 1 /\ d[i - 1].cause = "cpu_preempted"

\* A VM that wants more CPU than it gets is never told to shrink, though a halt counts in the window in which it
\* ends and may make a window look idle and busy at once.
StarvedNotShrunk ==
  "starved" \in CausesIn(Advise) => CausesIn(Advise) \cap {"overprovisioned", "nearly_idle", "no_change"} = {}

\* "would leave it twice the headroom it used": the number of vCPUs that is suggested is smaller than what the VM
\* has, at least one, and at least twice what it really used in the window.
HeadroomKept ==
  "overprovisioned" \in CausesIn(Advise) => Suggest \in 1..(size.vcpus - 1) /\ 2 * use.on <= Suggest * span

\* A verdict says what was slow, no more than the buckets make it, in an order that can be read.
VerdictIsTrue ==
  LET d == diagnose
      exact == [c \in Claims |-> Exact(c)]
  IN  VerdTypeOK(d) /\ SlowIsFound(d, exact) /\ NotMoreThanTwice(d, exact) /\ CulpritFollows(d) /\ QuietIsNotDetached(d)

\* Advice never takes from a VM what it needs.
AdviceIsSafe == StarvedNotShrunk /\ HeadroomKept

=============================================================================
