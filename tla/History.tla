------------------------------ MODULE History ------------------------------
(***************************************************************************)
(* What the counters did over a window: the per-thread counters the eBPF   *)
(* programs keep (read by internal/observe/sample_bpf.go), the snapshots   *)
(* of the last minutes (internal/state/history.go), the coarse ones on     *)
(* disk (internal/state/rollup.go, internal/persist/rollup.go) and the     *)
(* differences a verdict is built from (internal/aggregate).               *)
(*                                                                         *)
(* One VM and one counter stand for all of them.  A scan of /proc, a       *)
(* sample of the maps and the life of the threads are separate steps, in   *)
(* any order; `work' is the truth the counters are held against.           *)
(***************************************************************************)
EXTENDS Integers, Sequences, SequencesExt, FiniteSets, FiniteSetsExt, Sums

CONSTANTS
  Tids,        \* thread ids; one that is free may be given to a new thread
  SnapEvery, SnapKeep, MaxWindow, MinSpan,   \* snapEvery, snapKeep, MaxExplainWindow, minSpan
  RollEvery,
  RollMax,     \* lines of snapshots.jsonl at which it rolls
  Windows,     \* windows that are asked for
  Setups,      \* how the daemon is run: with -data-dir or without, and two bounds: its clock, and its churn
               \*   (threads that end, entries evicted, scans that miss the VM, failed writes, restarts)
  MaxWork      \* bound: what the threads do, in all

ASSUME HistoryAssumption ==
  /\ IsFiniteSet(Tids)
  /\ {SnapEvery, SnapKeep, MaxWindow, MinSpan, RollEvery, RollMax} \subseteq Nat \ {0}
  /\ Windows \subseteq Nat \ {0}
  /\ Setups \subseteq [store : BOOLEAN, clock : Nat \ {0}, churn : Nat]
  /\ MaxWork \in Nat

VARIABLES
  setup, clock, churn,
  alive,       \* the VM's threads
  kern,        \* the kernel's map: a function on the tids that have an entry
  work,        \* history: what each tid has done since the beginning
  scan,        \* State.vms: the VM is in it, and the threads it was seen with
  sample,      \* State.byPID, and (history) `work' when it was read
  snaps,       \* State.history
  steady,      \* history: since when a sample came at least every SnapKeep - MaxWindow, 0 before the first
  lastRoll,    \* State.lastRoll, 0 is the zero time
  rolls        \* snapshots.jsonl.1 and snapshots.jsonl

histWorld == <<alive, kern, work>>
histVars == <<setup, clock, churn, histWorld, scan, sample, snaps, steady, lastRoll, rolls>>
Churn == churn < setup.churn /\ churn' = churn + 1

Restricted(f, s) == [t \in DOMAIN f \cap s |-> f[t]]
At(f, t) == IF t \in DOMAIN f THEN f[t] ELSE 0     \* a missing key of a Go map
\* The newest of the first n that is not after `at', 0 when there is none.
NewestBy(s, n, at) == LET old == {i \in 1..n : s[i].at <= at} IN IF old = {} THEN 0 ELSE Max(old)

-----------------------------------------------------------------------------
(* aggregate: differences of cumulative counters.                          *)

subAll(cur, base) == cur
sub(cur, base) == IF cur < base THEN cur ELSE cur - base
\* Delta, per thread: a thread that is not in the base has all of its count in the window.
Delta(cur, base) == [t \in DOMAIN cur |-> sub(cur[t], At(base, t))]

-----------------------------------------------------------------------------
NoThreads == [t \in {} |-> 0]
NoSample == [by |-> NoThreads, work |-> [t \in Tids |-> 0]]
NotScanned == [found |-> FALSE, threads |-> {}]

HistInit ==
  /\ setup \in Setups /\ clock = 1 /\ churn = 0
  /\ alive = Tids /\ kern = NoThreads /\ work = [t \in Tids |-> 0]
  /\ scan = NotScanned /\ sample = NoSample
  /\ snaps = <<>> /\ steady = 0 /\ lastRoll = 0
  /\ rolls = [old |-> <<>>, cur |-> <<>>]

(* The threads and the kernel's maps.                                      *)

Work(t) ==
  /\ t \in alive /\ Total(work) < MaxWork
  /\ work' = [work EXCEPT ![t] = @ + 1]
  /\ kern' = [u \in DOMAIN kern \cup {t} |-> At(kern, u) + (IF u = t THEN 1 ELSE 0)]
  /\ UNCHANGED <<setup, clock, churn, alive, scan, sample, snaps, steady, lastRoll, rolls>>

\* A thread ends.  The scheduler's entry goes with it; those of the other programs stay until evicted.
ThreadEnds(t) ==
  /\ t \in alive /\ Churn
  /\ alive' = alive \ {t}
  /\ kern' \in {kern, Restricted(kern, Tids \ {t})}
  /\ UNCHANGED <<setup, clock, work, scan, sample, snaps, steady, lastRoll, rolls>>

ThreadStarts(t) ==
  /\ t \notin alive
  /\ alive' = alive \cup {t}
  /\ UNCHANGED <<setup, clock, churn, kern, work, scan, sample, snaps, steady, lastRoll, rolls>>

\* The maps are LRU.
EntryEvicted(t) ==
  /\ t \in DOMAIN kern /\ Churn
  /\ kern' = Restricted(kern, Tids \ {t})
  /\ UNCHANGED <<setup, clock, alive, work, scan, sample, snaps, steady, lastRoll, rolls>>

TimePasses ==
  /\ clock < setup.clock
  /\ clock' = clock + 1
  /\ UNCHANGED <<setup, churn, histWorld, scan, sample, snaps, steady, lastRoll, rolls>>

-----------------------------------------------------------------------------
(* Refresh: the scan, then the sample.  Two Refreshes may overlap.         *)

ScanProc ==
  /\ scan' = [found |-> TRUE, threads |-> alive]
  /\ UNCHANGED <<setup, clock, churn, histWorld, sample, snaps, steady, lastRoll, rolls>>

\* A process whose /proc files fail to read for a moment is skipped.
ScanMisses ==
  /\ scan.found /\ Churn
  /\ scan' = NotScanned
  /\ UNCHANGED <<setup, clock, histWorld, sample, snaps, steady, lastRoll, rolls>>

\* What a snapshot holds of the VM: its threads that have counters.
Seen(by) == IF scan.found THEN Restricted(by, scan.threads) ELSE NoThreads
SnapDueAlways == TRUE
SnapDue == snaps = <<>> \/ clock - Last(snaps).at >= SnapEvery
\* What is too old goes, but never the newest.
TrimmedAtWindow(s) ==
  LET kept == {i \in DOMAIN s : i = Len(s) \/ clock - s[i].at < MaxWindow} IN SubSeq(s, Min(kept), Len(s))
Trimmed(s) ==
  LET kept == {i \in DOMAIN s : i = Len(s) \/ clock - s[i].at <= SnapKeep} IN SubSeq(s, Min(kept), Len(s))
Snapshot(by) == [at |-> clock, threads |-> Seen(by), work |-> work]
recordLocked(by) == IF SnapDue THEN Trimmed(Append(snaps, Snapshot(by))) ELSE snaps

RollDue == setup.store /\ scan.found /\ (lastRoll = 0 \/ clock - lastRoll >= RollEvery)
\* RollupSnap: the VM's total over its threads, and the vCPU threads on their own.
RollupSnap(by) == [at |-> clock, total |-> Total(Seen(by)), vcpus |-> Seen(by), work |-> work, ok |-> TRUE]
Appended(r, line) ==
  IF Len(r.cur) >= RollMax THEN [old |-> r.cur, cur |-> <<line>>] ELSE [r EXCEPT !.cur = Append(@, line)]
TornRoll(line) == [line EXCEPT !.ok = FALSE]

Recorded(by) ==
  /\ sample' = [by |-> by, work |-> work]
  /\ snaps' = recordLocked(by)
  /\ steady' = IF snaps = <<>> \/ clock - Last(snaps).at > SnapKeep - MaxWindow THEN clock ELSE steady
  /\ lastRoll' = IF RollDue THEN clock ELSE lastRoll

\* Sample and SetCounters: the counters, a snapshot if one is due, and a line of history if one is due.
SetCounters ==
  /\ Recorded(kern)
  /\ rolls' = IF RollDue THEN Appended(rolls, RollupSnap(kern)) ELSE rolls
  /\ UNCHANGED <<setup, clock, churn, histWorld, scan>>

\* The line cannot be stored, or only part of it: lastRoll has moved all the same.
SetCountersNotStored ==
  /\ RollDue /\ Churn
  /\ Recorded(kern)
  /\ rolls' \in {rolls, Appended(rolls, TornRoll(RollupSnap(kern)))}
  /\ UNCHANGED <<setup, clock, histWorld, scan>>

\* The daemon stops or dies and starts again.  The counter maps are not pinned.
Restart ==
  /\ Churn
  /\ kern' = NoThreads
  /\ scan' = NotScanned /\ sample' = NoSample /\ snaps' = <<>> /\ steady' = 0 /\ lastRoll' = 0
  /\ UNCHANGED <<setup, clock, alive, work, rolls>>

HistNext ==
  \/ \E t \in Tids : Work(t) \/ ThreadEnds(t) \/ ThreadStarts(t) \/ EntryEvicted(t)
  \/ TimePasses \/ ScanProc \/ ScanMisses \/ SetCounters \/ SetCountersNotStored \/ Restart

HistSpec == HistInit /\ [][HistNext]_histVars

-----------------------------------------------------------------------------
(* The live window.                                                        *)

\* baseLocked: the newest snapshot at least a window old, else the oldest; nothing on less than MinSpan.
Base(window) ==
  LET w == IF window < MaxWindow THEN window ELSE MaxWindow
      i == NewestBy(snaps, Len(snaps), clock - w)
  IN  IF i # 0 THEN snaps[i] ELSE Head(snaps)
HasBase(window) == snaps # <<>> /\ clock - Base(window).at >= MinSpan
windowedInputs(window) == Delta(Seen(sample.by), Base(window).threads)

(* The verdict for a past time.                                            *)

\* scan: a record that does not decode ends its file.
Readable(lines) ==
  LET bad == {i \in DOMAIN lines : ~lines[i].ok}
  IN  IF bad = {} THEN lines ELSE SubSeq(lines, 1, Min(bad) - 1)
Places == Readable(rolls.old) \o Readable(rolls.cur)
\* Around: the newest at or before the time, and before it the newest a window older.
CurIndexLast(at) == Len(Places)
CurIndex(at) == NewestBy(Places, Len(Places), at)
Cur(at) == Places[CurIndex(at)]
BaseIndex(at, w) == NewestBy(Places, CurIndex(at) - 1, Cur(at).at - w)
RollBase(at, w) == Places[BaseIndex(at, w)]
AtWindow(w) == IF w < RollEvery THEN RollEvery ELSE w
\* ExplainAt has something to stand on.
Explained(at, w) ==
  /\ CurIndex(at) # 0 /\ at - Cur(at).at <= 2 * RollEvery
  /\ BaseIndex(at, AtWindow(w)) # 0
PastTotal(at, w) == sub(Cur(at).total, RollBase(at, AtWindow(w)).total)
PastVCPUsLifetime(at, w) == Cur(at).vcpus
PastVCPUs(at, w) == Delta(Cur(at).vcpus, RollBase(at, AtWindow(w)).vcpus)

-----------------------------------------------------------------------------
(* Properties.                                                             *)

\* The variables keep their types, and the snapshots their order.
HistTypeOK ==
  /\ setup \in Setups /\ clock \in 1..setup.clock /\ churn \in 0..setup.churn
  /\ alive \subseteq Tids /\ DOMAIN kern \subseteq Tids /\ work \in [Tids -> 0..MaxWork]
  /\ \A t \in DOMAIN kern : kern[t] \in 0..work[t]
  /\ scan.threads \subseteq Tids /\ DOMAIN sample.by \subseteq Tids
  /\ \A i \in DOMAIN snaps : snaps[i].at \in 1..clock /\ DOMAIN snaps[i].threads \subseteq Tids
  /\ \A i, j \in DOMAIN snaps : i < j => snaps[i].at < snaps[j].at
  /\ steady \in 0..clock /\ lastRoll \in 0..clock
  /\ Len(rolls.old) <= RollMax /\ Len(rolls.cur) <= RollMax

\* A thread that the base snapshot holds is never said to have done more in the window than it did since the
\* snapshot, whatever ended, was evicted, was restarted or had its id reused in between (aggregate.go:512).
WindowNeverOvercounts ==
  \A w \in Windows : HasBase(w) =>
    LET d == windowedInputs(w)
    IN  \A t \in DOMAIN d \cap DOMAIN Base(w).threads : d[t] <= sample.work[t] - Base(w).work[t]

\* Trimming keeps a base for every window that may be asked for: once samples have come steadily for a window's
\* time, the window that is answered for is at least as long as the one asked for (history.go:15-24, 70).
WindowIsCovered ==
  \A w \in Windows : w <= MaxWindow /\ steady > 0 /\ clock - steady >= w =>
    snaps # <<>> /\ clock - Base(w).at >= w

\* In a verdict for a past time no vCPU thread that the base line holds has done more than it did between the
\* two lines, also over a restart of the daemon between them (rollup.go:379-385).
PastNeverOvercounts ==
  \A at \in 1..clock, w \in Windows : Explained(at, w) =>
    LET c == Cur(at) b == RollBase(at, AtWindow(w)) d == PastVCPUs(at, w)
    IN  \A t \in DOMAIN d \cap DOMAIN b.vcpus : d[t] <= c.work[t] - b.work[t]

\* A verdict about the past does not change with the time it is asked at: later lines, torn lines and the roll
\* of the file either leave it as it was or leave nothing to stand on (persist/rollup.go:94).
PastIsFixed ==
  [][\A at \in 1..(clock - 1), w \in Windows :
       Explained(at, w) /\ Explained(at, w)' =>
         PastTotal(at, w)' = PastTotal(at, w) /\ PastVCPUs(at, w)' = PastVCPUs(at, w)]_histVars

\* What is said of a window, of the last minutes or of a past time, is never more than what was done in it, is about
\* a window as long as the one asked for, and stays as it was said.
WindowsAreTrue ==
  [](HistTypeOK /\ WindowNeverOvercounts /\ WindowIsCovered /\ PastNeverOvercounts) /\ PastIsFixed

=============================================================================
