----------------------------- MODULE Baselines -----------------------------
(***************************************************************************)
(* What each VM normally does, and what is new for it                      *)
(* (internal/baseline/baseline.go, internal/agent/baselines.go), kept in a *)
(* file (internal/persist/baselines.go) that a ticker of cmd/shukrad/      *)
(* main.go writes once a minute and the daemon writes when it stops.       *)
(*                                                                         *)
(* A baseline is a record of the code's vmBase and of four history fields  *)
(* (first, sight, raised, told), which are saved and read back with        *)
(* it, so that they speak of what a restart remembers: a crash may lose    *)
(* what was learned since the last save, and the history with it.          *)
(***************************************************************************)
EXTENDS Integers, FiniteSets

CONSTANTS
  Names,      \* VMs
  Items,      \* networks and sites, as numbers: their order breaks ties
  KindOf,     \* each item's Kind
  OptionSets, \* the Options a rules file may give
  LargestCap, \* the most alerts a day that BaselineConfig.validate lets through
  Day,        \* 24 hours, in ticks
  MaxTime,    \* bound: the clock
  MaxFaults   \* bound: reloads, forgets, failed writes, crashes and stops

ASSUME BaselinesAssumption ==
  /\ Items \subseteq Nat /\ KindOf \in [Items -> {"destination", "dns-suffix", "inbound-peer"}]
  /\ Day \in Nat \ {0} /\ MaxTime \in Nat /\ MaxFaults \in Nat
  /\ LargestCap \in Nat
  \* BaselineConfig.validate: a cap out of its range, or an age shorter than the learning period, is refused.
  /\ \A o \in OptionSets : /\ o.learn \in Nat \ {0} /\ o.maxItems \in Nat \ {0} /\ o.maxAlerts \in 1..LargestCap
                           /\ o.maxAge \in Nat /\ o.maxAge >= o.learn
                           /\ o.kinds # {} /\ o.kinds \subseteq {"destination", "dns-suffix", "inbound-peer"}

VARIABLES
  time, faults,
  opts,       \* Store.opts, and the kinds of the rules in force
  enabled,    \* the rules file has a baselines section
  vms,        \* Store.vms
  dirty,      \* Store.dirty
  file,       \* baselines.json, as it would be read
  saver,      \* what each of the two callers of SaveBaselines has in hand
  alive,      \* "up", "stopping" (the final save is done), "down"
  failed,     \* history: a write failed since the last that did not
  raced,      \* history: the final save overlapped the ticker's
  moved       \* history: the VMs whose cap was changed by a reload since their day began
stored == <<vms, dirty>>
onDisk == <<file, saver, failed, raced>>
baseVars == <<time, faults, opts, enabled, stored, onDisk, alive, moved>>

Fault == faults < MaxFaults /\ faults' = faults + 1 /\ UNCHANGED time

Never == -1
Savers == {"ticker", "exit"}
Idle == [at |-> "idle", data |-> <<>>]
NoBases == [n \in {} |-> <<>>]

BaseInit ==
  /\ time = 0 /\ faults = 0
  /\ opts \in OptionSets /\ enabled = TRUE
  /\ vms = NoBases /\ dirty = FALSE
  /\ file = NoBases /\ saver = [s \in Savers |-> Idle] /\ failed = FALSE /\ raced = FALSE
  /\ alive = "up" /\ moved = {}

-----------------------------------------------------------------------------
(* Observe.                                                                *)

NewBase == [since |-> time, last |-> [i \in {} |-> 0], dayStart |-> time, alertsDay |-> 0,
            first |-> time, sight |-> [i \in Items |-> Never], raised |-> {}, told |-> FALSE]
BaseOf(n) == IF n \in DOMAIN vms THEN vms[n] ELSE NewBase
Put(n, b) == [m \in DOMAIN vms \cup {n} |-> IF m = n THEN b ELSE vms[m]]

\* An item that was seen and is not too old is known.
KnownForOneAge(b, i) == i \in DOMAIN b.last /\ time - b.last[i] < opts.maxAge
Known(b, i) == i \in DOMAIN b.last /\ time - b.last[i] <= opts.maxAge

\* trim: of each kind, the items seen last stay.
OlderThan(last, x, y) == last[x] < last[y] \/ (last[x] = last[y] /\ x < y)
Newer(last, x) == {y \in DOMAIN last : KindOf[y] = KindOf[x] /\ OlderThan(last, x, y)}
Trim(last, k) ==
  LET stay == {x \in DOMAIN last : KindOf[x] = k => Cardinality(Newer(last, x)) < opts.maxItems}
  IN  [x \in stay |-> last[x]]

DayOverAfterFirst(b) == time - b.since >= Day
DayOver(b) == time - b.dayStart >= Day
UsedUpByOne(n) == n > opts.maxAlerts
UsedUp(n) == n >= opts.maxAlerts
AtCapByOne(n) == n = opts.maxAlerts + 1
AtCap(n) == n = opts.maxAlerts
LearningFromDay(b) == time - b.dayStart < opts.learn
Learning(b) == time - b.since < opts.learn

\* The alerts raised in the last 24 hours, each with its time and a number that keeps those of one tick apart.
InDay(rs) == {r \in rs : time - r[1] < Day}

\* What the history fields say after an observation that left `last' and was answered with `verdict'.
Witnessed(b, i, last, verdict) ==
  LET recent == InDay(b.raised)
  IN  [b EXCEPT !.last = last,
                !.sight = [x \in Items |-> IF x \notin DOMAIN last THEN Never ELSE IF x = i THEN time ELSE @[x]],
                !.raised = IF verdict = "new" THEN recent \cup {<<time, Cardinality(recent) + 1>>} ELSE recent]

\* The day's count, its cap, and what the observation means.
Counted(b) ==
  LET d == IF DayOver(b) THEN [b EXCEPT !.dayStart = time, !.alertsDay = 0, !.told = FALSE] ELSE b
  IN  IF UsedUp(d.alertsDay) THEN [base |-> d, verdict |-> "capped"]
      ELSE [base |-> [d EXCEPT !.alertsDay = @ + 1, !.told = @ \/ AtCap(d.alertsDay + 1)], verdict |-> "new"]

\* What Observe makes of an item: the verdict, and the baseline after it.
Outcome(n, i) ==
  LET b == BaseOf(n)
      last == [x \in DOMAIN b.last \cup {i} |-> IF x = i THEN time ELSE b.last[x]]
  IN  IF Known(b, i) THEN [base |-> b, verdict |-> "known", last |-> last]
      ELSE IF Learning(b) THEN [base |-> b, verdict |-> "learning", last |-> Trim(last, KindOf[i])]
      ELSE [base |-> Counted(b).base, verdict |-> Counted(b).verdict, last |-> Trim(last, KindOf[i])]

Observe(n, i) ==
  /\ alive # "down" /\ enabled /\ KindOf[i] \in opts.kinds
  /\ LET out == Outcome(n, i)
     IN  /\ vms' = Put(n, Witnessed(out.base, i, out.last, out.verdict))
         /\ moved' = IF out.base.dayStart # BaseOf(n).dayStart THEN moved \ {n} ELSE moved
  /\ dirty' = TRUE
  /\ UNCHANGED <<time, faults, opts, enabled, onDisk, alive>>

-----------------------------------------------------------------------------
(* The rest of the Store.                                                  *)

\* SIGHUP: the options follow the file only when it has the section.
ReloadBaselines(o, on) ==
  /\ alive = "up" /\ Fault
  /\ enabled' = on
  /\ opts' = IF on THEN o ELSE opts
  /\ moved' = IF on /\ o.maxAlerts # opts.maxAlerts THEN Names ELSE moved
  /\ UNCHANGED <<stored, onDisk, alive>>

ForgetBaseline(n) ==
  /\ alive # "down" /\ n \in DOMAIN vms /\ Fault
  /\ vms' = [m \in DOMAIN vms \ {n} |-> vms[m]]
  /\ dirty' = TRUE
  /\ UNCHANGED <<opts, enabled, onDisk, alive, moved>>

Stale(b) == {i \in DOMAIN b.last : time - b.last[i] > opts.maxAge}
Pruned(b) == [b EXCEPT !.last = [i \in DOMAIN @ \ Stale(b) |-> @[i]],
                       !.sight = [i \in Items |-> IF i \in Stale(b) THEN Never ELSE @[i]]]
PruneMarksNot == dirty
PruneMarks == dirty \/ \E n \in DOMAIN vms : Stale(vms[n]) # {}

Prune ==
  /\ alive = "up" /\ saver["ticker"].at = "idle" /\ \E n \in DOMAIN vms : Stale(vms[n]) # {}
  /\ vms' = [n \in DOMAIN vms |-> Pruned(vms[n])]
  /\ dirty' = PruneMarks
  /\ UNCHANGED <<time, faults, opts, enabled, onDisk, alive, moved>>

\* SaveBaselines: Snapshot clears the flag,
MaySave(s) == alive = IF s = "ticker" THEN "up" ELSE "stopping"
Snapshot(s) ==
  /\ MaySave(s) /\ saver[s].at = "idle" /\ dirty
  /\ saver' = [saver EXCEPT ![s] = [at |-> "write", data |-> vms]]
  /\ dirty' = FALSE
  /\ raced' = (raced \/ (s = "exit" /\ saver["ticker"].at = "write"))
  /\ UNCHANGED <<time, faults, opts, enabled, vms, file, failed, alive, moved>>

\* and then the file is written.  A write that fails is not tried again before the next change.
WriteBaselines(s) ==
  /\ alive # "down" /\ saver[s].at = "write"
  /\ file' = saver[s].data /\ failed' = FALSE
  /\ saver' = [saver EXCEPT ![s] = Idle]
  /\ UNCHANGED <<time, faults, opts, enabled, stored, raced, alive, moved>>

WriteFails(s) ==
  /\ alive # "down" /\ saver[s].at = "write" /\ Fault
  /\ failed' = TRUE
  /\ saver' = [saver EXCEPT ![s] = Idle]
  /\ UNCHANGED <<opts, enabled, stored, file, raced, alive, moved>>

StopSaving ==
  /\ alive = "up" /\ Fault
  /\ alive' = "stopping"
  /\ UNCHANGED <<opts, enabled, stored, onDisk, moved>>

\* The process ends: when main returns, or by a crash.
Gone ==
  /\ alive' = "down"
  /\ vms' = NoBases /\ dirty' = FALSE
  /\ saver' = [s \in Savers |-> Idle]
  /\ UNCHANGED <<opts, enabled, file, failed, raced, moved>>

ExitClean == alive = "stopping" /\ saver["exit"].at = "idle" /\ ~dirty /\ Gone /\ UNCHANGED <<time, faults>>
CrashBaselines == alive # "down" /\ Fault /\ Gone

\* LoadBaselines, and New with the options of the rules file.
LoadBaselines ==
  /\ alive = "down"
  /\ alive' = "up" /\ vms' = file /\ failed' = FALSE /\ raced' = FALSE
  /\ UNCHANGED <<time, faults, opts, enabled, dirty, file, saver, moved>>

TimePasses ==
  /\ time < MaxTime /\ time' = time + 1
  /\ UNCHANGED <<faults, opts, enabled, stored, onDisk, alive, moved>>

BaseNext ==
  \/ \E n \in Names, i \in Items : Observe(n, i)
  \/ \E o \in OptionSets, on \in BOOLEAN : ReloadBaselines(o, on)
  \/ \E n \in Names : ForgetBaseline(n)
  \/ Prune \/ StopSaving \/ ExitClean \/ CrashBaselines \/ LoadBaselines \/ TimePasses
  \/ \E s \in Savers : Snapshot(s) \/ WriteBaselines(s) \/ WriteFails(s)

BaseSpec == BaseInit /\ [][BaseNext]_baseVars

-----------------------------------------------------------------------------
(* Properties.                                                             *)

Ticks == 0..MaxTime
Lasts == UNION {[seen -> Ticks] : seen \in SUBSET Items}
Bases == [since : Ticks, last : Lasts, dayStart : Ticks, alertsDay : 0..LargestCap,
          first : Ticks, sight : [Items -> Ticks \cup {Never}], raised : SUBSET (Ticks \X Nat), told : BOOLEAN]
Stores(f) == DOMAIN f \subseteq Names /\ \A n \in DOMAIN f : f[n] \in Bases

\* The variables keep their types, and no count of a day goes past its cap.
BaseTypeOK ==
  /\ time \in 0..MaxTime /\ faults \in 0..MaxFaults /\ opts \in OptionSets /\ enabled \in BOOLEAN
  /\ alive \in {"up", "stopping", "down"} /\ dirty \in BOOLEAN /\ failed \in BOOLEAN /\ raced \in BOOLEAN
  /\ Stores(vms) /\ Stores(file) /\ moved \subseteq Names
  /\ DOMAIN saver = Savers
  /\ \A s \in Savers : saver[s] = Idle \/ (saver[s].at = "write" /\ Stores(saver[s].data))

Verdict(n, i) == Outcome(n, i).verdict

\* "After that the first sighting of an item is reported once, and then recorded, so it is never new again"
\* (baseline.go:6): an item would be reported only if it was not seen, since it was last dropped, within
\* maxAge, over restarts from the file, reloads and trimming.
NeverNewAgain ==
  \A n \in DOMAIN vms, i \in Items :
    Verdict(n, i) = "new" => vms[n].sight[i] = Never \/ time - vms[n].sight[i] > opts.maxAge

\* "The start of learning is stored, so a restart does not begin it again" (docs/baselines.md:37): what a VM
\* does is taken for learning only within the learning period in force from its first sighting on record.
LearnsOnce == \A n \in DOMAIN vms, i \in Items : Verdict(n, i) = "learning" => time - vms[n].first < opts.learn

\* The day of the cap is a block of 24 hours (docs/baselines.md:119), so within any 24 hours a VM raises at
\* most twice its cap, over restarts and reloads.
DayBounded == \A n \in DOMAIN vms : Cardinality(InDay(vms[n].raised)) <= 2 * LargestCap

\* "Past it, new items are still learned, counted and not reported, and one baseline-cap detection says so"
\* (docs/baselines.md:67): nothing is held back in a day that was not said to be at its cap, unless a reload
\* changed the cap in that day.
HeldBackIsSaid == \A n \in DOMAIN vms, i \in Items : Verdict(n, i) = "capped" => vms[n].told \/ n \in moved

\* When the store has nothing to save and no save is on its way, the file is what it has learned: nothing
\* that changes a baseline goes unmarked, and a change made while a save is written is saved by the next.
CleanMeansSaved ==
  alive # "down" /\ ~dirty /\ ~failed /\ ~raced /\ (\A s \in Savers : saver[s].at = "idle")
    => file = vms

\* What Observe says of an item, new, learning or held back, is deserved by what the VM did before.
ObserveIsTrue == BaseTypeOK /\ NeverNewAgain /\ LearnsOnce /\ HeldBackIsSaid /\ DayBounded

=============================================================================
