---------------------------- MODULE Thresholds -----------------------------
(***************************************************************************)
(* The threshold rules (Evaluator of internal/detect/threshold.go, driven  *)
(* by evaluate of internal/agent/agent.go): each VM's cumulative counter   *)
(* against a snapshot one window ago.                                      *)
(*                                                                         *)
(* The counters are the kernel's.  They fall when a thread ends or a map   *)
(* entry is evicted, the program that counts may be off, a scan may miss a *)
(* VM, the refreshes are not evenly spaced, and the rules change.          *)
(***************************************************************************)
EXTENDS Integers, Sequences, FiniteSets

CONSTANTS
  Guests,     \* VMs
  RuleSets,   \* the thresholds a rules file may have
  LongestWindow, \* maxWindow of config.go
  MaxClk,     \* bound: the clock
  MaxEvents,  \* bound: what a VM's counter counts
  MaxUpsets   \* bound: counters that fall, programs that go off and on, reloads

ASSUME ThresholdsAssumption ==
  /\ MaxClk \in Nat /\ MaxEvents \in Nat /\ MaxUpsets \in Nat /\ LongestWindow \in Nat
  \* Load refuses a longer window, or none.
  /\ \A R \in RuleSets : \A r \in R : r.window \in 1..LongestWindow /\ r.value \in Nat /\ r.op \in {">", ">="}
                                      /\ r.needsProgram \in BOOLEAN

VARIABLES
  clk, upsets,
  rules,      \* Config.Thresholds
  counter,    \* each VM's cumulative counter
  program,    \* the program that counts is measuring the VM (schedOn, DropsOK, OutcomesOK)
  history,    \* Evaluator.history
  fired,      \* what the last Evaluate returned
  real,       \* history: the events there really were
  ledger,     \* history: every Evaluate since there are rules, with `real' at the time
  inForce     \* history: since when each rule has been in force

thrVars == <<clk, upsets, rules, counter, program, history, fired, real, ledger, inForce>>

Upset == upsets < MaxUpsets /\ upsets' = upsets + 1 /\ UNCHANGED clk

ThrInit ==
  /\ clk = 0 /\ upsets = 0
  /\ rules \in RuleSets /\ inForce = [r \in rules |-> 0]
  /\ counter = [v \in Guests |-> 0] /\ real = [v \in Guests |-> 0] /\ program = [v \in Guests |-> TRUE]
  /\ history = <<>> /\ ledger = <<>> /\ fired = {}

-----------------------------------------------------------------------------
Happens(v) ==
  /\ real[v] < MaxEvents
  /\ real' = [real EXCEPT ![v] = @ + 1]
  /\ counter' = [counter EXCEPT ![v] = IF program[v] THEN @ + 1 ELSE @]
  /\ UNCHANGED <<clk, upsets, rules, program, history, fired, ledger, inForce>>

\* A thread ended, or the kernel evicted an entry.
Falls(v, n) ==
  /\ n < counter[v] /\ Upset
  /\ counter' = [counter EXCEPT ![v] = n]
  /\ UNCHANGED <<rules, program, history, fired, real, ledger, inForce>>

ProgramChanges(v) ==
  /\ Upset
  /\ program' = [program EXCEPT ![v] = ~@]
  /\ UNCHANGED <<rules, counter, history, fired, real, ledger, inForce>>

\* SIGHUP: the rules change; the history is the Evaluator's and stays until it is next called.
ReloadRules(R) ==
  /\ R # rules /\ Upset
  /\ rules' = R
  /\ inForce' = [r \in R |-> IF r \in rules THEN inForce[r] ELSE clk]
  /\ UNCHANGED <<counter, program, history, fired, real, ledger>>

-----------------------------------------------------------------------------
(* Evaluate.                                                               *)

Snap(S) == [v \in S |-> [n |-> counter[v], on |-> program[v]]]
Keep == CHOOSE w \in {r.window : r \in rules} : \A r \in rules : r.window <= w

\* record: one snapshot at or before the oldest edge any rule needs is kept.
EdgeNever(h, now) == {1}
EdgeTooLate(h, now) == {i \in 1..Len(h) : h[i].at <= now - Keep + 1} \cup {1}
Edge(h, now) == {i \in 1..Len(h) : h[i].at <= now - Keep} \cup {1}
record(S, now) ==
  LET h == Append(history, [at |-> now, vms |-> Snap(S)])
      first == CHOOSE i \in Edge(h, now) : \A j \in Edge(h, now) : j <= i
  IN  SubSeq(h, first, Len(h))

\* base: the newest snapshot at least a window old; 0 when there is none.
BaseAt(h, now, window) ==
  LET old == {i \in 1..Len(h) : h[i].at <= now - window}
  IN  IF old = {} THEN 0 ELSE CHOOSE i \in old : \A j \in old : j <= i

\* subOK and metric: nothing to say when the counter went backwards or was not measured at both ends.
subOKGuessed(cur, old) == [d |-> IF cur < old THEN cur ELSE cur - old, ok |-> TRUE]
subOK(cur, old) == [d |-> IF cur < old THEN 0 ELSE cur - old, ok |-> cur >= old]
Sayable(r, old, cur) == subOK(cur.n, old.n).ok /\ (r.needsProgram => old.on /\ cur.on)
Grown(old, cur) == subOK(cur.n, old.n).d
Crossed(r, d, span) == IF r.op = ">" THEN d > r.value * span ELSE d >= r.value * span

Judged(h, now, r, S) ==
  LET b == BaseAt(h, now, r.window)
  IN  IF b = 0 THEN {}
      ELSE {[rule |-> r, vm |-> v, delta |-> Grown(h[b].vms[v], Snap(S)[v]), span |-> now - h[b].at] :
              v \in {g \in S \cap DOMAIN h[b].vms :
                       /\ Sayable(r, h[b].vms[g], Snap(S)[g])
                       /\ Crossed(r, Grown(h[b].vms[g], Snap(S)[g]), now - h[b].at)}}

\* A refresh, `gap' after the last, that found the VMs of S.
Evaluate(S, gap) ==
  /\ clk + gap <= MaxClk /\ clk' = clk + gap
  /\ IF rules = {}
     THEN history' = <<>> /\ fired' = {} /\ ledger' = <<>>
     ELSE /\ history' = record(S, clk')
          /\ fired' = UNION {Judged(history', clk', r, S) : r \in rules}
          /\ ledger' = Append(ledger, [at |-> clk', vms |-> [v \in S |-> [n |-> counter[v], on |-> program[v], real |-> real[v]]]])
  /\ UNCHANGED <<upsets, rules, counter, program, real, inForce>>

ThrNext ==
  \/ \E v \in Guests : Happens(v) \/ ProgramChanges(v) \/ \E n \in 0..MaxEvents : Falls(v, n)
  \/ \E R \in RuleSets : ReloadRules(R)
  \/ \E S \in SUBSET Guests, gap \in 1..2 : Evaluate(S, gap)

ThrSpec == ThrInit /\ [][ThrNext]_thrVars

-----------------------------------------------------------------------------
(* Properties.                                                             *)

\* The variables keep their types; what is kept is no more than one snapshot past the longest
\* window, of refreshes a tick apart or more (threshold.go:110).
ThrTypeOK ==
  /\ clk \in 0..MaxClk /\ upsets \in 0..MaxUpsets /\ rules \in RuleSets /\ DOMAIN inForce = rules
  /\ \A v \in Guests : counter[v] \in 0..real[v] /\ real[v] \in 0..MaxEvents /\ program[v] \in BOOLEAN
  /\ \A i \in 1..Len(history) : /\ history[i].at \in 0..clk
                                /\ DOMAIN history[i].vms \subseteq Guests
                                /\ i > 1 => history[i - 1].at < history[i].at
  /\ Len(history) <= LongestWindow + 1

LastEval == Len(ledger)
\* The last Evaluate, of the VMs that it found.
JustEvaluated == LastEval > 0 /\ ledger[LastEval].at = clk

\* A rule that fires tells the truth: over a span that is at least its window there were at least as many
\* events as it says, and they were measured at both ends, whatever fell or was missed in between
\* (threshold.go:42, 141).
FiredIsReal ==
  \A f \in fired :
    \E i \in 1..LastEval :
      /\ ledger[i].at = ledger[LastEval].at - f.span /\ f.span >= f.rule.window
      /\ f.vm \in DOMAIN ledger[i].vms \cap DOMAIN ledger[LastEval].vms
      /\ f.delta <= ledger[LastEval].vms[f.vm].real - ledger[i].vms[f.vm].real
      /\ f.rule.needsProgram => ledger[i].vms[f.vm].on /\ ledger[LastEval].vms[f.vm].on

\* The same judgement over the whole record, which nothing was cut from.
ReferenceBase(r) == LET old == {i \in 1..LastEval : ledger[i].at <= ledger[LastEval].at - r.window}
                    IN  IF old = {} THEN 0 ELSE CHOOSE i \in old : \A j \in old : j <= i
ReferenceFires(r, v) ==
  LET b == ReferenceBase(r)
  IN  /\ b # 0 /\ v \in DOMAIN ledger[b].vms /\ v \in DOMAIN ledger[LastEval].vms
      /\ ledger[LastEval].vms[v].n >= ledger[b].vms[v].n
      /\ r.needsProgram => ledger[b].vms[v].on /\ ledger[LastEval].vms[v].on
      /\ Crossed(r, ledger[LastEval].vms[v].n - ledger[b].vms[v].n, ledger[LastEval].at - ledger[b].at)

\* Nothing is missed: cutting the history loses no judgement of a rule that has been in force for its window,
\* and makes none that the whole record would not.
NothingMissed ==
  JustEvaluated =>
    \A r \in rules, v \in Guests :
      LET says == \E f \in fired : f.rule = r /\ f.vm = v
      IN  /\ says => ReferenceFires(r, v)
          /\ ReferenceFires(r, v) /\ inForce[r] <= ledger[ReferenceBase(r)].at => says

\* A rule speaks when it should, and then the truth, from a history that stays bounded.
ThresholdsAreTrue == ThrTypeOK /\ FiredIsReal /\ NothingMissed

=============================================================================
