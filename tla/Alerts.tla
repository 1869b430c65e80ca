------------------------------- MODULE Alerts -------------------------------
(***************************************************************************)
(* From a rule that fires to an alert delivered: raise                     *)
(* (internal/agent/agent.go), the Suppressor (internal/detect/suppress.go) *)
(* and the Dispatcher with its sinks (internal/sink).                      *)
(*                                                                         *)
(* Rules fire on several goroutines.  Allow is one step under its lock;    *)
(* the detections that passed it reach Emit in any order (emitting).  Each *)
(* sink has a queue and a worker; a webhook tries, waits and tries again.  *)
(* Close runs beside all of it.                                            *)
(***************************************************************************)
EXTENDS Integers, Sequences, SequencesExt, FiniteSets, FiniteSetsExt

CONSTANTS
  Keys,         \* what "the same detection" means
  Webhooks,     \* sinks that retry
  Locals,       \* the file and syslog sinks, which do not
  Setups,       \* how the daemon is run: the sinks its flags name, and the suppression windows its
                \*   rules file has over time (0 is off), and a bound on the detections of the run
  MaxKeys,      \* maxSuppressKeys
  QueueSize,
  Tries,        \* attempts of a webhook
  MaxRaises,    \* bound: detections of any run
  MaxNow,       \* bound: the clock
  MaxReloads    \* bound: reloads of the rules file

ASSUME AlertsAssumption ==
  /\ Setups \subseteq [sinks : SUBSET (Webhooks \cup Locals), windows : SUBSET Nat, raises : 0..MaxRaises]
  /\ MaxKeys \in Nat \ {0} /\ QueueSize \in Nat \ {0} /\ Tries \in Nat \ {0}
  /\ MaxRaises \in Nat /\ MaxNow \in Nat /\ MaxReloads \in Nat
  /\ Webhooks \cap Locals = {}

VARIABLES
  setup, now, window, reloads,
  seen,         \* Suppressor.seen: a function on the keys it holds
  suppressed,   \* State.suppressed
  raised,       \* history: how often a rule fired
  passed,       \* history: how many were let through; an alert's id is its number
  told,         \* history: the repeats that the alerts said they stood in for
  forgot,       \* history: the repeats held by entries that were evicted
  spoken,       \* history: until when the detection of a key that was last let through speaks for its repeats
  emitting,     \* detections stored by AddEvent whose hooks have not run yet
  queue, busy,  \* per sink: entry.q, and what its worker is sending
  sent, failed, dropped,  \* per sink: the entry's counters, as the alerts they counted
  closing,      \* where Close is
  cancelled     \* the dispatcher's context

suppressor == <<seen, suppressed, raised, passed, told, forgot, spoken>>
sinks == <<queue, busy, sent, failed, dropped>>
vars == <<setup, now, window, reloads, suppressor, emitting, sinks, closing, cancelled>>

-----------------------------------------------------------------------------
Sinks == setup.sinks
Windows == setup.windows
Idle == [id |-> 0, try |-> 0, at |-> "idle"]

Init ==
  /\ setup \in Setups
  /\ now = 0 /\ window \in Windows /\ reloads = 0
  /\ seen = <<>> /\ suppressed = 0
  /\ raised = 0 /\ passed = 0 /\ told = 0 /\ forgot = 0 /\ spoken = [k \in Keys |-> 0]
  /\ emitting = {}
  /\ queue = [s \in Sinks |-> <<>>] /\ busy = [s \in Sinks |-> Idle]
  /\ sent = [s \in Sinks |-> {}] /\ failed = [s \in Sinks |-> {}] /\ dropped = [s \in Sinks |-> {}]
  /\ closing = "open" /\ cancelled = FALSE

-----------------------------------------------------------------------------
(* The suppressor.                                                         *)

Live(k) == now < seen[k].until
Expired == {k \in DOMAIN seen : ~Live(k)}
\* The repeats that the entries of ks hold, each counted as a key and a number.
Held(ks) == Cardinality({p \in ks \X (1..MaxRaises) : p[2] <= seen[p[1]].held})
\* The eviction of a full table: every expired entry goes.
Evicted == IF Cardinality(DOMAIN seen) >= MaxKeys THEN Expired ELSE {}
\* The entry of a repeat that is held back: its count grows and its window stays where it was.
HeldSliding(e) == [until |-> now + window, held |-> e.held + 1]
HeldBackUncounted(e) == e
HeldBack(e) == [e EXCEPT !.held = @ + 1]

Put(f, k, e) == [j \in DOMAIN f \cup {k} |-> IF j = k THEN e ELSE f[j]]
Fresh == [until |-> now + window, held |-> 0]

Passed(k) ==
  /\ passed' = passed + 1
  /\ emitting' = IF Sinks = {} THEN emitting ELSE emitting \cup {passed + 1}  \* no sink: no hook
  /\ spoken' = IF window = 0 THEN spoken ELSE [spoken EXCEPT ![k] = now + window]
  /\ UNCHANGED suppressed

\* A repeat inside the window.
AllowNot(k) ==
  /\ window > 0 /\ k \in DOMAIN seen /\ Live(k)
  /\ seen' = [seen EXCEPT ![k] = HeldBack(@)]
  /\ suppressed' = suppressed + 1
  /\ UNCHANGED <<passed, emitting, spoken, told, forgot>>

\* The first after the window: it says how many it stood in for.
AllowAgain(k) ==
  /\ window > 0 /\ k \in DOMAIN seen /\ ~Live(k)
  /\ told' = told + seen[k].held
  /\ seen' = [seen EXCEPT ![k] = Fresh]
  /\ Passed(k) /\ UNCHANGED forgot

\* A key that is not held: recorded if there is room, let through unrecorded if there is not.
AllowNew(k) ==
  /\ window > 0 /\ k \notin DOMAIN seen
  /\ LET kept == DOMAIN seen \ Evicted
         rest == [j \in kept |-> seen[j]]
     IN  seen' = IF Cardinality(kept) >= MaxKeys THEN rest ELSE Put(rest, k, Fresh)
  /\ forgot' = forgot + Held(Evicted)
  /\ Passed(k) /\ UNCHANGED told

AllowAll(k) == window = 0 /\ Passed(k) /\ UNCHANGED <<seen, told, forgot>>

raise(k) ==
  /\ raised < setup.raises
  /\ raised' = raised + 1
  /\ AllowNot(k) \/ AllowAgain(k) \/ AllowNew(k) \/ AllowAll(k)
  /\ UNCHANGED <<setup, now, window, reloads, sinks, closing, cancelled>>

\* SIGHUP: the next raise reads the new window, the entries keep theirs.
Reload(w) ==
  /\ reloads < MaxReloads /\ w # window
  /\ reloads' = reloads + 1 /\ window' = w
  /\ UNCHANGED <<setup, now, suppressor, emitting, sinks, closing, cancelled>>

Tick ==
  /\ now < MaxNow /\ Windows # {0}   \* only a window looks at the clock
  /\ now' = now + 1
  /\ UNCHANGED <<setup, window, reloads, suppressor, emitting, sinks, closing, cancelled>>

-----------------------------------------------------------------------------
(* The dispatcher.                                                         *)

FullNever(s) == Len(queue[s]) > QueueSize
Full(s) == Len(queue[s]) >= QueueSize
Emit(e) ==
  /\ e \in emitting
  /\ emitting' = emitting \ {e}
  /\ IF closing # "open"
     THEN UNCHANGED <<queue, dropped>>
     ELSE /\ queue' = [s \in Sinks |-> IF Full(s) THEN queue[s] ELSE Append(queue[s], e)]
          /\ dropped' = [s \in Sinks |-> IF Full(s) THEN dropped[s] \cup {e} ELSE dropped[s]]
  /\ UNCHANGED <<setup, now, window, reloads, suppressor, busy, sent, failed, closing, cancelled>>

\* run: the worker takes the next of its queue.
Take(s) ==
  /\ busy[s] = Idle /\ queue[s] # <<>>
  /\ busy' = [busy EXCEPT ![s] = [id |-> Head(queue[s]), try |-> 1, at |-> "post"]]
  /\ queue' = [queue EXCEPT ![s] = Tail(@)]
  /\ UNCHANGED <<setup, now, window, reloads, suppressor, emitting, sent, failed, dropped, closing, cancelled>>

Sent(s) == sent' = [sent EXCEPT ![s] = @ \cup {busy[s].id}] /\ UNCHANGED failed
FailedUncounted(s) == UNCHANGED <<sent, failed>>
Failed(s) == failed' = [failed EXCEPT ![s] = @ \cup {busy[s].id}] /\ UNCHANGED sent
Sending(s, at) == busy[s].at = at /\ UNCHANGED <<setup, now, window, reloads, suppressor, emitting,
                                                 queue, dropped, closing, cancelled>>

\* The answer is a success, or final: any other status, or an error with the context gone.  A request may
\* have been answered just before its context went.
PostDone(s) ==
  /\ Sending(s, "post")
  /\ busy' = [busy EXCEPT ![s] = Idle]
  /\ Sent(s) \/ Failed(s)

\* A network error, a 429 or a 5xx: there is another attempt unless this was the last.
PostRetry(s) ==
  /\ Sending(s, "post") /\ s \in Webhooks
  /\ IF busy[s].try < Tries
     THEN busy' = [busy EXCEPT ![s].at = "pause"] /\ UNCHANGED <<sent, failed>>
     ELSE busy' = [busy EXCEPT ![s] = Idle] /\ Failed(s)

PauseOverSameTry(s) ==
  /\ Sending(s, "pause")
  /\ busy' = [busy EXCEPT ![s].at = "post"]
  /\ UNCHANGED <<sent, failed>>
PauseOver(s) ==
  /\ Sending(s, "pause")
  /\ busy' = [busy EXCEPT ![s] = [id |-> @.id, try |-> @.try + 1, at |-> "post"]]
  /\ UNCHANGED <<sent, failed>>

PauseCut(s) ==
  /\ Sending(s, "pause") /\ cancelled
  /\ busy' = [busy EXCEPT ![s] = Idle]
  /\ Failed(s)

-----------------------------------------------------------------------------
(* Close: no more is accepted, the queues get a grace to drain, then the   *)
(* context is cancelled, and either way the workers are waited for.        *)

Drained == \A s \in Sinks : queue[s] = <<>> /\ busy[s] = Idle

Close ==
  /\ closing = "open"
  /\ closing' = "draining"
  /\ UNCHANGED <<setup, now, window, reloads, suppressor, emitting, sinks, cancelled>>

GraceOver ==
  /\ closing = "draining" /\ ~Drained
  /\ closing' = "cutting" /\ cancelled' = TRUE
  /\ UNCHANGED <<setup, now, window, reloads, suppressor, emitting, sinks>>

ClosedAtOnce ==
  /\ closing \in {"draining", "cutting"}
  /\ closing = "draining" => Drained
  /\ closing' = "closed" /\ cancelled' = TRUE
  /\ UNCHANGED <<setup, now, window, reloads, suppressor, emitting, sinks>>
Closed ==
  /\ closing \in {"draining", "cutting"} /\ Drained
  /\ closing' = "closed" /\ cancelled' = TRUE
  /\ UNCHANGED <<setup, now, window, reloads, suppressor, emitting, sinks>>

Work(s) == Take(s) \/ PostDone(s) \/ PostRetry(s) \/ PauseOver(s) \/ PauseCut(s)

Next ==
  \/ \E k \in Keys : raise(k)
  \/ \E w \in Windows : Reload(w)
  \/ Tick
  \/ \E e \in emitting : Emit(e)
  \/ \E s \in Sinks : Work(s)
  \/ Close \/ GraceOver \/ Closed

Spec == Init /\ [][Next]_vars

\* Hooks and workers are goroutines that never block for good: a request has a timeout of five seconds and
\* a pause a timer.  Nothing makes a rule fire, the clock tick or a person stop the daemon.
FairSpec ==
  /\ Spec
  /\ \A s \in Webhooks \cup Locals : WF_vars(s \in Sinks /\ Work(s))
  /\ WF_vars(\E e \in emitting : Emit(e))
  /\ WF_vars(Closed)

-----------------------------------------------------------------------------
(* Properties.                                                             *)

\* The variables keep their types; the suppression table stays within its bound whatever keys a guest makes
\* up (suppress.go:8), and a queue within its own.
TypeOK ==
  /\ setup \in Setups /\ now \in 0..MaxNow /\ window \in Windows /\ reloads \in 0..MaxReloads
  /\ DOMAIN seen \subseteq Keys /\ Cardinality(DOMAIN seen) <= MaxKeys
  /\ \A k \in DOMAIN seen : seen[k].until \in Nat /\ seen[k].held \in 0..MaxRaises
  /\ {suppressed, raised, passed, told, forgot} \subseteq 0..MaxRaises
  /\ emitting \subseteq 1..MaxRaises
  /\ \A s \in Sinks : /\ Len(queue[s]) <= QueueSize
                      /\ busy[s].id \in 0..MaxRaises /\ busy[s].try \in 0..Tries
                      /\ busy[s].at \in {"idle", "post", "pause"}
                      /\ sent[s] \cup failed[s] \cup dropped[s] \subseteq 1..MaxRaises
  /\ closing \in {"open", "draining", "cutting", "closed"} /\ cancelled \in BOOLEAN

\* A detection is held back only behind one of the same key that was let through and still speaks for it:
\* no window slides on its own repeats, survives an eviction or is inherited by another key (suppress.go:17).
HeldBehindAnAlert ==
  [][\A k \in Keys : AllowNot(k) => now < spoken[k]]_vars

\* No repeat is lost from the books: every detection is an alert or is counted as suppressed, and every one
\* of those is told by a later alert, still held, or went with an expired entry (suppress.go:50).
RepeatsAccounted ==
  /\ raised = passed + suppressed
  /\ suppressed = told + forgot + Held(DOMAIN seen)

\* For each sink an alert has one fate at a time (sink.go:1-4): while the dispatcher is open every alert that
\* was emitted is in its queue, in its worker's hands, or counted once as sent, failed or dropped.
InHand(s) == ToSet(queue[s]) \cup ({busy[s].id} \ {0})
Fates(s) == <<InHand(s), sent[s], failed[s], dropped[s]>>
AlertsAccounted ==
  \A s \in Sinks :
    /\ \A i, j \in 1..4 : i # j => Fates(s)[i] \cap Fates(s)[j] = {}
    /\ closing = "open" /\ Sinks # {} => UNION Range(Fates(s)) = (1..passed) \ emitting

\* Once Close has returned no worker holds an alert, so no sink is used after it is closed (sink.go:116).
QuietAfterClose == closing = "closed" => Drained

\* Every alert a sink accepted ends as sent or as failed, in a bounded number of attempts.
AlertsSettle ==
  \A s \in Webhooks \cup Locals : \A e \in 1..MaxRaises :
    (s \in Sinks /\ e \in InHand(s)) ~> (s \in Sinks /\ e \in sent[s] \cup failed[s])

\* Close returns, also with a webhook that keeps failing: past the grace it cancels the retries (sink.go:120).
CloseReturns == closing = "draining" ~> closing = "closed"

\* Nothing is lost from the books of the suppressor or of a sink, up to and after Close.
Accounted == TypeOK /\ RepeatsAccounted /\ AlertsAccounted /\ QuietAfterClose

\* What was accepted comes to an end, and so does the dispatcher.
Settles == AlertsSettle /\ CloseReturns

=============================================================================
