------------------------------ MODULE Response ------------------------------
(***************************************************************************)
(* The response engine (src/internal/response/response.go) on top of       *)
(* Isolation: what is done when a detection fires.  One goroutine (Run)    *)
(* takes detections from a queue and lets timers run out; each approval or *)
(* rejection is a goroutine of its own.  The engine's mutex is let go      *)
(* between looking at an action, carrying it out and writing it down, and  *)
(* those are the steps here.                                               *)
(***************************************************************************)
EXTENDS Isolation, Sequences, FiniteSetsExt

CONSTANTS
  Run,           \* the goroutine of Engine.Run
  Handlers,      \* the goroutines of the API: each answers an approve, reject, isolate or release at a time
  Responses,     \* the names of responses
  ModeOf,        \* per response: "propose", "enforce" or "dry_run"
  Rules,         \* the rules files a reload may bring: the responses in it and who is protected
  Cooldown, Expire, ReleaseAfter,  \* of every response, in clock ticks (ReleaseAfter 0 is none)
  Hour, MaxPerHour,                \* the window and the cap of automatic isolations
  QueueSize,     \* detections that may wait (queueSize)
  KeepActions,   \* actions kept in memory (maxActions)
  MaxTime,       \* bound: the clock stops here
  MaxActions,    \* bound: actions ever made
  MaxDetections, \* bound: detections ever fired
  MaxDecisions,  \* bound: approvals and rejections asked for
  MaxReloads     \* bound: reloads of the rules file

Engines == {Run} \cup Handlers

ASSUME ResponseAssumption ==
  /\ Callers = Engines /\ Run \notin Handlers
  /\ Responses # {} /\ ModeOf \in [Responses -> {"propose", "enforce", "dry_run"}]
  /\ Rules # {} /\ Rules \subseteq [cfg : SUBSET Responses, protected : SUBSET VMs]
  /\ {Cooldown, Expire, ReleaseAfter, Hour, MaxPerHour, QueueSize, MaxTime} \subseteq Nat
  /\ {MaxDetections, MaxDecisions, MaxReloads} \subseteq Nat
  /\ KeepActions \in Nat \ {0} /\ MaxActions \in Nat \ {0}

VARIABLES
  now,        \* the clock
  rules,      \* the rules in force (Engine.cfg and Engine.guard)
  queue,      \* the detections that wait
  acts,       \* per id, the action
  kept,       \* the ids in Engine.actions
  next,       \* the last id given
  cool,       \* per VM and response, when it was last acted on (Engine.last), or Never
  unsaved,    \* the ids whose incident bundle was not saved (Engine.unsaved)
  hourly,     \* the automatic isolations this process counts, by id (Engine.hourly)
  log,        \* per id, the latest record in actions.jsonl
  cut,        \* an append to actions.jsonl failed, or was cut off by a crash
  job,        \* per engine goroutine, what it is doing
  autos,      \* per id, when an automatic isolation was really carried out, or Never
  spent       \* what is used up of the bounds

listVars == <<kept, next, cool, unsaved>>
respVars == <<now, rules, queue, acts, listVars, hourly, log, cut, job, autos, spent>>
allVars == <<isoVars, respVars>>
memVars == <<acts, listVars, hourly, autos>>

-----------------------------------------------------------------------------
(* Values *)

Ids == 1..MaxActions
Never == MaxTime + 1
Times == 0..MaxTime
Timers == 0..(MaxTime + Max({Expire, ReleaseAfter}))
Detections == [vm : VMs, resp : Responses]

Statuses == {"none", "new", "pending", "executed", "executed_audit_degraded", "released", "refused",
             "rejected", "expired", "dry_run"}

\* An action. "none" is an id not given or not on file, "new" the empty status of one being decided.
\* The time of a decision is kept of isolations that were carried out: nothing reads the others.
Actions == [status : Statuses, vm : VMs, resp : Responses, created : Times, decided : Times,
            expires : Timers, releaseAt : Timers]
NoAction == [status |-> "none", vm |-> CHOOSE v \in VMs : TRUE, resp |-> CHOOSE r \in Responses : TRUE,
             created |-> 0, decided |-> 0, expires |-> 0, releaseAt |-> 0]

\* Where a goroutine is: the action it is on, the copy it will write, and what a Tick has left to do.
EngineJobs == [pc : {"idle", "decide", "approved", "execute", "isolating", "record", "tick", "releasing"},
               id : Ids, copy : Actions, timed : BOOLEAN, prot : BOOLEAN, lapsed : SUBSET Ids, due : SUBSET Ids]
IdleJob == [pc |-> "idle", id |-> 1, copy |-> NoAction, timed |-> FALSE, prot |-> FALSE,
            lapsed |-> {}, due |-> {}]

Enforced(st) == st \in {"executed", "executed_audit_degraded"}
Synced == {"executed", "executed_audit_degraded", "released"}

EnginesIdle == \A p \in Engines : job[p].pc = "idle"
Free(p) == up # "down" /\ job[p].pc = "idle" /\ call[p].pc = "idle"
Spend(what, max) == spent[what] < max /\ spent' = [spent EXCEPT ![what] = @ + 1]

Goto(p, pc) == job' = [job EXCEPT ![p].pc = pc]
Finish(p) == job' = [job EXCEPT ![p] = IdleJob]
Decided(id, status) == acts' = [acts EXCEPT ![id].status = status]

-----------------------------------------------------------------------------
(* Writing an action down *)

\* What is appended: the copy the goroutine took under the lock, or the action as it is now.
Written(p) == IF job[p].copy = NoAction THEN acts[job[p].id] ELSE job[p].copy

\* Wrong variant of WriteDown: only what was done to a VM is written.
WriteDownIfDone(id, a) ==
  /\ log' = IF Enforced(a.status) \/ a.status = "released" THEN [log EXCEPT ![id] = a] ELSE log
  /\ UNCHANGED <<acts, cut, faults>>

\* record, and failAudit under it. The append may fail, before the record is in the file or, of the
\* records that are synced, after. An executed action is then degraded, and appended again.
WriteDown(id, a) ==
  \/ log' = [log EXCEPT ![id] = a] /\ UNCHANGED <<acts, cut, faults>>
  \/ /\ Fault
     /\ cut' = TRUE
     /\ \/ a.status # "executed" /\ UNCHANGED <<acts, log>>
        \/ a.status \in Synced /\ a.status # "executed" /\ UNCHANGED acts /\ log' = [log EXCEPT ![id] = a]
        \/ /\ a.status = "executed"
           /\ acts' = [acts EXCEPT ![id].status = "executed_audit_degraded"]
           /\ log' \in {log, [log EXCEPT ![id] = a], [log EXCEPT ![id] = acts'[id]]}

WriteAction(p) ==
  /\ up # "down" /\ job[p].pc = "record"
  /\ WriteDown(job[p].id, Written(p))
  /\ IF job[p].due # {} THEN job' = [job EXCEPT ![p].pc = "tick", ![p].due = @ \ {job[p].id}] ELSE Finish(p)
  /\ UNCHANGED <<lifeVars, tapVars, flag, logVars, call, calls, now, rules, queue, listVars, hourly,
                 autos, spent>>

-----------------------------------------------------------------------------
(* Handle *)

\* Wrong variant of Offered: the queue has no limit.
OfferedAlways(d) == Append(queue, d)

\* A full queue drops what is offered.
Offered(d) == IF Len(queue) < QueueSize THEN Append(queue, d) ELSE queue

\* OnDetection
Detect(v, r) ==
  /\ up # "down"
  /\ Spend("detections", MaxDetections)
  /\ queue' = Offered([vm |-> v, resp |-> r])
  /\ UNCHANGED <<isoVars, now, rules, memVars, log, cut, job>>

\* Wrong variant of LeftAlone: only an isolated VM and the cooldown are looked at.
LeftAloneUnlessPending(v, r) ==
  \/ cool[v][r] # Never /\ now - cool[v][r] < Cooldown
  \/ Active(v)

\* A decision about the VM is waiting, it was acted on lately, or it is isolated already.
LeftAlone(v, r) ==
  \/ \E i \in kept : acts[i].vm = v /\ acts[i].status = "pending"
  \/ cool[v][r] # Never /\ now - cool[v][r] < Cooldown
  \/ Active(v)

\* The newest KeepActions of a set of ids.
Newest(ids) == {i \in ids : Cardinality({j \in ids : j > i}) < KeepActions}

Handle ==
  /\ Free(Run) /\ queue # <<>>
  /\ queue' = Tail(queue)
  /\ LET v == Head(queue).vm
         r == Head(queue).resp
     IN  \/ /\ r \notin rules.cfg \/ LeftAlone(v, r)
            /\ UNCHANGED <<memVars, job, faults>>
         \/ /\ r \in rules.cfg /\ ~LeftAlone(v, r)
            /\ next < MaxActions
            /\ next' = next + 1
            /\ acts' = [acts EXCEPT ![next'] = [NoAction EXCEPT !.status = "new", !.vm = v, !.resp = r,
                                                                !.created = now]]
            /\ \/ UNCHANGED <<unsaved, faults>>
               \/ Fault /\ unsaved' = unsaved \cup {next'}  \* captureBundle did not save the incident
            /\ kept' = Newest(kept \cup {next'})
            /\ cool' = [cool EXCEPT ![v][r] = now]
            /\ job' = [job EXCEPT ![Run] = [IdleJob EXCEPT !.pc = "decide", !.id = next', !.timed = TRUE]]
            /\ UNCHANGED <<hourly, autos>>
  /\ UNCHANGED <<lifeVars, tapVars, flag, logVars, call, calls, now, rules, log, cut, spent>>

\* autoLastHour, for a detection handled at time t
AutoLastHour(t) == {i \in hourly : t - acts[i].decided < Hour}

\* Wrong variant of OverCap: one too many.
OverCapByOne(t) == Cardinality(AutoLastHour(t)) > MaxPerHour

\* As many automatic isolations as an hour may have were carried out.
OverCap(t) == Cardinality(AutoLastHour(t)) >= MaxPerHour

\* The guardrails, in their order, and then the response's mode.
Decide ==
  /\ up # "down" /\ job[Run].pc = "decide"
  /\ LET id == job[Run].id
         a == acts[id]
         mode == ModeOf[a.resp]
         refused == \/ a.vm \in rules.protected
                    \/ mode # "dry_run" /\ ~avail
                    \/ mode = "enforce" /\ OverCap(a.created)
     IN  \/ refused /\ Decided(id, "refused") /\ Goto(Run, "record")
         \/ ~refused /\ mode = "dry_run" /\ Decided(id, "dry_run") /\ Goto(Run, "record")
         \/ ~refused /\ mode = "enforce" /\ UNCHANGED acts /\ Goto(Run, "execute")
         \/ /\ ~refused /\ mode = "propose"
            /\ acts' = [acts EXCEPT ![id].status = "pending", ![id].expires = a.created + Expire]
            /\ Goto(Run, "record")
  /\ UNCHANGED <<isoVars, now, rules, queue, listVars, hourly, log, cut, autos, spent>>

-----------------------------------------------------------------------------
(* execute, for Handle and for Approve *)

ExecuteBegin(p) ==
  /\ job[p].pc = "execute"
  /\ Begin(p, "isolate", acts[job[p].id].vm) /\ UNCHANGED calls
  /\ Goto(p, "isolating")
  /\ UNCHANGED <<now, rules, queue, memVars, log, cut, spent>>

\* The isolate request has answered. An automatic one counts against the cap.
ExecuteEnd(p) ==
  /\ up # "down" /\ job[p].pc = "isolating" /\ call[p].pc = "ret"
  /\ LET id == job[p].id
         status == IF id \in unsaved THEN "executed_audit_degraded" ELSE "executed"
     IN  \/ /\ call[p].result = "applied"
            /\ acts' = [acts EXCEPT ![id].status = status, ![id].decided = now,
                          ![id].releaseAt = IF job[p].timed /\ ReleaseAfter > 0 THEN now + ReleaseAfter ELSE @]
            /\ IF p = Run THEN hourly' = hourly \cup {id} /\ autos' = [autos EXCEPT ![id] = now]
                          ELSE UNCHANGED <<hourly, autos>>
         \/ /\ call[p].result # "applied"
            /\ Decided(id, "refused")
            /\ UNCHANGED <<hourly, autos>>
  /\ call' = [call EXCEPT ![p] = IdleCall]
  /\ Goto(p, "record")
  /\ UNCHANGED <<lifeVars, tapVars, flag, logVars, calls, faults, now, rules, queue, listVars, log, cut,
                 spent>>

-----------------------------------------------------------------------------
(* Approve and Reject *)

Waiting(id) == id \in kept /\ acts[id].status = "pending"

\* A goroutine of the API that decides an action at once, and then writes a copy of it.
Settle(p, id, status) ==
  /\ Decided(id, status)
  /\ job' = [job EXCEPT ![p] = [IdleJob EXCEPT !.pc = "record", !.id = id, !.copy = acts'[id]]]

\* Approve, up to where it lets the mutex go for the first time. A proposal that has lapsed expires. A
\* response that is no longer in the rules has no release time.
Approve(p, id) ==
  /\ Free(p) /\ up = "up" /\ Waiting(id)
  /\ Spend("decisions", MaxDecisions)
  /\ \/ now > acts[id].expires /\ Settle(p, id, "expired")
     \/ /\ now <= acts[id].expires
        /\ job' = [job EXCEPT ![p] = [IdleJob EXCEPT !.pc = "approved", !.id = id,
                                                     !.timed = acts[id].resp \in rules.cfg,
                                                     !.prot = acts[id].vm \in rules.protected]]
        /\ UNCHANGED acts
  /\ UNCHANGED <<isoVars, now, rules, queue, listVars, hourly, log, cut, autos>>

\* The guardrails are checked again, and nothing else is: not that the action still waits.
ApproveCheck(p) ==
  /\ up # "down" /\ job[p].pc = "approved"
  /\ LET id == job[p].id
         held == job[p].prot \/ Active(acts[id].vm)
     IN  \/ ~held /\ Goto(p, "execute") /\ UNCHANGED acts
         \/ held /\ Settle(p, id, "refused")
  /\ UNCHANGED <<isoVars, now, rules, queue, listVars, hourly, log, cut, autos, spent>>

Reject(p, id) ==
  /\ Free(p) /\ up = "up" /\ Waiting(id)
  /\ Spend("decisions", MaxDecisions)
  /\ Settle(p, id, "rejected")
  /\ UNCHANGED <<isoVars, now, rules, queue, listVars, hourly, log, cut, autos>>

-----------------------------------------------------------------------------
(* Tick *)

\* Wrong variant of Lapsed: a proposal lapses only while its response is in the rules.
LapsedIfInRules(id) == acts[id].status = "pending" /\ now > acts[id].expires /\ acts[id].resp \in rules.cfg

Lapsed(id) == acts[id].status = "pending" /\ now > acts[id].expires

\* Wrong variant of ReleaseDue: a degraded action is not released.
ReleaseDueIfExecuted(id) ==
  acts[id].status = "executed" /\ acts[id].releaseAt # 0 /\ now >= acts[id].releaseAt

ReleaseDue(id) == Enforced(acts[id].status) /\ acts[id].releaseAt # 0 /\ now >= acts[id].releaseAt

\* Every five seconds. A Tick with nothing to do is no step.
Tick ==
  /\ Free(Run)
  /\ LET lapsed == {i \in kept : Lapsed(i)}
         due == {i \in kept : ReleaseDue(i)}
     IN  /\ lapsed \cup due # {}
         /\ acts' = [i \in Ids |-> IF i \in lapsed
                                   THEN [acts[i] EXCEPT !.status = "expired"] ELSE acts[i]]
         /\ job' = [job EXCEPT ![Run] = [IdleJob EXCEPT !.pc = "tick", !.lapsed = lapsed, !.due = due]]
  /\ UNCHANGED <<isoVars, now, rules, queue, listVars, hourly, log, cut, autos, spent>>

TickLapsed(id) ==
  /\ up # "down" /\ job[Run].pc = "tick" /\ id \in job[Run].lapsed
  /\ WriteDown(id, acts[id])
  /\ job' = [job EXCEPT ![Run].lapsed = @ \ {id}]
  /\ UNCHANGED <<lifeVars, tapVars, flag, logVars, call, calls, now, rules, queue, listVars, hourly,
                 autos, spent>>

TickRelease(id) ==
  /\ job[Run].pc = "tick" /\ job[Run].lapsed = {} /\ id \in job[Run].due
  /\ Begin(Run, "release", acts[id].vm) /\ UNCHANGED calls
  /\ job' = [job EXCEPT ![Run].pc = "releasing", ![Run].id = id]
  /\ UNCHANGED <<now, rules, queue, memVars, log, cut, spent>>

\* The release has answered. Whatever it said, the action is released.
TickReleased ==
  /\ up # "down" /\ job[Run].pc = "releasing" /\ call[Run].pc = "ret"
  /\ acts' = [acts EXCEPT ![job[Run].id].status = "released"]
  /\ call' = [call EXCEPT ![Run] = IdleCall]
  /\ Goto(Run, "record")
  /\ UNCHANGED <<lifeVars, tapVars, flag, logVars, calls, faults, now, rules, queue, listVars, hourly,
                 log, cut, autos, spent>>

TickDone ==
  /\ job[Run].pc = "tick" /\ job[Run].lapsed = {} /\ job[Run].due = {}
  /\ Finish(Run)
  /\ UNCHANGED <<isoVars, now, rules, queue, memVars, log, cut, spent>>

-----------------------------------------------------------------------------
(* The clock, the rules file, and the daemon's life *)

Clock ==
  /\ now < MaxTime
  /\ now' = now + 1
  /\ UNCHANGED <<isoVars, rules, queue, memVars, log, cut, job, spent>>

\* SetConfig, on a reload or with the next start.
Reload ==
  /\ up \in {"up", "down"}
  /\ Spend("reloads", MaxReloads)
  /\ rules' \in Rules \ {rules}
  /\ UNCHANGED <<isoVars, now, queue, memVars, log, cut, job>>

\* The ids in actions.jsonl, of which the last record is the truth.
OnFile == {i \in Ids : log[i].status # "none"}

\* The automatic isolations a restarted engine counts.
Counted(i) ==
  Enforced(log[i].status) /\ ModeOf[log[i].resp] = "enforce" /\ now - log[i].decided < Hour

\* Wrong variant of RestoredNext: ids start again with the process.
RestoredNextZero == 0

RestoredNext == Max(OnFile \cup {0})

RestoredCool(v, r) ==
  LET mine == {i \in OnFile : log[i].vm = v /\ log[i].resp = r}
  IN  IF mine = {} THEN Never ELSE log[Max(mine)].created

Restore ==
  /\ acts' = log
  /\ kept' = Newest(OnFile)
  /\ next' = RestoredNext /\ unsaved' = {}
  /\ cool' = [v \in VMs |-> [r \in Responses |-> RestoredCool(v, r)]]
  /\ hourly' = {i \in OnFile : Counted(i)}
  /\ UNCHANGED <<now, rules, queue, log, cut, job, autos, spent>>

\* What the engine had in memory is gone. An action that was being written never will be.
EngineForgets ==
  /\ queue' = <<>>
  /\ acts' = [i \in Ids |-> NoAction] /\ kept' = {} /\ next' = 0 /\ unsaved' = {} /\ hourly' = {}
  /\ cool' = [v \in VMs |-> [r \in Responses |-> Never]]
  /\ cut' = (cut \/ ~EnginesIdle)
  /\ job' = [p \in Engines |-> IdleJob]
  /\ UNCHANGED <<now, rules, log, autos, spent>>

EngineLife ==
  \/ (Crash \/ Exit) /\ EngineForgets
  \/ Start /\ Restore
  \/ (ShutdownTaps \/ DetachAll) /\ UNCHANGED respVars

-----------------------------------------------------------------------------
Init ==
  /\ IsoInit
  /\ now = 0 /\ rules \in Rules /\ queue = <<>>
  /\ acts = [i \in Ids |-> NoAction] /\ kept = {} /\ next = 0 /\ unsaved = {} /\ hourly = {}
  /\ cool = [v \in VMs |-> [r \in Responses |-> Never]]
  /\ log = [i \in Ids |-> NoAction] /\ cut = FALSE
  /\ job = [p \in Engines |-> IdleJob]
  /\ autos = [i \in Ids |-> Never]
  /\ spent = [detections |-> 0, decisions |-> 0, reloads |-> 0]

\* What a goroutine of the engine does once it has something to do.
EngineStep(p) == ExecuteBegin(p) \/ ExecuteEnd(p) \/ WriteAction(p)

RunStep ==
  \/ Handle \/ Decide \/ EngineStep(Run)
  \/ Tick \/ (\E id \in Ids : TickLapsed(id) \/ TickRelease(id)) \/ TickReleased \/ TickDone

HandlerStep(p) == ApproveCheck(p) \/ EngineStep(p)

\* Isolation goes on around the engine.
Around ==
  /\ \/ \E p \in Handlers : job[p].pc = "idle" /\ (Ask(p) \/ Answer(p))
     \/ \E p \in Callers : CallStep(p)
     \/ Refresh \/ ScanFails \/ Host
  /\ UNCHANGED respVars

Next ==
  \/ \E v \in VMs, r \in Responses : Detect(v, r)
  \/ RunStep
  \/ \E p \in Handlers : HandlerStep(p) \/ \E id \in Ids : Approve(p, id) \/ Reject(p, id)
  \/ Clock \/ Reload \/ Around \/ EngineLife

Spec == Init /\ [][Next]_allVars

\* The clock runs, Run takes what waits and ticks, a request that was begun goes on, Refresh runs, and
\* the service manager starts the daemon again.
Fairness ==
  /\ WF_allVars(Clock) /\ WF_allVars(RunStep)
  /\ \A p \in Handlers : WF_allVars(HandlerStep(p))
  /\ \A p \in Callers : WF_allVars((CallStep(p) \/ (job[p].pc = "idle" /\ Answer(p))) /\ UNCHANGED respVars)
  /\ WF_allVars(Refresh /\ UNCHANGED respVars)
  /\ WF_allVars(Exit /\ EngineForgets) /\ WF_allVars(Start /\ Restore)

FairSpec == Spec /\ Fairness

-----------------------------------------------------------------------------
(* Properties *)

\* Every variable has its shape, the queue and the list of actions within their limits.
TypeOK ==
  /\ IsoTypeOK
  /\ now \in Times /\ rules \in Rules /\ queue \in Seq(Detections) /\ Len(queue) <= QueueSize
  /\ acts \in [Ids -> Actions] /\ log \in [Ids -> Actions]
  /\ kept \subseteq Ids /\ Cardinality(kept) <= KeepActions /\ next \in Ids \cup {0}
  /\ unsaved \subseteq Ids /\ hourly \subseteq Ids
  /\ cool \in [VMs -> [Responses -> Times \cup {Never}]] /\ cut \in BOOLEAN
  /\ job \in [Engines -> EngineJobs] /\ autos \in [Ids -> Times \cup {Never}]
  /\ spent \in [detections : 0..MaxDetections, decisions : 0..MaxDecisions, reloads : 0..MaxReloads]

\* "A VM with a proposal waiting gets no second one", however decisions and restarts fall, unless a
\* record was lost.
OnePending ==
  ~cut => \A i, j \in kept : acts[i].status = "pending" /\ acts[j].status = "pending" /\ acts[i].vm = acts[j].vm
            => i = j

\* "At most this many isolations carried out automatically in a rolling hour", "and survives a restart",
\* unless a record was lost.
CapHolds == ~cut => Cardinality({i \in Ids : autos[i] # Never /\ now - autos[i] < Hour}) <= MaxPerHour

\* An id on file stays the id of the action it was given to, also after a restart.
IdsAreForever ==
  [][\A i \in Ids : log[i].status # "none" =>
       /\ log'[i].vm = log[i].vm /\ log'[i].resp = log[i].resp /\ log'[i].created = log[i].created]_allVars

\* While nothing is being decided or written, the file has every action the engine holds as it is:
\* status, expiry and release time survive a restart.
ActionsSaved ==
  up # "down" /\ EnginesIdle /\ ~cut => \A i \in kept : log[i] = acts[i]

\* "Reject declines a proposal. Nothing is done to the VM": an action that was rejected is not carried out.
RejectedStays == [][\A i \in Ids : acts[i].status = "rejected" => ~Enforced(acts'[i].status)]_allVars

\* A timer of an action on file that runs out while the clock still runs.
Timed(i) == Enforced(log[i].status) /\ log[i].releaseAt \in 1..MaxTime

\* A proposal on file does not wait for ever: it is decided or lapses, also over restarts.
ProposalsEnd ==
  \A i \in Ids : log[i].status = "pending" /\ log[i].expires < MaxTime
                 ~> up = "up" /\ acts[i].status # "pending"

\* An isolation on file that releases itself does: its timer survives restarts, and is not forgotten.
ReleasedInTime == \A i \in Ids : Timed(i) ~> up = "up" /\ ~Enforced(acts[i].status)

\* Every timer on file runs out, of proposals and of isolations, over restarts, reloads and failed appends.
TimersEnd == ProposalsEnd /\ ReleasedInTime

=============================================================================
