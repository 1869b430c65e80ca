--------------------------- MODULE ResponseProofs ---------------------------
(***************************************************************************)
(* Proofs about Isolation, alone and under the response engine: its types, *)
(* that a stop, a crash or a Refresh never reopens a VM, and that the file *)
(* agrees with the daemon's records.                                       *)
(*                                                                         *)
(* Then about Response.  Every step of the engine, and everything of       *)
(* Isolation that goes on around it, is one of eight kinds of change of    *)
(* the actions, the file and the goroutines (EngineSteps); each            *)
(* invariant is then shown to survive each kind.  The types, the ids, and  *)
(* one proposal per VM hold as they are.  That the file at rest is the     *)
(* engine's list needs a single handler; the hourly cap needs isolations   *)
(* that do not release themselves.                                         *)
(***************************************************************************)
EXTENDS Response, FiniteSetTheorems, WellFoundedInduction, TLAPS

-----------------------------------------------------------------------------
(* Isolation.                                                              *)

\* The response engine begins calls that nobody asked for, and its failed appends count as faults.
EngineUse ==
  \/ \E p \in Callers, a \in Acts, v \in VMs : Begin(p, a, v) /\ UNCHANGED calls
  \/ Fault /\ UNCHANGED <<lifeVars, tapVars, flag, logVars, call, calls>>

\* A step of Isolation on its own or under the response engine.
IsoStep == IsoNext \/ EngineUse

\* The constant values have their types.
LEMMA IsoValues ==
  /\ NoRecord \in Records /\ IdleCall \in Calls /\ (CHOOSE v \in VMs : TRUE) \in VMs
  /\ IdleRefresh \in [pc : {"idle", "scanned", "synced", "reapply"}, todo : SUBSET Taps]
  /\ \A v \in VMs : TapsOf(v) \in SUBSET Taps
<1>1. (CHOOSE v \in VMs : TRUE) \in VMs
  BY IsolationAssumption
<1> QED BY <1>1 DEF NoRecord, Records, IdleCall, Calls, Acts, Results, IdleRefresh, TapsOf

\* The bounded counters stay within their bounds.
LEMMA IsoCounters ==
  ASSUME IsoTypeOK
  PROVE  (Fault => faults' \in 0..MaxFaults) /\ (Request => calls' \in 0..MaxCalls)
  BY IsolationAssumption DEF IsoTypeOK, Fault, Request

\* What came of a call is a result.
LEMMA ResultType == \A c \in Calls : ResultOf(c) \in Results
  BY DEF ResultOf, Results

\* A step of a call keeps the types.
LEMMA CallType ==
  ASSUME IsoTypeOK, NEW p \in Callers, Ask(p) \/ CallStep(p) \/ Answer(p)
  PROVE  IsoTypeOK'
<1> USE DEF IsoTypeOK, lifeVars, tapVars, logVars
<1>0. call[p] \in Calls /\ call[p].vm \in VMs /\ call[p].act \in Acts /\ call[p].result \in Results
  BY DEF Calls
<1>1. CASE Ask(p)
  <2>1. PICK a \in Acts, v \in VMs : Begin(p, a, v)
    BY <1>1 DEF Ask
  <2>2. call' \in [Callers -> Calls]
    BY <2>1, IsoValues DEF Begin, Calls, Acts, Results
  <2> QED BY <1>1, <2>1, <2>2, IsoCounters DEF Ask, Begin
<1>2. ASSUME NEW t \in Taps, TakeTap(p, t) PROVE IsoTypeOK'
  <2>1. call' \in [Callers -> Calls]
    BY <1>0, <1>2 DEF TakeTap, Calls
  <2>2. flag' \in [Taps -> BOOLEAN]
    BY <1>2 DEF TakeTap
  <2> QED BY <1>2, <2>1, <2>2, IsoCounters DEF TakeTap
<1>3. CASE Record(p)
  <2>1. ResultOf(call[p]) \in Results
    BY <1>0, ResultType
  <2>2. [act |-> call[p].act, result |-> ResultOf(call[p])] \in Records
    BY <1>0, <2>1 DEF Records
  <2>3. call' \in [Callers -> Calls] /\ last' \in [VMs -> Records]
    BY <1>0, <1>3, <2>1, <2>2 DEF Record, Calls
  <2> QED BY <1>3, <2>3 DEF Record
<1>4. CASE SaveRecord(p)
  <2>1. [act |-> call[p].act, result |-> call[p].result] \in Records
    BY <1>0 DEF Records
  <2>2. call' \in [Callers -> Calls] /\ file' \in [VMs -> Records]
    BY <1>0, <1>4, <2>1 DEF SaveRecord, AppendRecord, Calls
  <2> QED BY <1>4, <2>2, IsoCounters DEF SaveRecord
<1>5. CASE Answer(p)
  BY <1>5, IsoValues DEF Answer
<1> QED BY <1>1, <1>2, <1>3, <1>4, <1>5 DEF CallStep

\* So does a step of Refresh, of the host and of the daemon's life.
LEMMA LifeType ==
  ASSUME IsoTypeOK, Refresh \/ ScanFails \/ Host \/ Life
  PROVE  IsoTypeOK'
<1> USE IsoValues, IsoCounters DEF IsoTypeOK, lifeVars, tapVars, logVars
<1>1. CASE ScanVMs
  BY <1>1 DEF ScanVMs
<1>2. CASE SyncTaps
  <2>1. PICK linked \in SUBSET Taps :
          /\ link' = [t \in Taps |-> IF t \in linked THEN "live" ELSE "none"]
          /\ flag' = [t \in Taps |-> t \in linked /\ flag[t]]
    BY <1>2 DEF SyncTaps
  <2>2. link' \in [Taps -> {"none", "live", "stale"}] /\ flag' \in [Taps -> BOOLEAN]
    BY <2>1
  <2>3. faults' \in 0..MaxFaults
    BY <1>2 DEF SyncTaps
  <2> QED BY <1>2, <2>2, <2>3 DEF SyncTaps
<1>3. CASE ReapplyStart
  BY <1>3 DEF ReapplyStart, Reapplied
<1>4. ASSUME NEW t \in Taps, ReapplyTap(t) PROVE IsoTypeOK'
  BY <1>4 DEF ReapplyTap
<1>5. CASE ReapplyDone
  BY <1>5 DEF ReapplyDone
<1>6. CASE ScanFails
  BY <1>6 DEF ScanFails
<1>7. ASSUME NEW v \in VMs, VMStops(v) \/ VMStarts(v) PROVE IsoTypeOK'
  BY <1>7 DEF VMStops, VMStarts
<1>8. CASE Crash \/ Exit
  <2>1. call' \in [Callers -> Calls] /\ last' \in [VMs -> Records] /\ link' \in [Taps -> {"none", "live", "stale"}]
    BY <1>8 DEF Crash, Exit, Forget
  <2>2. flag' \in [Taps -> BOOLEAN]
    BY <1>8, IsolationAssumption DEF Crash, Exit
  <2>3. lost' \in BOOLEAN
    BY <1>8 DEF Crash, Exit, Forget
  <2>4. /\ up' = "down" /\ scan' = {} /\ refresh' = IdleRefresh /\ faults' \in 0..MaxFaults
        /\ UNCHANGED <<avail, running, file, calls>>
    BY <1>8 DEF Crash, Exit, Forget
  <2> QED BY <2>1, <2>2, <2>3, <2>4
<1>9. CASE ShutdownTaps
  BY <1>9, IsolationAssumption DEF ShutdownTaps, KeptAtStop
<1>10. CASE Start
  BY <1>10, IsolationAssumption DEF Start
<1>11. CASE DetachAll
  <2>1. file' \in [VMs -> Records]
    BY <1>11 DEF DetachAll, Records, Acts, Results
  <2> QED BY <1>11, <2>1 DEF DetachAll
<1> QED BY <1>1, <1>2, <1>3, <1>4, <1>5, <1>6, <1>7, <1>8, <1>9, <1>10, <1>11 DEF Refresh, Host, Life

LEMMA UseType == ASSUME IsoTypeOK, EngineUse PROVE IsoTypeOK'
<1> USE DEF IsoTypeOK, lifeVars, tapVars, logVars
<1>1. ASSUME NEW p \in Callers, NEW a \in Acts, NEW v \in VMs, Begin(p, a, v), UNCHANGED calls PROVE IsoTypeOK'
  <2>1. call' \in [Callers -> Calls]
    BY <1>1, IsoValues DEF Begin, Calls, Acts, Results
  <2> QED BY <1>1, <2>1 DEF Begin
<1>2. CASE Fault /\ UNCHANGED <<lifeVars, tapVars, flag, logVars, call, calls>>
  BY <1>2, IsoCounters
<1> QED BY <1>1, <1>2 DEF EngineUse

LEMMA IsoTypeStep == IsoTypeOK /\ [IsoStep]_isoVars => IsoTypeOK'
<1>1. IsoTypeOK /\ UNCHANGED isoVars => IsoTypeOK'
  BY DEF IsoTypeOK, isoVars
<1> QED BY <1>1, CallType, LifeType, UseType DEF IsoStep, IsoNext

LEMMA IsoTypeInit == IsoInit => IsoTypeOK
<1> SUFFICES ASSUME IsoInit PROVE IsoTypeOK
  OBVIOUS
<1>1. call \in [Callers -> Calls] /\ last \in [VMs -> Records] /\ file \in [VMs -> Records]
  BY IsoValues DEF IsoInit
<1>2. link \in [Taps -> {"none", "live", "stale"}] /\ flag \in [Taps -> BOOLEAN]
  BY DEF IsoInit
<1>3. calls \in 0..MaxCalls /\ faults \in 0..MaxFaults
  BY IsolationAssumption DEF IsoInit
<1> QED BY <1>1, <1>2, <1>3, IsoValues DEF IsoInit, IsoTypeOK

\* The types hold in every state the requests, Refresh, the host and the daemon can reach.
THEOREM IsoTypeCorrect == IsoSpec => []IsoTypeOK
  BY IsoTypeInit, IsoTypeStep, PTL DEF IsoSpec, IsoStep

-----------------------------------------------------------------------------
(* A stop does not reopen a VM *)

\* A call sets flags on taps of its own VM only.
OwnTaps == \A p \in Callers : call[p].todo \subseteq TapsOf(call[p].vm)

LEMMA OwnTapsStep == IsoTypeOK /\ OwnTaps /\ [IsoStep]_isoVars => OwnTaps'
<1> USE DEF OwnTaps, lifeVars, tapVars, logVars
<1> SUFFICES ASSUME IsoTypeOK, OwnTaps, [IsoStep]_isoVars PROVE OwnTaps'
  OBVIOUS
<1>0. IdleCall.todo = {} /\ call \in [Callers -> Calls]
  BY DEF IdleCall, IsoTypeOK
<1>1. ASSUME NEW p \in Callers, NEW a \in Acts, NEW v \in VMs, Begin(p, a, v) PROVE OwnTaps'
  <2>1. call'[p].todo \subseteq TapsOf(v) /\ call'[p].vm = v /\ \A q \in Callers \ {p} : call'[q] = call[q]
    BY <1>0, <1>1 DEF Begin
  <2> QED BY <2>1
<1>2. ASSUME NEW p \in Callers, CallStep(p) PROVE OwnTaps'
  <2> DEFINE Narrower == /\ call'[p].todo \subseteq call[p].todo /\ call'[p].vm = call[p].vm
                         /\ \A q \in Callers \ {p} : call'[q] = call[q]
  <2>1. ASSUME NEW t \in Taps, TakeTap(p, t) PROVE Narrower
    <3>1. \/ call' = [call EXCEPT ![p].todo = @ \ {t}, ![p].done = @ \cup {t}]
          \/ call' = [call EXCEPT ![p].todo = @ \ {t}]
      BY <2>1 DEF TakeTap
    <3> QED BY <1>0, <3>1 DEF Calls
  <2>2. ASSUME Record(p) PROVE Narrower
    <3>1. call' = [call EXCEPT ![p].pc = "save", ![p].result = ResultOf(call[p])]
      BY <2>2 DEF Record
    <3> QED BY <1>0, <3>1 DEF Calls
  <2>3. ASSUME SaveRecord(p) PROVE Narrower
    <3>1. call' = [call EXCEPT ![p].pc = "ret"]
      BY <2>3 DEF SaveRecord
    <3> QED BY <1>0, <3>1 DEF Calls
  <2> HIDE DEF Narrower
  <2>4. Narrower
    BY <1>2, <2>1, <2>2, <2>3 DEF CallStep
  <2> QED BY <2>4 DEF Narrower
<1>3. ASSUME NEW p \in Callers, Answer(p) PROVE OwnTaps'
  BY <1>0, <1>3 DEF Answer
<1>4. CASE Refresh \/ ScanFails \/ Host \/ ShutdownTaps \/ Start \/ DetachAll \/ UNCHANGED isoVars
  BY <1>4 DEF Refresh, ScanVMs, SyncTaps, ReapplyStart, ReapplyTap, ReapplyDone, ScanFails, Host, VMStops, VMStarts,
     ShutdownTaps, Start, DetachAll, isoVars
<1>5. CASE Crash \/ Exit
  BY <1>0, <1>5 DEF Crash, Exit, Forget
<1>6. ASSUME NEW p \in Callers, Ask(p) PROVE OwnTaps'
  BY <1>1, <1>6 DEF Ask
<1>7. CASE EngineUse
  BY <1>1, <1>7 DEF EngineUse
<1> QED BY <1>2, <1>3, <1>4, <1>5, <1>6, <1>7 DEF IsoStep, IsoNext, Life

\* Which steps may open a tap that is isolated.
LEMMA ReopenStep ==
  ASSUME IsoTypeOK, OwnTaps, [IsoStep]_isoVars, NEW t \in Taps, Pinned, flag[t], ~flag'[t]
  PROVE  \/ \E p \in Callers : call[p].act = "release" /\ call[p].vm = Owner[t] /\ t \in call[p].todo
         \/ up = "down"
         \/ Owner[t] \notin running' \cap scan
         \/ refresh.pc = "scanned" /\ link[t] # "live"
<1> USE DEF lifeVars, tapVars, logVars
<1>0. flag \in [Taps -> BOOLEAN]
  BY DEF IsoTypeOK
<1>1. ASSUME flag' = flag PROVE FALSE
  BY <1>1
<1>2. ASSUME NEW p \in Callers, NEW s \in Taps, TakeTap(p, s)
      PROVE  call[p].act = "release" /\ call[p].vm = Owner[t] /\ t \in call[p].todo
  <2>1. flag' = [flag EXCEPT ![s] = call[p].act = "isolate"] /\ s \in call[p].todo
    BY <1>1, <1>2 DEF TakeTap
  <2>2. s = t /\ call[p].act # "isolate"
    BY <1>0, <2>1
  <2> QED BY <2>1, <2>2 DEF OwnTaps, TapsOf, IsoTypeOK, Calls, Acts
<1>3. ASSUME SyncTaps PROVE Owner[t] \notin running' \cap scan \/ (refresh.pc = "scanned" /\ link[t] # "live")
  <2>1. PICK unmade \in SUBSET {s \in Taps : Unlinked(s)} :
          flag' = [s \in Taps |-> s \in {u \in Taps : Owner[u] \in scan \cap running} \ unmade /\ flag[s]]
    BY <1>3 DEF SyncTaps
  <2>2. Owner[t] \notin scan \cap running \/ t \in unmade
    BY <2>1
  <2> QED BY <1>3, <2>2 DEF SyncTaps, Unlinked
<1>4. ASSUME NEW s \in Taps, ReapplyTap(s) PROVE FALSE
  <2>1. flag' = flag \/ flag' = [flag EXCEPT ![s] = TRUE]
    BY <1>4 DEF ReapplyTap
  <2> QED BY <1>0, <1>1, <2>1
<1>5. ASSUME NEW v \in VMs, VMStops(v) PROVE Owner[t] \notin running'
  BY <1>5 DEF VMStops
<1>6. CASE Crash \/ Exit
  <2>1. flag' = [s \in Taps |-> Pinned /\ flag[s]]
    BY <1>6 DEF Crash, Exit
  <2> QED BY <2>1
<1>7. CASE ShutdownTaps
  <2>1. flag' = [s \in Taps |-> IF link[s] = "live" THEN Pinned /\ flag[s] ELSE flag[s]]
    BY <1>7 DEF ShutdownTaps, KeptAtStop
  <2> QED BY <2>1
<1>8. CASE DetachAll
  BY <1>8 DEF DetachAll
<1>9. CASE \E p \in Callers : Ask(p) \/ Record(p) \/ SaveRecord(p) \/ Answer(p)
  BY <1>1, <1>9 DEF Ask, Begin, Record, SaveRecord, Answer
<1>10. CASE \/ ScanVMs \/ ReapplyStart \/ ReapplyDone \/ ScanFails \/ Start \/ UNCHANGED isoVars
            \/ \E v \in VMs : VMStarts(v)
  BY <1>1, <1>10 DEF ScanVMs, ReapplyStart, ReapplyDone, ScanFails, Start, isoVars, VMStarts
<1>11. CASE EngineUse
  BY <1>1, <1>11 DEF EngineUse, Begin
<1> QED BY <1>2, <1>3, <1>4, <1>5, <1>6, <1>7, <1>8, <1>9, <1>10, <1>11 DEF IsoStep, IsoNext, CallStep, Refresh, Host, Life

LEMMA OwnTapsInit == IsoInit => OwnTaps
  BY DEF IsoInit, OwnTaps, IdleCall

\* The body of NeverReopened.
ReopenedRightly ==
  [\A t \in Taps : Pinned /\ flag[t] /\ ~flag'[t] =>
     \/ \E p \in Callers : call[p].act = "release" /\ call[p].vm = Owner[t] /\ t \in call[p].todo
     \/ up = "down"
     \/ Owner[t] \notin running' \cap scan
     \/ refresh.pc = "scanned" /\ link[t] # "live"]_isoVars

\* On a host with pins no crash, stop, start or Refresh that knows the VM opens an isolated tap, however many VMs,
\* taps and callers there are and however their steps interleave.
THEOREM StopDoesNotReopen == IsoSpec => NeverReopened
<1>1. IsoTypeOK /\ OwnTaps /\ [IsoNext]_isoVars => ReopenedRightly
  BY ReopenStep DEF IsoStep, ReopenedRightly
<1> QED BY <1>1, OwnTapsInit, OwnTapsStep, IsoTypeCorrect, PTL DEF IsoSpec, IsoStep, NeverReopened, ReopenedRightly

-----------------------------------------------------------------------------
(* The file agrees with the daemon's records *)

RecordOf(c) == [act |-> c.act, result |-> c.result]

\* Requests do not overlap, and none outlives its process.
Alone ==
  /\ \A p, q \in Callers : call[p].pc # "idle" /\ call[q].pc # "idle" => p = q
  /\ up = "down" => AllIdle

\* What a call is about to write is what the daemon holds of its VM.
Unwritten == \A p \in Callers : call[p].pc = "save" => last[call[p].vm] = RecordOf(call[p])

\* Of every other VM the file already has what the daemon holds.
InFile ==
  up # "down" /\ ~lost =>
    \A v \in VMs : file[v] = last[v] \/ \E p \in Callers : call[p].pc = "save" /\ call[p].vm = v

FileInv == IsoTypeOK /\ Alone /\ Unwritten /\ InFile

\* A step of a call keeps it: the record made in memory is the one its caller goes on to write.
LEMMA FileCallStep ==
  ASSUME Serial, FileInv, NEW p \in Callers, Ask(p) \/ CallStep(p) \/ Answer(p)
  PROVE  Alone' /\ Unwritten' /\ InFile'
<1> USE DEF FileInv, lifeVars, tapVars, logVars
<1>0. call \in [Callers -> Calls] /\ last \in [VMs -> Records] /\ file \in [VMs -> Records] /\ call[p].vm \in VMs
  BY DEF IsoTypeOK, Calls
<1>1. CASE Ask(p)
  <2>1. AllIdle /\ up' = up /\ last' = last /\ file' = file /\ lost' = lost /\ up = "up"
    BY <1>1 DEF Ask, Begin
  <2>2. call'[p].pc = "taps" /\ \A q \in Callers \ {p} : call'[q] = call[q]
    BY <1>0, <1>1 DEF Ask, Begin
  <2> QED BY <2>1, <2>2 DEF Alone, AllIdle, Unwritten, InFile
<1>2. ASSUME NEW t \in Taps, TakeTap(p, t) PROVE Alone' /\ Unwritten' /\ InFile'
  <2>1. up' = up /\ last' = last /\ file' = file /\ lost' = lost /\ up # "down" /\ call[p].pc = "taps"
    BY <1>2 DEF TakeTap
  <2>2. \/ call' = [call EXCEPT ![p].todo = @ \ {t}, ![p].done = @ \cup {t}]
        \/ call' = [call EXCEPT ![p].todo = @ \ {t}]
    BY <1>2 DEF TakeTap
  <2>3. call'[p].pc = "taps" /\ \A q \in Callers \ {p} : call'[q] = call[q]
    BY <1>0, <2>1, <2>2 DEF Calls
  <2> QED BY <2>1, <2>3 DEF Alone, Unwritten, InFile
<1>3. CASE Record(p)
  <2>1. up' = up /\ file' = file /\ lost' = lost /\ up # "down" /\ call[p].pc = "taps"
    BY <1>3 DEF Record
  <2>2. /\ call' = [call EXCEPT ![p].pc = "save", ![p].result = ResultOf(call[p])]
        /\ last' = [last EXCEPT ![call[p].vm] = [act |-> call[p].act, result |-> ResultOf(call[p])]]
    BY <1>3 DEF Record
  <2>3. /\ call'[p].pc = "save" /\ call'[p].vm = call[p].vm /\ call'[p].act = call[p].act
        /\ call'[p].result = ResultOf(call[p]) /\ \A q \in Callers \ {p} : call'[q] = call[q]
    BY <1>0, <2>2 DEF Calls
  <2>4. last'[call[p].vm] = RecordOf(call'[p]) /\ \A v \in VMs \ {call[p].vm} : last'[v] = last[v]
    BY <1>0, <2>2, <2>3 DEF RecordOf
  <2>5. Alone' /\ Unwritten'
    BY <2>1, <2>3, <2>4 DEF Alone, Unwritten
  <2>6. InFile'
    BY <2>1, <2>3, <2>4 DEF InFile
  <2> QED BY <2>5, <2>6
<1>4. CASE SaveRecord(p)
  <2>1. up' = up /\ last' = last /\ up # "down" /\ call[p].pc = "save"
    BY <1>4 DEF SaveRecord
  <2>2. call' = [call EXCEPT ![p].pc = "ret"]
    BY <1>4 DEF SaveRecord
  <2>3. call'[p].pc = "ret" /\ \A q \in Callers \ {p} : call'[q] = call[q]
    BY <1>0, <2>2 DEF Calls
  <2>4. Alone' /\ Unwritten'
    BY <2>1, <2>3 DEF Alone, Unwritten
  <2>5. lost' \/ (lost' = lost /\ file' = [file EXCEPT ![call[p].vm] = RecordOf(call[p])])
    BY <1>4 DEF SaveRecord, AppendRecord, RecordOf
  <2>6. CASE ~lost'
    <3>1. \A q \in Callers : call[q].pc = "save" => q = p
      BY <2>1 DEF Alone
    <3>2. file'[call[p].vm] = last[call[p].vm] /\ \A v \in VMs \ {call[p].vm} : file'[v] = file[v]
      BY <1>0, <2>1, <2>5, <2>6 DEF Unwritten
    <3> QED BY <2>1, <2>4, <2>5, <2>6, <3>1, <3>2 DEF InFile
  <2> QED BY <2>4, <2>6 DEF InFile
<1>5. CASE Answer(p)
  <2>1. up' = up /\ last' = last /\ file' = file /\ lost' = lost /\ call[p].pc = "ret"
    BY <1>5 DEF Answer
  <2>2. call'[p].pc = "idle" /\ \A q \in Callers \ {p} : call'[q] = call[q]
    BY <1>0, <1>5 DEF Answer, IdleCall
  <2> QED BY <2>1, <2>2 DEF Alone, AllIdle, Unwritten, InFile
<1> QED BY <1>1, <1>2, <1>3, <1>4, <1>5 DEF CallStep

\* So does every other step: a stop and a crash forget the calls, a start reads the file back.
LEMMA FileLifeStep ==
  ASSUME FileInv, Refresh \/ ScanFails \/ Host \/ Life \/ UNCHANGED isoVars
  PROVE  Alone' /\ Unwritten' /\ InFile'
<1> USE DEF FileInv, lifeVars, tapVars, logVars
<1>1. CASE Crash \/ Exit
  <2>1. up' = "down" /\ \A p \in Callers : call'[p].pc = "idle"
    BY <1>1 DEF Crash, Exit, Forget, IdleCall
  <2> QED BY <2>1 DEF Alone, AllIdle, Unwritten, InFile
<1>2. CASE Start
  <2>1. AllIdle /\ call' = call /\ last' = file' /\ up' # "down"
    BY <1>2 DEF Start, Alone
  <2> QED BY <2>1 DEF Alone, AllIdle, Unwritten, InFile
<1>3. CASE DetachAll
  <2>1. up = "down" /\ up' = up /\ call' = call
    BY <1>3 DEF DetachAll
  <2> QED BY <2>1 DEF Alone, AllIdle, Unwritten, InFile
<1>4. CASE Refresh \/ ScanFails \/ Host \/ ShutdownTaps \/ UNCHANGED isoVars
  <2>1. UNCHANGED <<call, last, file, lost>> /\ (up # "down" <=> up' # "down")
    BY <1>4 DEF Refresh, ScanVMs, SyncTaps, ReapplyStart, ReapplyTap, ReapplyDone, ScanFails, Host, VMStops, VMStarts,
       ShutdownTaps, isoVars
  <2> QED BY <2>1 DEF Alone, AllIdle, Unwritten, InFile
<1> QED BY <1>1, <1>2, <1>3, <1>4 DEF Life

\* While requests are answered one after the other, what a restart would read is what the daemon
\* holds, for every number of VMs, taps and callers, unless an append failed or was cut off.
THEOREM FileMatches ==
  ASSUME Serial
  PROVE  IsoSpec => []FileAgrees
<1>1. IsoInit => Alone /\ Unwritten /\ InFile
  BY DEF IsoInit, Alone, AllIdle, IdleCall, Unwritten, InFile
<1>2. IsoTypeOK /\ Alone /\ Unwritten /\ InFile /\ [IsoNext]_isoVars => Alone' /\ Unwritten' /\ InFile'
  BY FileCallStep, FileLifeStep DEF IsoNext, FileInv
<1>3. IsoTypeOK /\ Alone /\ Unwritten /\ InFile => FileAgrees
  BY DEF IsoTypeOK, FileAgrees, AllIdle, InFile
<1> QED BY <1>1, <1>2, <1>3, IsoTypeCorrect, PTL DEF IsoSpec


-----------------------------------------------------------------------------
(* The constants and the shapes.                                           *)

LEMMA Constants ==
  /\ Responses # {} /\ VMs # {} /\ Callers = Engines /\ Run \in Engines /\ Handlers \subseteq Engines /\ Run \notin Handlers
  /\ Engines = {Run} \cup Handlers
  /\ MaxTime \in Nat /\ Expire \in Nat /\ ReleaseAfter \in Nat /\ Hour \in Nat /\ MaxPerHour \in Nat /\ QueueSize \in Nat
  /\ MaxDetections \in Nat /\ MaxDecisions \in Nat /\ MaxReloads \in Nat
  /\ KeepActions \in Nat \ {0} /\ MaxActions \in Nat \ {0} /\ 1 \in Ids /\ Ids \subseteq Nat
  BY ResponseAssumption, IsolationAssumption DEF Engines, Ids

\* A request is counted up to its bound.
LEMMA SpendFacts ==
  ASSUME spent \in [detections : 0..MaxDetections, decisions : 0..MaxDecisions, reloads : 0..MaxReloads],
         \/ Spend("detections", MaxDetections) \/ Spend("decisions", MaxDecisions) \/ Spend("reloads", MaxReloads)
  PROVE  spent' \in [detections : 0..MaxDetections, decisions : 0..MaxDecisions, reloads : 0..MaxReloads]
<1>1. PICK a \in 0..MaxDetections, b \in 0..MaxDecisions, c \in 0..MaxReloads :
        spent = [detections |-> a, decisions |-> b, reloads |-> c]
  OBVIOUS
<1>2. CASE Spend("detections", MaxDetections)
  <2>1. a < MaxDetections /\ spent' = [detections |-> a + 1, decisions |-> b, reloads |-> c]
    BY <1>1, <1>2 DEF Spend
  <2>2. a + 1 \in 0..MaxDetections
    BY <2>1, Constants
  <2> QED BY <2>1, <2>2
<1>3. CASE Spend("decisions", MaxDecisions)
  <2>1. b < MaxDecisions /\ spent' = [detections |-> a, decisions |-> b + 1, reloads |-> c]
    BY <1>1, <1>3 DEF Spend
  <2>2. b + 1 \in 0..MaxDecisions
    BY <2>1, Constants
  <2> QED BY <2>1, <2>2
<1>4. CASE Spend("reloads", MaxReloads)
  <2>1. c < MaxReloads /\ spent' = [detections |-> a, decisions |-> b, reloads |-> c + 1]
    BY <1>1, <1>4 DEF Spend
  <2>2. c + 1 \in 0..MaxReloads
    BY <2>1, Constants
  <2> QED BY <2>1, <2>2
<1> QED BY <1>2, <1>3, <1>4

LEMMA TimerFacts ==
  /\ Times \subseteq Timers /\ Times \subseteq Nat /\ Timers \subseteq Nat /\ 0 \in Times /\ Never \notin Times
  /\ \A t \in Times : t + Expire \in Timers /\ t + ReleaseAfter \in Timers
<1>1. Max({Expire, ReleaseAfter}) \in Nat /\ Max({Expire, ReleaseAfter}) >= Expire /\ Max({Expire, ReleaseAfter}) >= ReleaseAfter
  <2>1. \E x \in {Expire, ReleaseAfter} : \A y \in {Expire, ReleaseAfter} : x >= y
    BY Constants
  <2> QED BY <2>1, Constants DEF Max
<1> HIDE DEF Max
<1> DEFINE m == Max({Expire, ReleaseAfter})
<1>2. m \in Nat /\ m >= Expire /\ m >= ReleaseAfter
  BY <1>1
<1> HIDE DEF m
<1>3. Timers = 0..(MaxTime + m)
  BY DEF Timers, m
<1> QED BY <1>2, <1>3, Constants DEF Times, Never

LEMMA Values ==
  /\ (CHOOSE v \in VMs : TRUE) \in VMs /\ (CHOOSE r \in Responses : TRUE) \in Responses
  /\ NoAction \in Actions /\ NoAction.status = "none"
  /\ IdleJob \in EngineJobs /\ IdleJob.pc = "idle" /\ IdleJob.copy = NoAction /\ IdleJob.lapsed = {} /\ IdleJob.due = {}
<1>1. (CHOOSE v \in VMs : TRUE) \in VMs /\ (CHOOSE r \in Responses : TRUE) \in Responses
  BY Constants
<1>2. NoAction \in Actions /\ NoAction.status = "none"
  BY <1>1, TimerFacts DEF NoAction, Actions, Statuses
<1>3. IdleJob \in EngineJobs
  BY <1>2, Constants DEF IdleJob, EngineJobs
<1> QED BY <1>1, <1>2, <1>3 DEF IdleJob

\* The jobs that are made.
LEMMA NewJobs ==
  ASSUME NEW id \in Ids, NEW a \in Actions, NEW b \in BOOLEAN, NEW c \in BOOLEAN, NEW L \in SUBSET Ids, NEW D \in SUBSET Ids
  PROVE  /\ LET j == [IdleJob EXCEPT !.pc = "decide", !.id = id, !.timed = TRUE]
            IN j \in EngineJobs /\ j.pc = "decide" /\ j.id = id /\ j.copy = NoAction /\ j.lapsed = {} /\ j.due = {}
         /\ LET j == [IdleJob EXCEPT !.pc = "record", !.id = id, !.copy = a]
            IN j \in EngineJobs /\ j.pc = "record" /\ j.id = id /\ j.copy = a /\ j.lapsed = {} /\ j.due = {}
         /\ LET j == [IdleJob EXCEPT !.pc = "approved", !.id = id, !.timed = b, !.prot = c]
            IN j \in EngineJobs /\ j.pc = "approved" /\ j.id = id /\ j.copy = NoAction /\ j.lapsed = {} /\ j.due = {}
         /\ LET j == [IdleJob EXCEPT !.pc = "tick", !.lapsed = L, !.due = D]
            IN j \in EngineJobs /\ j.pc = "tick" /\ j.copy = NoAction /\ j.lapsed = L /\ j.due = D
  BY Values DEF IdleJob, EngineJobs

\* Fields of an action.
LEMMA ActionFields ==
  ASSUME NEW a \in Actions, NEW st \in Statuses
  PROVE  /\ a.status \in Statuses /\ a.vm \in VMs /\ a.resp \in Responses /\ a.created \in Times /\ a.decided \in Times
         /\ a.expires \in Timers /\ a.releaseAt \in Timers
         /\ LET b == [a EXCEPT !.status = st]
            IN b \in Actions /\ b.status = st /\ b.vm = a.vm /\ b.resp = a.resp /\ b.created = a.created /\ b.decided = a.decided
               /\ b.releaseAt = a.releaseAt
  BY DEF Actions

-----------------------------------------------------------------------------
(* The newest of the ids.                                                  *)

\* A set of naturals that is not empty has a least element ...
LEMMA Least ==
  ASSUME NEW T, T \subseteq Nat, T # {}
  PROVE  \E x \in T : \A y \in T : x <= y
<1>1. \E x \in T : \A y \in T : ~(<<y, x>> \in OpToRel(<, Nat))
  BY NatLessThanWellFounded, WFMin
<1>2. \A x, y \in Nat : <<y, x>> \in OpToRel(<, Nat) <=> y < x
  BY DEF OpToRel
<1>3. \A x, y \in Nat : ~(y < x) => x <= y
  OBVIOUS
<1> QED BY <1>1, <1>2, <1>3

\* ... and a set of ids has a greatest.
LEMMA Greatest ==
  ASSUME NEW T, T \subseteq Ids \cup {0}, T # {}
  PROVE  Max(T) \in T /\ \A y \in T : y <= Max(T)
<1>1. T \subseteq 0..MaxActions /\ MaxActions \in Nat
  BY Constants DEF Ids
<1> DEFINE U == {MaxActions - x : x \in T}
<1>2. U \subseteq Nat /\ U # {}
  <2>1. \A x \in 0..MaxActions : MaxActions - x \in Nat
    BY <1>1
  <2> QED BY <1>1, <2>1
<1>3. PICK u \in U : \A y \in U : u <= y
  BY <1>2, Least
<1>4. PICK x \in T : u = MaxActions - x
  OBVIOUS
<1>5. \A y \in T : x >= y
  <2> SUFFICES ASSUME NEW y \in T PROVE x >= y
    OBVIOUS
  <2>1. MaxActions - x <= MaxActions - y
    BY <1>3, <1>4
  <2>2. x \in Nat /\ y \in Nat
    BY <1>1
  <2> QED BY <1>1, <2>1, <2>2
<1>6. Max(T) \in T /\ \A y \in T : Max(T) >= y
  BY <1>5 DEF Max
<1> HIDE DEF Max
<1> QED BY <1>1, <1>6

LEMMA NewestFacts ==
  ASSUME NEW S \in SUBSET Ids
  PROVE  /\ Newest(S) \subseteq S /\ IsFiniteSet(S) /\ IsFiniteSet(Newest(S)) /\ Cardinality(Newest(S)) <= KeepActions
<1> USE Constants
<1>1. IsFiniteSet(Ids)
  BY FS_Interval DEF Ids
<1>2. IsFiniteSet(S) /\ Newest(S) \subseteq S
  BY <1>1, FS_Subset DEF Newest
<1>3. IsFiniteSet(Newest(S))
  BY <1>2, FS_Subset
<1>4. CASE Newest(S) = {}
  BY <1>2, <1>4, FS_EmptySet
<1>5. CASE Newest(S) # {}
  <2>1. Newest(S) \subseteq Nat
    BY <1>2
  <2>2. PICK m \in Newest(S) : \A y \in Newest(S) : m <= y
    BY <1>5, <2>1, Least
  <2> DEFINE above == {j \in S : j > m}
  <2>3. IsFiniteSet(above) /\ Cardinality(above) < KeepActions
    <3>1. above \in SUBSET S
      OBVIOUS
    <3> QED BY <1>2, <2>2, <3>1, FS_Subset DEF Newest
  <2>4. Newest(S) \ {m} \in SUBSET above
    BY <1>2, <2>1, <2>2
  <2>5. Cardinality(Newest(S) \ {m}) <= Cardinality(above)
    BY <2>3, <2>4, FS_Subset
  <2>6. Cardinality(Newest(S) \ {m}) = Cardinality(Newest(S)) - 1
    BY <1>3, <2>2, FS_RemoveElement
  <2>7. Cardinality(above) \in Nat /\ Cardinality(Newest(S)) \in Nat
    BY <1>3, <2>3, FS_CardinalityType
  <2> HIDE DEF above
  <2>8. Cardinality(Newest(S)) <= KeepActions
    BY <2>3, <2>5, <2>6, <2>7
  <2> QED BY <1>2, <1>3, <2>8
<1> QED BY <1>2, <1>3, <1>4, <1>5

\* Dropping what is not among the newest before a newer one comes makes no difference.
LEMMA NewestAdd ==
  ASSUME NEW S \in SUBSET Ids, NEW n \in Ids, \A i \in S : i < n
  PROVE  Newest(Newest(S) \cup {n}) = Newest(S \cup {n})
<1> USE Constants
<1> DEFINE N == Newest(S)
           Above(T, i) == {j \in T : j > i}
<1>0. S \subseteq Nat /\ n \in Nat
  OBVIOUS
<1>1. N \subseteq S /\ IsFiniteSet(S) /\ IsFiniteSet(N) /\ n \notin S
  BY <1>0, NewestFacts
<1>2. \A T, i : Above(T, i) \in SUBSET T
  OBVIOUS
<1>3. \A i : IsFiniteSet(Above(S, i)) /\ IsFiniteSet(Above(N, i)) /\ Cardinality(Above(S, i)) \in Nat /\ Cardinality(Above(N, i)) \in Nat
  BY <1>1, <1>2, FS_Subset, FS_CardinalityType
<1>4. \A i \in S : Above(S \cup {n}, i) = Above(S, i) \cup {n} /\ Above(N \cup {n}, i) = Above(N, i) \cup {n}
  BY <1>1
<1>5. \A i \in S : Cardinality(Above(S \cup {n}, i)) = Cardinality(Above(S, i)) + 1
                   /\ Cardinality(Above(N \cup {n}, i)) = Cardinality(Above(N, i)) + 1
  <2> SUFFICES ASSUME NEW i \in S
               PROVE  Cardinality(Above(S, i) \cup {n}) = Cardinality(Above(S, i)) + 1
                      /\ Cardinality(Above(N, i) \cup {n}) = Cardinality(Above(N, i)) + 1
    BY <1>4
  <2>1. n \notin Above(S, i) /\ n \notin Above(N, i)
    BY <1>1
  <2> HIDE DEF Above
  <2> QED BY <1>3, <2>1, FS_AddElement
<1>6. \A i \in N : Above(N, i) = Above(S, i)
  <2> SUFFICES ASSUME NEW i \in N, NEW j \in S, j > i PROVE j \in N
    BY <1>1
  <2>1. Above(S, j) \in SUBSET Above(S, i)
    <3>1. i \in Nat /\ j \in Nat
      BY <1>0, <1>1
    <3>2. \A k \in Nat : k > j => k > i
      BY <3>1
    <3> QED BY <1>0, <3>2
  <2>2. Cardinality(Above(S, j)) <= Cardinality(Above(S, i))
    BY <1>3, <2>1, FS_Subset
  <2>3. Cardinality(Above(S, i)) < KeepActions
    BY DEF Newest
  <2>4. Cardinality(Above(S, j)) < KeepActions
    <3>1. Cardinality(Above(S, i)) \in Nat /\ Cardinality(Above(S, j)) \in Nat
      BY <1>3
    <3> HIDE DEF Above
    <3> QED BY <2>2, <2>3, <3>1
  <2> QED BY <2>4 DEF Newest
<1>7. \A T : Newest(T) = {i \in T : Cardinality(Above(T, i)) < KeepActions}
  BY DEF Newest
<1>8. Above(S \cup {n}, n) = {} /\ Above(N \cup {n}, n) = {}
  <2>1. \A i \in S \cup {n} : ~(i > n)
    BY <1>0
  <2> QED BY <1>1, <2>1
<1>9. \A i \in S : Cardinality(Above(S \cup {n}, i)) < KeepActions => i \in N
  <2> SUFFICES ASSUME NEW i \in S, Cardinality(Above(S, i)) + 1 < KeepActions PROVE i \in N
    BY <1>5
  <2>1. Cardinality(Above(S, i)) \in Nat
    BY <1>3
  <2> HIDE DEF Above
  <2>2. Cardinality(Above(S, i)) < KeepActions
    BY <2>1
  <2> QED BY <1>7, <2>2
<1>10. \A i \in N : Cardinality(Above(N \cup {n}, i)) = Cardinality(Above(S \cup {n}, i))
  BY <1>1, <1>5, <1>6
<1> HIDE DEF Above, N
<1>11. {i \in N \cup {n} : Cardinality(Above(N \cup {n}, i)) < KeepActions} = {i \in S \cup {n} : Cardinality(Above(S \cup {n}, i)) < KeepActions}
  BY <1>1, <1>8, <1>9, <1>10
<1> QED BY <1>7, <1>11 DEF N

-----------------------------------------------------------------------------
(* The inductive invariant.                                                *)

Known == {i \in Ids : acts[i].status # "none"}
Same(a, b) == a.vm = b.vm /\ a.resp = b.resp /\ a.created = b.created
Busy(p) == job[p].pc \in {"decide", "approved", "execute", "isolating", "record", "releasing"}

\* Run is making an action that has no status yet.
Making == job[Run].pc \in {"decide", "execute", "isolating"}

\* What a goroutine has yet to write down.
Owes(p, i) == \/ job[p].id = i /\ (job[p].pc = "record" \/ (p = Run /\ Making))
              \/ i \in job[p].lapsed

\* An id is given once: the file and the goroutines speak of the action the engine has under it.
KnownInv == /\ Known \subseteq 1..next /\ kept = Newest(Known)
            /\ up # "down" => OnFile \subseteq Known
            /\ up = "down" => Known = {} /\ \A p \in Engines : job[p] = IdleJob
SameInv == \A i \in Known : log[i].status # "none" => Same(acts[i], log[i])
JobFits(p) ==
  /\ Busy(p) => job[p].id \in Known
  /\ job[p].lapsed \subseteq Known /\ job[p].due \subseteq Known
  /\ job[p].lapsed # {} => p = Run /\ job[p].pc = "tick"
  /\ job[p].due # {} => p = Run /\ job[p].pc \in {"tick", "releasing", "record"}
  /\ job[p].pc \in {"decide", "tick", "releasing"} => p = Run
  /\ job[p].pc = "approved" => p # Run
  /\ job[p].pc = "releasing" => job[p].id \in job[p].due
  /\ job[p].copy # NoAction => /\ job[p].pc = "record" /\ job[p].copy.status \in {"expired", "refused", "rejected"}
                               /\ p # Run /\ Same(job[p].copy, acts[job[p].id])
JobInv == \A p \in Engines : JobFits(p)
IdInv == KnownInv /\ SameInv /\ JobInv

\* Only Run makes an action, and nobody else touches it before it has decided.
MakingInv == /\ Making => acts[job[Run].id].status = "new"
             /\ \A p \in Handlers : Busy(p) => acts[job[p].id].status # "new"

\* A VM has one proposal, and a detection that is being decided is of a VM that has none.
UniqueInv == ~cut => /\ OnePending
                     /\ job[Run].pc = "decide" =>
                          \A i \in kept : acts[i].status = "pending" => acts[i].vm # acts[job[Run].id].vm

\* What the file has wrong of a proposal, or does not have, some goroutine has yet to write.
FilePend == ~cut /\ up # "down" =>
  /\ \A i \in Ids : log[i].status = "pending" /\ acts[i].status # "pending" => \E p \in Engines : Owes(p, i)
  /\ \A i \in Known : log[i].status = "none" => Owes(Run, i)

\* What a start will find.
DownInv == ~cut /\ up = "down" =>
  \A i, j \in Newest(OnFile) : log[i].status = "pending" /\ log[j].status = "pending" /\ log[i].vm = log[j].vm => i = j

PendInv == MakingInv /\ UniqueInv /\ FilePend /\ DownInv

\* With one handler: what a goroutine holds of an action it has not decided yet, and that the file lacks nothing but
\* what some goroutine has yet to write.
SavedInv ==
  /\ \A p \in Handlers : job[p].pc \in {"approved", "execute", "isolating"} => acts[job[p].id].status \in {"pending", "expired"}
  /\ \A i \in job[Run].due : acts[i].status \in Synced
  /\ \A p \in Engines : job[p].copy # NoAction => job[p].copy = acts[job[p].id]
  /\ ~cut /\ up # "down" => \A i \in Known : log[i] # acts[i] => \E p \in Engines : Owes(p, i)

\* When isolations do not release themselves: who may decide what, and what counts against the cap.
ModeInv ==
  /\ \A i \in Ids : acts[i].status = "pending" => ModeOf[acts[i].resp] = "propose"
  /\ \A i \in Ids : log[i].status = "pending" => ModeOf[log[i].resp] = "propose"
  /\ \A i \in Ids : acts[i].releaseAt = 0 /\ log[i].releaseAt = 0
  /\ \A p \in Engines : job[p].copy.releaseAt = 0 /\ job[p].due = {}
  /\ \A p \in Handlers : Busy(p) => ModeOf[acts[job[p].id].resp] = "propose"
  /\ \A i \in job[Run].lapsed : ModeOf[acts[i].resp] = "propose"
  /\ job[Run].pc \in {"execute", "isolating"} => ModeOf[acts[job[Run].id].resp] = "enforce"
  /\ job[Run].pc = "decide" => acts[job[Run].id].created <= now

Counts(a, i) == Enforced(a.status) /\ ModeOf[a.resp] = "enforce" /\ a.decided = autos[i]
Recent == {i \in Ids : autos[i] # Never /\ now - autos[i] < Hour}
CapInv ==
  ~cut => /\ \A i \in Ids : autos[i] # Never => Counts(log[i], i) \/ (up # "down" /\ job[Run].pc = "record" /\ job[Run].id = i)
          /\ up # "down" => \A i \in Ids : autos[i] # Never => i \in Known /\ Counts(acts[i], i)
          /\ up # "down" => Recent \subseteq hourly
          /\ Cardinality(Recent) <= MaxPerHour
          /\ job[Run].pc \in {"execute", "isolating"} => Cardinality(Recent) < MaxPerHour

-----------------------------------------------------------------------------
(* What a step does to the actions, the file and the goroutines: one of eight kinds of change. *)

Alive == up # "down" /\ up' = up
ActTo(id, a) == acts' \in [Ids -> Actions] /\ acts'[id] = a /\ \A i \in Ids \ {id} : acts'[i] = acts[i]
JobTo(p, j) == job' \in [Engines -> EngineJobs] /\ job'[p] = j /\ \A q \in Engines \ {p} : job'[q] = job[q]

Quiet == /\ UNCHANGED <<acts, log, kept, next, job, cut, hourly, autos>>
         /\ (up' = "down" <=> up = "down") /\ now' \in Times /\ now' >= now

Created(v, r) ==
  /\ Alive /\ job[Run].pc = "idle" /\ next + 1 \in Ids /\ next' = next + 1 /\ ~LeftAlone(v, r)
  /\ \E a \in Actions : ActTo(next + 1, a) /\ a.status = "new" /\ a.vm = v /\ a.created = now /\ a.releaseAt = 0
  /\ kept' = Newest(kept \cup {next + 1})
  /\ \E j \in EngineJobs : JobTo(Run, j) /\ j.pc = "decide" /\ j.id = next + 1 /\ j.copy = NoAction /\ j.lapsed = {} /\ j.due = {}
  /\ UNCHANGED <<log, cut, hourly, autos, now>>

MovedTo(p, j) ==
  \/ /\ j.id = job[p].id /\ j.lapsed = job[p].lapsed /\ j.due = job[p].due /\ j.copy = job[p].copy
     /\ \/ /\ p = Run /\ job[p].pc = "decide" /\ j.pc = "execute"
           /\ ModeOf[acts[j.id].resp] = "enforce" /\ ~OverCap(acts[j.id].created)
        \/ job[p].pc = "execute" /\ j.pc = "isolating"
        \/ job[p].pc = "approved" /\ j.pc = "execute"
  \/ p \in Handlers /\ job[p].pc = "idle" /\ j.pc = "approved" /\ Waiting(j.id) /\ j.lapsed = {} /\ j.due = {} /\ j.copy = NoAction
  \/ /\ p = Run /\ job[p].pc = "tick" /\ j.pc = "releasing" /\ j.id \in job[p].due
     /\ j.lapsed = job[p].lapsed /\ j.due = job[p].due /\ j.copy = job[p].copy /\ j.lapsed = {}
  \/ p = Run /\ job[p].pc = "tick" /\ job[p].lapsed = {} /\ job[p].due = {} /\ j = IdleJob
Moved(p) == /\ Alive /\ \E j \in EngineJobs : JobTo(p, j) /\ MovedTo(p, j)
            /\ UNCHANGED <<acts, log, kept, next, cut, hourly, autos, now>>

SettledAs(p, id, b, j) ==
  /\ ActTo(id, b) /\ Same(b, acts[id]) /\ b.status \notin {"none", "new"}
  /\ JobTo(p, j) /\ j.pc = "record" /\ j.id = id /\ j.lapsed = {} /\ j.due = job[p].due
  /\ j.copy = NoAction \/ (p \in Handlers /\ j.copy = b /\ b.status \in {"expired", "refused", "rejected"})
  /\ \/ p \in Handlers /\ job[p].pc = "idle" /\ Waiting(id) /\ job[p].due = {}
     \/ job[p].id = id /\ job[p].pc \in {"decide", "isolating", "approved", "releasing"}
  /\ b.status = "pending" => job[p].pc = "decide" /\ ModeOf[b.resp] = "propose"
  /\ job[p].pc = "releasing" => b.status = "released"
  /\ ReleaseAfter = 0 => b.releaseAt = acts[id].releaseAt
  /\ \/ UNCHANGED <<hourly, autos>>
     \/ /\ p = Run /\ job[p].pc = "isolating" /\ b.decided = now /\ Enforced(b.status)
        /\ hourly' = hourly \cup {id} /\ autos' = [autos EXCEPT ![id] = now]
Settled(p, id) == /\ Alive /\ \E b \in Actions, j \in EngineJobs : SettledAs(p, id, b, j)
                  /\ UNCHANGED <<log, kept, next, cut, now>>

LapsedNow == {i \in kept : Lapsed(i)}
DueNow == {i \in kept : ReleaseDue(i)}
Ticked ==
  /\ Alive /\ job[Run].pc = "idle" /\ acts' \in [Ids -> Actions]
  /\ \A i \in Ids \ LapsedNow : acts'[i] = acts[i]
  /\ \A i \in LapsedNow : Same(acts'[i], acts[i]) /\ acts'[i].status = "expired" /\ acts'[i].releaseAt = acts[i].releaseAt
  /\ \E j \in EngineJobs : JobTo(Run, j) /\ j.pc = "tick" /\ j.copy = NoAction /\ j.lapsed = LapsedNow /\ j.due = DueNow
  /\ UNCHANGED <<log, kept, next, cut, hourly, autos, now>>

WrittenAs(p, id, a, j) ==
  \/ /\ job[p].pc = "record" /\ job[p].id = id /\ a = Written(p)
     /\ \/ j = IdleJob /\ job[p].due = {}
        \/ j.pc = "tick" /\ j.due = job[p].due \ {id} /\ j.lapsed = job[p].lapsed /\ j.copy = job[p].copy /\ job[p].due # {}
  \/ /\ p = Run /\ job[p].pc = "tick" /\ id \in job[p].lapsed /\ a = acts[id]
     /\ j.pc = "tick" /\ j.lapsed = job[p].lapsed \ {id} /\ j.due = job[p].due /\ j.copy = job[p].copy
LoggedAs(id, a) ==
  /\ log' \in [Ids -> Actions] /\ \A i \in Ids \ {id} : log'[i] = log[i]
  /\ \/ cut' = cut /\ acts' = acts /\ log'[id] = a
     \/ /\ cut' = TRUE /\ log'[id] \in {log[id], a, acts'[id]}
        /\ \/ acts' = acts
           \/ \E b \in Actions : /\ ActTo(id, b) /\ Same(b, acts[id]) /\ a.status = "executed"
                                 /\ b.status = "executed_audit_degraded" /\ b.releaseAt = acts[id].releaseAt
WroteDown(p, id) == /\ Alive /\ \E a \in Actions, j \in EngineJobs : JobTo(p, j) /\ WrittenAs(p, id, a, j) /\ LoggedAs(id, a)
                    /\ UNCHANGED <<kept, next, hourly, autos, now>>

Forgot == /\ up # "down" /\ up' = "down"
          /\ acts' = [i \in Ids |-> NoAction] /\ kept' = {} /\ next' = 0 /\ hourly' = {}
          /\ cut' = (cut \/ ~EnginesIdle) /\ job' = [p \in Engines |-> IdleJob]
          /\ UNCHANGED <<log, autos, now>>

Restored == /\ up = "down" /\ up' # "down"
            /\ acts' = log /\ kept' = Newest(OnFile) /\ next' = RestoredNext /\ hourly' = {i \in OnFile : Counted(i)}
            /\ UNCHANGED <<log, cut, job, autos, now>>

Changed == \/ Quiet \/ (\E v \in VMs, r \in Responses : Created(v, r)) \/ Ticked \/ Forgot \/ Restored
           \/ \E p \in Engines : Moved(p) \/ \E id \in Ids : Settled(p, id) \/ WroteDown(p, id)

-----------------------------------------------------------------------------
(* Every step is one of them, and keeps the types.                         *)

\* The part of TypeOK that is the engine's own.
EngineType ==
  /\ now \in Times /\ rules \in Rules /\ queue \in Seq(Detections) /\ Len(queue) <= QueueSize
  /\ acts \in [Ids -> Actions] /\ log \in [Ids -> Actions]
  /\ kept \subseteq Ids /\ Cardinality(kept) <= KeepActions /\ next \in Ids \cup {0}
  /\ unsaved \subseteq Ids /\ hourly \subseteq Ids
  /\ cool \in [VMs -> [Responses -> Times \cup {Never}]] /\ cut \in BOOLEAN
  /\ job \in [Engines -> EngineJobs] /\ autos \in [Ids -> Times \cup {Never}]
  /\ spent \in [detections : 0..MaxDetections, decisions : 0..MaxDecisions, reloads : 0..MaxReloads]

LEMMA TypeSplit == TypeOK <=> IsoTypeOK /\ EngineType
  BY DEF TypeOK, EngineType

\* Types of what a step reads.
LEMMA ReadTypes ==
  ASSUME EngineType
  PROVE  /\ \A i \in Ids : acts[i] \in Actions /\ log[i] \in Actions /\ autos[i] \in Times \cup {Never}
         /\ \A p \in Engines : /\ job[p] \in EngineJobs /\ job[p].id \in Ids /\ job[p].copy \in Actions
                               /\ job[p].lapsed \subseteq Ids /\ job[p].due \subseteq Ids
  BY DEF EngineType, EngineJobs

\* A goroutine goes on with its job.
LEMMA GotoFacts ==
  ASSUME EngineType, NEW p \in Engines, NEW pc \in {"idle", "decide", "approved", "execute", "isolating", "record", "tick", "releasing"}, Goto(p, pc)
  PROVE  \E j \in EngineJobs : JobTo(p, j) /\ j.pc = pc /\ j.id = job[p].id /\ j.copy = job[p].copy
                               /\ j.lapsed = job[p].lapsed /\ j.due = job[p].due
<1> DEFINE j == [job[p] EXCEPT !.pc = pc]
<1>1. j \in EngineJobs /\ j.pc = pc /\ j.id = job[p].id /\ j.copy = job[p].copy /\ j.lapsed = job[p].lapsed /\ j.due = job[p].due
  BY ReadTypes DEF EngineJobs
<1>2. job' = [job EXCEPT ![p] = j]
  BY DEF Goto
<1> HIDE DEF j
<1>3. JobTo(p, j)
  BY <1>1, <1>2 DEF EngineType, JobTo
<1> QED BY <1>1, <1>3

\* It comes to another.
LEMMA NewJobFacts ==
  ASSUME EngineType, NEW p \in Engines, NEW j \in EngineJobs, job' = [job EXCEPT ![p] = j]
  PROVE  JobTo(p, j)
  BY DEF EngineType, JobTo

\* An action is decided.
LEMMA DecidedFacts ==
  ASSUME EngineType, NEW id \in Ids, NEW st \in Statuses, Decided(id, st)
  PROVE  \E b \in Actions : ActTo(id, b) /\ Same(b, acts[id]) /\ b.status = st /\ b.decided = acts[id].decided /\ b.releaseAt = acts[id].releaseAt
<1> DEFINE b == [acts[id] EXCEPT !.status = st]
<1>1. b \in Actions /\ Same(b, acts[id]) /\ b.status = st /\ b.decided = acts[id].decided /\ b.releaseAt = acts[id].releaseAt
  BY ReadTypes, ActionFields DEF Same
<1>2. acts' = [acts EXCEPT ![id] = b]
  BY DEF Decided
<1> HIDE DEF b
<1>3. ActTo(id, b)
  BY <1>1, <1>2 DEF EngineType, ActTo
<1> QED BY <1>1, <1>3

\* Steps that touch nothing of the actions.
LEMMA QuietSteps ==
  ASSUME EngineType,
         \/ \E v \in VMs, r \in Responses : Detect(v, r)
         \/ Clock \/ Reload \/ Around \/ ((ShutdownTaps \/ DetachAll) /\ UNCHANGED respVars) \/ UNCHANGED allVars
  PROVE  EngineType' /\ Quiet
<1> USE DEF EngineType, Quiet, memVars, listVars, isoVars
<1>0. now \in Nat /\ Times \subseteq Nat
  BY TimerFacts
<1>1. ASSUME NEW v \in VMs, NEW r \in Responses, Detect(v, r) PROVE EngineType' /\ Quiet
  <2> DEFINE d == [vm |-> v, resp |-> r]
  <2>1. d \in Detections
    BY DEF Detections
  <2>2. queue' \in Seq(Detections) /\ Len(queue') <= QueueSize
    <3>1. queue' = Offered(d)
      BY <1>1 DEF Detect
    <3> HIDE DEF d
    <3> QED BY <2>1, <3>1, Constants DEF Offered
  <2>3. spent' \in [detections : 0..MaxDetections, decisions : 0..MaxDecisions, reloads : 0..MaxReloads]
    <3>1. Spend("detections", MaxDetections)
      BY <1>1 DEF Detect
    <3> QED BY <3>1, SpendFacts
  <2>4. UNCHANGED <<isoVars, now, rules, memVars, log, cut, job>>
    BY <1>1 DEF Detect
  <2> QED BY <1>0, <2>2, <2>3, <2>4
<1>2. CASE Clock
  <2>1. now' \in Times /\ now' >= now
    BY <1>2, Constants, <1>0 DEF Clock, Times
  <2> QED BY <1>2, <2>1 DEF Clock
<1>3. CASE Reload
  <2>1. spent' \in [detections : 0..MaxDetections, decisions : 0..MaxDecisions, reloads : 0..MaxReloads]
    <3>1. Spend("reloads", MaxReloads)
      BY <1>3 DEF Reload
    <3> QED BY <3>1, SpendFacts
  <2> QED BY <1>0, <1>3, <2>1 DEF Reload
<1>4. ASSUME UNCHANGED respVars, up' = "down" <=> up = "down" PROVE EngineType' /\ Quiet
  BY <1>0, <1>4 DEF respVars
<1>5. CASE Around
  <2>1. UNCHANGED respVars
    BY <1>5 DEF Around
  <2>2. up' = "down" <=> up = "down"
    <3> USE DEF lifeVars, tapVars, logVars
    <3>1. ASSUME NEW p \in Handlers, Ask(p) \/ Answer(p) PROVE up' = up
      BY <3>1 DEF Ask, Begin, Answer
    <3>2. ASSUME NEW p \in Callers, CallStep(p) PROVE up' = up
      BY <3>2 DEF CallStep, TakeTap, Record, SaveRecord
    <3>3. CASE Refresh \/ ScanFails \/ Host
      BY <3>3 DEF Refresh, ScanVMs, SyncTaps, ReapplyStart, ReapplyTap, ReapplyDone, ScanFails, Host, VMStops, VMStarts
    <3> QED BY <1>5, <3>1, <3>2, <3>3 DEF Around
  <2> QED BY <1>4, <2>1, <2>2
<1>6. CASE (ShutdownTaps \/ DetachAll) /\ UNCHANGED respVars
  <2>1. up' = "down" <=> up = "down"
    BY <1>6 DEF ShutdownTaps, DetachAll, lifeVars
  <2> QED BY <1>4, <1>6, <2>1
<1>7. CASE UNCHANGED allVars
  BY <1>4, <1>7 DEF allVars
<1> QED BY <1>1, <1>2, <1>3, <1>5, <1>6, <1>7

\* A start and the end of a process.
LEMMA LifeSteps ==
  ASSUME EngineType
  PROVE  /\ (Crash \/ Exit) /\ EngineForgets => EngineType' /\ Forgot
         /\ Start /\ Restore => EngineType' /\ Restored
<1> USE DEF EngineType
<1>1. ASSUME Crash \/ Exit, EngineForgets PROVE EngineType' /\ Forgot
  <2>1. up # "down" /\ up' = "down"
    BY <1>1 DEF Crash, Exit
  <2>2. Forgot
    BY <1>1, <2>1 DEF EngineForgets, Forgot
  <2>3. queue' \in Seq(Detections) /\ Len(queue') <= QueueSize
    BY <1>1, Constants DEF EngineForgets
  <2>4. acts' \in [Ids -> Actions] /\ job' \in [Engines -> EngineJobs] /\ cut' \in BOOLEAN
    BY <2>2, Values DEF Forgot
  <2>5. Cardinality(kept') <= KeepActions /\ kept' \subseteq Ids /\ hourly' \subseteq Ids
    <3>1. kept' = {} /\ hourly' = {}
      BY <2>2 DEF Forgot
    <3>2. Cardinality({}) = 0
      BY FS_EmptySet
    <3> QED BY <3>1, <3>2, Constants
  <2>6. cool' \in [VMs -> [Responses -> Times \cup {Never}]]
    BY <1>1 DEF EngineForgets
  <2> QED BY <1>1, <2>2, <2>3, <2>4, <2>5, <2>6 DEF EngineForgets
<1>2. ASSUME Start, Restore PROVE EngineType' /\ Restored
  <2>1. Restored
    BY <1>2 DEF Start, Restore, Restored
  <2>2. OnFile \in SUBSET Ids
    BY DEF OnFile
  <2>3. kept' \subseteq Ids /\ Cardinality(kept') <= KeepActions
    BY <2>1, <2>2, NewestFacts DEF Restored
  <2>4. next' \in Ids \cup {0}
    <3>1. OnFile \cup {0} \subseteq Ids \cup {0} /\ OnFile \cup {0} # {}
      BY <2>2
    <3>2. Max(OnFile \cup {0}) \in OnFile \cup {0}
      BY <3>1, Greatest
    <3> HIDE DEF OnFile
    <3> QED BY <2>1, <2>2, <3>2 DEF Restored, RestoredNext
  <2>5. cool' \in [VMs -> [Responses -> Times \cup {Never}]]
    <3>1. ASSUME NEW v \in VMs, NEW r \in Responses PROVE RestoredCool(v, r) \in Times \cup {Never}
      <4> DEFINE mine == {i \in OnFile : log[i].vm = v /\ log[i].resp = r}
      <4>1. mine \subseteq Ids
        BY <2>2
      <4>2. CASE mine # {}
        <5>1. Max(mine) \in Ids
          BY <4>1, <4>2, Greatest
        <5>2. log[Max(mine)].created \in Times
          BY <5>1, ReadTypes, ActionFields DEF Statuses
        <5> QED BY <4>2, <5>2 DEF RestoredCool
      <4> QED BY <4>2 DEF RestoredCool
    <3> QED BY <1>2, <3>1 DEF Restore
  <2>6. hourly' \subseteq Ids /\ acts' \in [Ids -> Actions]
    BY <2>1, <2>2 DEF Restored
  <2> QED BY <1>2, <2>1, <2>3, <2>4, <2>5, <2>6 DEF Restore
<1> QED BY <1>1, <1>2

\* What a step may do to the rest of the engine's state.
RestType == /\ rules \in Rules /\ queue \in Seq(Detections) /\ Len(queue) <= QueueSize /\ unsaved \subseteq Ids
            /\ cool \in [VMs -> [Responses -> Times \cup {Never}]]
            /\ spent \in [detections : 0..MaxDetections, decisions : 0..MaxDecisions, reloads : 0..MaxReloads]

\* The other changes keep the types.
LEMMA ChangedType ==
  ASSUME EngineType, RestType',
         \/ \E v \in VMs, r \in Responses : Created(v, r)
         \/ Ticked
         \/ \E p \in Engines : Moved(p) \/ \E id \in Ids : Settled(p, id) \/ WroteDown(p, id)
  PROVE  EngineType'
<1> USE DEF EngineType
<1> DEFINE Rest == /\ now' \in Times /\ acts' \in [Ids -> Actions] /\ log' \in [Ids -> Actions]
                   /\ kept' \subseteq Ids /\ Cardinality(kept') <= KeepActions /\ next' \in Ids \cup {0}
                   /\ hourly' \subseteq Ids /\ cut' \in BOOLEAN
                   /\ job' \in [Engines -> EngineJobs] /\ autos' \in [Ids -> Times \cup {Never}]
<1>1. ASSUME NEW v \in VMs, NEW r \in Responses, Created(v, r) PROVE Rest
  <2>1. kept \cup {next + 1} \in SUBSET Ids
    BY <1>1 DEF Created
  <2>2. kept' \subseteq Ids /\ Cardinality(kept') <= KeepActions
    BY <1>1, <2>1, NewestFacts DEF Created
  <2> QED BY <1>1, <2>2 DEF Created, ActTo, JobTo
<1>2. ASSUME Ticked PROVE Rest
  BY <1>2 DEF Ticked, JobTo
<1>3. ASSUME NEW p \in Engines, Moved(p) PROVE Rest
  BY <1>3 DEF Moved, JobTo
<1>4. ASSUME NEW p \in Engines, NEW id \in Ids, Settled(p, id) PROVE Rest
  <2>1. PICK b \in Actions, j \in EngineJobs : SettledAs(p, id, b, j)
    BY <1>4 DEF Settled
  <2>2. acts' \in [Ids -> Actions] /\ job' \in [Engines -> EngineJobs]
    BY <2>1 DEF SettledAs, ActTo, JobTo
  <2>3. hourly' \subseteq Ids /\ autos' \in [Ids -> Times \cup {Never}]
    <3>1. UNCHANGED <<hourly, autos>> \/ (hourly' = hourly \cup {id} /\ autos' = [autos EXCEPT ![id] = now])
      BY <2>1 DEF SettledAs
    <3> QED BY <3>1
  <2> QED BY <1>4, <2>2, <2>3 DEF Settled
<1>5. ASSUME NEW p \in Engines, NEW id \in Ids, WroteDown(p, id) PROVE Rest
  <2>1. PICK a \in Actions, j \in EngineJobs : JobTo(p, j) /\ WrittenAs(p, id, a, j) /\ LoggedAs(id, a)
    BY <1>5 DEF WroteDown
  <2>2. log' \in [Ids -> Actions] /\ cut' \in BOOLEAN /\ acts' \in [Ids -> Actions]
    BY <2>1 DEF LoggedAs, ActTo
  <2> QED BY <1>5, <2>1, <2>2 DEF WroteDown, JobTo
<1> HIDE DEF Rest
<1>6. Rest
  BY <1>1, <1>2, <1>3, <1>4, <1>5
<1> QED BY <1>6 DEF RestType, Rest

\* Handle: a detection is left alone, or becomes an action.
LEMMA HandleSteps == ASSUME EngineType, Handle PROVE EngineType' /\ Changed
<1> USE DEF memVars, listVars, lifeVars
<1> DEFINE v == Head(queue).vm
           r == Head(queue).resp
<1>0. /\ up # "down" /\ up' = up /\ job[Run].pc = "idle" /\ UNCHANGED <<now, rules, log, cut, spent>>
      /\ queue # <<>> /\ queue' = Tail(queue)
  BY DEF Handle, Free
<1>1. queue' \in Seq(Detections) /\ Len(queue') <= QueueSize /\ v \in VMs /\ r \in Responses
  <2>1. queue \in Seq(Detections) /\ Len(queue) <= QueueSize
    BY DEF EngineType
  <2>2. Head(queue) \in Detections /\ Tail(queue) \in Seq(Detections) /\ Len(Tail(queue)) = Len(queue) - 1
    BY <1>0, <2>1
  <2> QED BY <1>0, <2>1, <2>2, Constants DEF Detections
<1>2. CASE UNCHANGED <<memVars, job>>
  <2>1. now \in Nat
    BY TimerFacts DEF EngineType
  <2>2. Quiet
    BY <1>0, <1>2, <2>1 DEF Quiet, EngineType
  <2> QED BY <1>0, <1>1, <1>2, <2>2 DEF EngineType, Changed
<1> DEFINE n == next + 1
           a == [NoAction EXCEPT !.status = "new", !.vm = v, !.resp = r, !.created = now]
           j == [IdleJob EXCEPT !.pc = "decide", !.id = n, !.timed = TRUE]
<1>3. CASE ~UNCHANGED <<memVars, job>>
  <2>1. /\ ~LeftAlone(v, r) /\ next < MaxActions /\ next' = next + 1
        /\ acts' = [acts EXCEPT ![next'] = a]
        /\ unsaved' = unsaved \/ unsaved' = unsaved \cup {next'}
        /\ kept' = Newest(kept \cup {next'}) /\ cool' = [cool EXCEPT ![v][r] = now]
        /\ job' = [job EXCEPT ![Run] = [IdleJob EXCEPT !.pc = "decide", !.id = next', !.timed = TRUE]]
        /\ UNCHANGED <<hourly, autos>>
    BY <1>3, Zenon DEF Handle
  <2>2. n \in Ids
    <3>1. next < MaxActions /\ next \in Ids \cup {0} /\ MaxActions \in Nat
      BY <2>1, Constants DEF EngineType
    <3> QED BY <3>1 DEF Ids
  <2>3. a \in Actions /\ a.status = "new" /\ a.vm = v /\ a.created = now /\ a.releaseAt = 0
    <3>1. now \in Times
      BY DEF EngineType
    <3>2. "new" \in Statuses /\ 0 \in Times /\ 0 \in Timers
      BY TimerFacts DEF Statuses
    <3> HIDE DEF v, r
    <3> QED BY <1>1, <3>1, <3>2, Values DEF NoAction, Actions
  <2>4. ActTo(n, a)
    <3> HIDE DEF a
    <3> QED BY <2>1, <2>2, <2>3 DEF ActTo, EngineType
  <2>5. j \in EngineJobs /\ j.pc = "decide" /\ j.id = n /\ j.copy = NoAction /\ j.lapsed = {} /\ j.due = {}
    <3> HIDE DEF n
    <3> QED BY <2>2, Values DEF IdleJob, EngineJobs
  <2>6. JobTo(Run, j)
    <3>1. job' = [job EXCEPT ![Run] = j]
      BY <2>1
    <3> HIDE DEF j
    <3> QED BY <2>5, <3>1, Constants, NewJobFacts
  <2>7. Created(v, r)
    <3> HIDE DEF v, r, a, j
    <3> QED BY <1>0, <2>1, <2>2, <2>3, <2>4, <2>5, <2>6 DEF Created, Alive
  <2>8. RestType'
    <3>1. cool' \in [VMs -> [Responses -> Times \cup {Never}]]
      <4> HIDE DEF v, r
      <4> QED BY <1>1, <2>1 DEF EngineType
    <3>2. unsaved' \subseteq Ids
      BY <2>1, <2>2 DEF EngineType
    <3> QED BY <1>0, <1>1, <3>1, <3>2 DEF RestType, EngineType
  <2> HIDE DEF v, r
  <2> QED BY <1>1, <2>7, <2>8, ChangedType DEF Changed
<1> QED BY <1>2, <1>3

\* A handler decides and takes a copy.
LEMMA SettleFacts ==
  ASSUME EngineType, NEW p \in Engines, NEW id \in Ids, NEW st \in {"expired", "refused", "rejected"}, Settle(p, id, st)
  PROVE  \E b \in Actions, j \in EngineJobs :
           /\ ActTo(id, b) /\ Same(b, acts[id]) /\ b.status = st /\ b.releaseAt = acts[id].releaseAt
           /\ JobTo(p, j) /\ j.pc = "record" /\ j.id = id /\ j.copy = b /\ j.lapsed = {} /\ j.due = {}
<1>1. st \in Statuses /\ Decided(id, st)
  BY DEF Settle, Statuses
<1>2. PICK b \in Actions : ActTo(id, b) /\ Same(b, acts[id]) /\ b.status = st /\ b.releaseAt = acts[id].releaseAt
  BY <1>1, DecidedFacts
<1> DEFINE j == [IdleJob EXCEPT !.pc = "record", !.id = id, !.copy = b]
<1>3. j \in EngineJobs /\ j.pc = "record" /\ j.id = id /\ j.copy = b /\ j.lapsed = {} /\ j.due = {}
  BY Values DEF IdleJob, EngineJobs
<1>4. job' = [job EXCEPT ![p] = j]
  <2>1. acts'[id] = b
    BY <1>2 DEF ActTo
  <2> QED BY <2>1 DEF Settle
<1> HIDE DEF j
<1>5. JobTo(p, j)
  BY <1>3, <1>4, NewJobFacts
<1> QED BY <1>2, <1>3, <1>5

\* What JobInv says of a goroutine that is about to decide an action or has nothing to do.
LEMMA PlainJob ==
  ASSUME EngineType, JobInv, NEW p \in Engines
  PROVE  /\ job[p].pc # "record" => job[p].copy = NoAction
         /\ job[p].pc # "tick" => job[p].lapsed = {}
         /\ job[p].pc \notin {"tick", "releasing", "record"} => job[p].due = {}
         /\ job[p].pc \in {"decide", "tick", "releasing"} => p = Run
  BY DEF JobInv, JobFits

LEMMA DecideSteps == ASSUME EngineType, JobInv, Decide PROVE EngineType' /\ Changed
<1> DEFINE id == job[Run].id
<1>0. Run \in Engines /\ id \in Ids /\ acts[id] \in Actions
  BY Constants, ReadTypes
<1>1. /\ up # "down" /\ up' = up /\ job[Run].pc = "decide"
      /\ UNCHANGED <<now, rules, queue, kept, next, cool, unsaved, hourly, log, cut, autos, spent>>
  BY DEF Decide, isoVars, listVars
<1>2. job[Run].copy = NoAction /\ job[Run].lapsed = {} /\ job[Run].due = {}
  BY <1>0, <1>1, PlainJob
<1>3. RestType'
  BY <1>1 DEF EngineType, RestType
<1>4. CASE /\ Goto(Run, "execute") /\ UNCHANGED acts
           /\ ModeOf[acts[id].resp] = "enforce" /\ ~OverCap(acts[id].created)
  <2>1. PICK j \in EngineJobs : JobTo(Run, j) /\ j.pc = "execute" /\ j.id = job[Run].id /\ j.copy = job[Run].copy
                                /\ j.lapsed = job[Run].lapsed /\ j.due = job[Run].due
    BY <1>0, <1>4, GotoFacts
  <2>2. Moved(Run)
    BY <1>1, <1>4, <2>1 DEF Moved, MovedTo, Alive
  <2> QED BY <1>0, <1>3, <2>2, ChangedType DEF Changed
<1>5. ASSUME Goto(Run, "record"), NEW b \in Actions, ActTo(id, b), Same(b, acts[id]), b.status \in {"refused", "dry_run", "pending"},
             b.releaseAt = acts[id].releaseAt, b.status = "pending" => ModeOf[b.resp] = "propose"
      PROVE  EngineType' /\ Changed
  <2>1. PICK j \in EngineJobs : JobTo(Run, j) /\ j.pc = "record" /\ j.id = job[Run].id /\ j.copy = job[Run].copy
                                /\ j.lapsed = job[Run].lapsed /\ j.due = job[Run].due
    BY <1>0, <1>5, GotoFacts
  <2>2. SettledAs(Run, id, b, j)
    BY <1>1, <1>2, <1>5, <2>1 DEF SettledAs
  <2>3. Settled(Run, id)
    BY <1>1, <2>2 DEF Settled, Alive
  <2> QED BY <1>0, <1>3, <2>3, ChangedType DEF Changed
<1>6. ASSUME NEW st \in {"refused", "dry_run"}, Decided(id, st), Goto(Run, "record") PROVE EngineType' /\ Changed
  <2>1. st \in Statuses
    BY DEF Statuses
  <2>2. PICK b \in Actions : ActTo(id, b) /\ Same(b, acts[id]) /\ b.status = st /\ b.releaseAt = acts[id].releaseAt
    BY <1>0, <1>6, <2>1, DecidedFacts
  <2> QED BY <1>5, <1>6, <2>2
<1>7. CASE /\ ModeOf[acts[id].resp] = "propose" /\ Goto(Run, "record")
           /\ acts' = [acts EXCEPT ![id].status = "pending", ![id].expires = acts[id].created + Expire]
  <2> DEFINE a == acts[id]
             b == [a EXCEPT !.status = "pending", !.expires = a.created + Expire]
  <2>0. a \in Actions /\ a.created \in Times /\ a.created + Expire \in Timers /\ "pending" \in Statuses
    BY <1>0, ActionFields, TimerFacts DEF Statuses
  <2>1. b \in Actions /\ Same(b, a) /\ b.status = "pending" /\ b.releaseAt = a.releaseAt /\ b.resp = a.resp
    <3> HIDE DEF a, id
    <3> QED BY <2>0 DEF Actions, Same
  <2>2. acts' = [acts EXCEPT ![id] = b]
    BY <1>0, <1>7 DEF EngineType
  <2>3. ActTo(id, b)
    <3> HIDE DEF b
    <3> QED BY <1>0, <2>1, <2>2 DEF ActTo, EngineType
  <2> HIDE DEF b
  <2> QED BY <1>5, <1>7, <2>1, <2>3
<1>8. \/ Goto(Run, "execute") /\ UNCHANGED acts /\ ModeOf[acts[id].resp] = "enforce" /\ ~OverCap(acts[id].created)
      \/ (Decided(id, "refused") \/ Decided(id, "dry_run")) /\ Goto(Run, "record")
      \/ /\ ModeOf[acts[id].resp] = "propose" /\ Goto(Run, "record")
         /\ acts' = [acts EXCEPT ![id].status = "pending", ![id].expires = acts[id].created + Expire]
  BY DEF Decide
<1> QED BY <1>4, <1>6, <1>7, <1>8

LEMMA ExecuteSteps ==
  ASSUME EngineType, JobInv, NEW p \in Engines, ExecuteBegin(p) \/ ExecuteEnd(p) PROVE EngineType' /\ Changed
<1> USE DEF memVars, listVars, lifeVars
<1> DEFINE id == job[p].id
<1>0. id \in Ids /\ acts[id] \in Actions
  BY ReadTypes
<1>1. CASE ExecuteBegin(p)
  <2>1. /\ up # "down" /\ up' = up /\ job[p].pc = "execute" /\ Goto(p, "isolating")
        /\ UNCHANGED <<now, rules, queue, acts, kept, next, cool, unsaved, hourly, autos, log, cut, spent>>
    BY <1>1 DEF ExecuteBegin, Begin
  <2>2. PICK j \in EngineJobs : JobTo(p, j) /\ j.pc = "isolating" /\ j.id = job[p].id /\ j.copy = job[p].copy
                                /\ j.lapsed = job[p].lapsed /\ j.due = job[p].due
    BY <2>1, GotoFacts
  <2>3. Moved(p)
    BY <2>1, <2>2 DEF Moved, MovedTo, Alive
  <2>4. RestType'
    BY <2>1 DEF EngineType, RestType
  <2> QED BY <2>3, <2>4, ChangedType DEF Changed
<1>2. CASE ExecuteEnd(p)
  <2>1. /\ up # "down" /\ up' = up /\ job[p].pc = "isolating" /\ Goto(p, "record")
        /\ UNCHANGED <<now, rules, queue, kept, next, cool, unsaved, log, cut, spent>>
    BY <1>2 DEF ExecuteEnd
  <2>2. job[p].copy = NoAction /\ job[p].lapsed = {} /\ job[p].due = {}
    BY <2>1, PlainJob
  <2>3. PICK j \in EngineJobs : JobTo(p, j) /\ j.pc = "record" /\ j.id = job[p].id /\ j.copy = job[p].copy
                                /\ j.lapsed = job[p].lapsed /\ j.due = job[p].due
    BY <2>1, GotoFacts
  <2>4. ASSUME NEW b \in Actions, ActTo(id, b), Same(b, acts[id]), b.status \in {"refused", "executed", "executed_audit_degraded"},
               ReleaseAfter = 0 => b.releaseAt = acts[id].releaseAt,
               \/ UNCHANGED <<hourly, autos>>
               \/ /\ p = Run /\ b.decided = now /\ Enforced(b.status)
                  /\ hourly' = hourly \cup {id} /\ autos' = [autos EXCEPT ![id] = now]
        PROVE  EngineType' /\ Changed
    <3>1. SettledAs(p, id, b, j)
      BY <2>1, <2>2, <2>3, <2>4 DEF SettledAs
    <3>2. Settled(p, id)
      BY <2>1, <3>1 DEF Settled, Alive
    <3>3. RestType'
      BY <2>1 DEF EngineType, RestType
    <3> QED BY <1>0, <3>2, <3>3, ChangedType DEF Changed
  <2>5. CASE Decided(id, "refused") /\ UNCHANGED <<hourly, autos>>
    <3>1. "refused" \in Statuses
      BY DEF Statuses
    <3>2. PICK b \in Actions : ActTo(id, b) /\ Same(b, acts[id]) /\ b.status = "refused" /\ b.releaseAt = acts[id].releaseAt
      BY <1>0, <2>5, <3>1, DecidedFacts
    <3> QED BY <2>4, <2>5, <3>2
  <2> DEFINE status == IF id \in unsaved THEN "executed_audit_degraded" ELSE "executed"
             until == IF job[p].timed /\ ReleaseAfter > 0 THEN now + ReleaseAfter ELSE acts[id].releaseAt
  <2>6. CASE /\ acts' = [acts EXCEPT ![id].status = status, ![id].decided = now,
                           ![id].releaseAt = IF job[p].timed /\ ReleaseAfter > 0 THEN now + ReleaseAfter ELSE @]
             /\ IF p = Run THEN hourly' = hourly \cup {id} /\ autos' = [autos EXCEPT ![id] = now] ELSE UNCHANGED <<hourly, autos>>
    <3> DEFINE a == acts[id]
               b == [a EXCEPT !.status = status, !.decided = now, !.releaseAt = until]
    <3>1. status \in Statuses /\ Enforced(status) /\ status \in {"executed", "executed_audit_degraded"}
      BY DEF Enforced, Statuses
    <3>2. now \in Times /\ until \in Timers /\ (ReleaseAfter = 0 => until = a.releaseAt) /\ a \in Actions
      <4>1. now \in Times /\ a \in Actions /\ a.releaseAt \in Timers /\ now + ReleaseAfter \in Timers
        BY <1>0, ActionFields, TimerFacts DEF EngineType, Statuses
      <4>2. ReleaseAfter = 0 => ~(ReleaseAfter > 0)
        OBVIOUS
      <4> QED BY <4>1, <4>2
    <3>3. acts' = [acts EXCEPT ![id] = b]
      BY <1>0, <2>6 DEF EngineType
    <3> HIDE DEF status, until, a, id
    <3>4. b \in Actions /\ Same(b, a) /\ b.status = status /\ b.decided = now /\ b.releaseAt = until
      BY <3>1, <3>2 DEF Actions, Same
    <3> HIDE DEF b
    <3>5. ActTo(id, b)
      BY <1>0, <3>3, <3>4 DEF ActTo, EngineType
    <3> QED BY <2>4, <2>6, <3>1, <3>2, <3>4, <3>5 DEF a
  <2> HIDE DEF status
  <2> QED BY <1>2, <2>5, <2>6 DEF ExecuteEnd, status
<1> QED BY <1>1, <1>2

LEMMA DecisionSteps ==
  ASSUME EngineType, JobInv, NEW p \in Handlers,
         \/ ApproveCheck(p)
         \/ \E id \in Ids : Approve(p, id) \/ Reject(p, id)
  PROVE  EngineType' /\ Changed
<1> USE DEF listVars, isoVars
<1>0. p \in Engines
  BY Constants
<1> DEFINE Still == UNCHANGED <<now, rules, queue, kept, next, cool, unsaved, hourly, log, cut, autos>> /\ up # "down" /\ up' = up
           Spending == spent' \in [detections : 0..MaxDetections, decisions : 0..MaxDecisions, reloads : 0..MaxReloads]
<1>1. ASSUME NEW id \in Ids, NEW st \in {"expired", "refused", "rejected"}, Settle(p, id, st), Still, Spending,
             (job[p].pc = "idle" /\ Waiting(id)) \/ (job[p].id = id /\ job[p].pc = "approved")
      PROVE  EngineType' /\ Changed
  <2>1. job[p].due = {}
    BY <1>0, <1>1, PlainJob
  <2>2. PICK b \in Actions, j \in EngineJobs :
           /\ ActTo(id, b) /\ Same(b, acts[id]) /\ b.status = st /\ b.releaseAt = acts[id].releaseAt
           /\ JobTo(p, j) /\ j.pc = "record" /\ j.id = id /\ j.copy = b /\ j.lapsed = {} /\ j.due = {}
    BY SMTT(30), <1>0, <1>1, SettleFacts
  <2>3. SettledAs(p, id, b, j)
    BY <1>1, <2>1, <2>2 DEF SettledAs
  <2>4. Settled(p, id)
    BY <1>1, <2>3 DEF Settled, Alive
  <2>5. RestType'
    BY <1>1 DEF EngineType, RestType
  <2> QED BY <1>0, <1>1, <2>4, <2>5, ChangedType DEF Changed
<1>2. ASSUME NEW id \in Ids, Approve(p, id) \/ Reject(p, id) PROVE EngineType' /\ Changed
  <2>1. Still /\ job[p].pc = "idle" /\ Waiting(id)
    BY <1>2 DEF Approve, Reject, Free
  <2>2. Spending
    <3>1. Spend("decisions", MaxDecisions)
      BY <1>2 DEF Approve, Reject
    <3> QED BY <3>1, SpendFacts DEF EngineType
  <2>3. \/ Settle(p, id, "expired") \/ Settle(p, id, "rejected")
        \/ /\ UNCHANGED acts
           /\ job' = [job EXCEPT ![p] = [IdleJob EXCEPT !.pc = "approved", !.id = id, !.timed = acts[id].resp \in rules.cfg,
                                                     !.prot = acts[id].vm \in rules.protected]]
    BY <1>2, Zenon DEF Approve, Reject
  <2>4. CASE Settle(p, id, "expired") \/ Settle(p, id, "rejected")
    BY <1>1, <2>1, <2>2, <2>4
  <2> DEFINE t == acts[id].resp \in rules.cfg
             g == acts[id].vm \in rules.protected
             j == [IdleJob EXCEPT !.pc = "approved", !.id = id, !.timed = t, !.prot = g]
  <2>5. CASE UNCHANGED acts /\ job' = [job EXCEPT ![p] = j]
    <3>1. j \in EngineJobs /\ j.pc = "approved" /\ j.id = id /\ j.copy = NoAction /\ j.lapsed = {} /\ j.due = {}
      <4>1. t \in BOOLEAN /\ g \in BOOLEAN
        OBVIOUS
      <4> HIDE DEF t, g
      <4> QED BY <4>1, Values DEF IdleJob, EngineJobs
    <3> HIDE DEF j
    <3>2. JobTo(p, j)
      BY <1>0, <2>5, <3>1, NewJobFacts
    <3>3. Moved(p)
      BY <2>1, <2>5, <3>1, <3>2 DEF Moved, MovedTo, Alive
    <3>4. RestType'
      BY <2>1, <2>2 DEF EngineType, RestType
    <3> QED BY <1>0, <3>3, <3>4, ChangedType DEF Changed
  <2> QED BY <2>3, <2>4, <2>5
<1>3. CASE ApproveCheck(p)
  <2>1. Still /\ job[p].pc = "approved" /\ spent' = spent /\ job[p].id \in Ids
    BY <1>0, <1>3, ReadTypes DEF ApproveCheck
  <2>2. Spending
    BY <2>1 DEF EngineType
  <2>3. (Goto(p, "execute") /\ UNCHANGED acts) \/ Settle(p, job[p].id, "refused")
    BY <1>3 DEF ApproveCheck
  <2>4. CASE Goto(p, "execute") /\ UNCHANGED acts
    <3>1. PICK j \in EngineJobs : JobTo(p, j) /\ j.pc = "execute" /\ j.id = job[p].id /\ j.copy = job[p].copy
                                  /\ j.lapsed = job[p].lapsed /\ j.due = job[p].due
      BY <1>0, <2>4, GotoFacts
    <3>2. Moved(p)
      BY <2>1, <2>4, <3>1 DEF Moved, MovedTo, Alive
    <3>3. RestType'
      BY <2>1, <2>2 DEF EngineType, RestType
    <3> QED BY <1>0, <3>2, <3>3, ChangedType DEF Changed
  <2> QED BY <1>1, <2>1, <2>2, <2>3, <2>4
<1> QED BY <1>2, <1>3

LEMMA TickSteps ==
  ASSUME EngineType, IdInv, Tick \/ (\E id \in Ids : TickRelease(id)) \/ TickReleased \/ TickDone
  PROVE  EngineType' /\ Changed
<1> USE DEF listVars, isoVars, memVars, lifeVars
<1>0. Run \in Engines /\ job[Run].id \in Ids /\ JobInv
  BY Constants, ReadTypes DEF IdInv
<1>a. /\ UNCHANGED <<now, rules, queue, kept, next, cool, unsaved, hourly, log, cut, autos, spent>> /\ up' = up
  BY DEF Tick, TickRelease, Begin, TickReleased, TickDone
<1>b. RestType'
  BY <1>a DEF EngineType, RestType
<1>1. CASE Tick
  <2>1. /\ up # "down" /\ job[Run].pc = "idle"
        /\ acts' = [i \in Ids |-> IF i \in LapsedNow THEN [acts[i] EXCEPT !.status = "expired"] ELSE acts[i]]
        /\ job' = [job EXCEPT ![Run] = [IdleJob EXCEPT !.pc = "tick", !.lapsed = LapsedNow, !.due = DueNow]]
    BY <1>1 DEF Tick, Free, LapsedNow, DueNow
  <2>2. LapsedNow \subseteq Ids /\ DueNow \subseteq Ids
    BY DEF LapsedNow, DueNow, EngineType
  <2> DEFINE j == [IdleJob EXCEPT !.pc = "tick", !.lapsed = LapsedNow, !.due = DueNow]
  <2>3. j \in EngineJobs /\ j.pc = "tick" /\ j.copy = NoAction /\ j.lapsed = LapsedNow /\ j.due = DueNow
    BY <2>2, Values DEF IdleJob, EngineJobs
  <2>4. JobTo(Run, j)
    <3>1. job' = [job EXCEPT ![Run] = j]
      BY <2>1
    <3> HIDE DEF j
    <3> QED BY <1>0, <2>3, <3>1, NewJobFacts
  <2>5. \A i \in Ids : LET b == [acts[i] EXCEPT !.status = "expired"]
                       IN b \in Actions /\ Same(b, acts[i]) /\ b.status = "expired" /\ b.releaseAt = acts[i].releaseAt
    <3>1. "expired" \in Statuses
      BY DEF Statuses
    <3> QED BY <3>1, ReadTypes, ActionFields DEF Same
  <2>6. acts' \in [Ids -> Actions]
    BY <2>1, <2>5, ReadTypes
  <2>7. /\ \A i \in Ids \ LapsedNow : acts'[i] = acts[i]
        /\ \A i \in LapsedNow : Same(acts'[i], acts[i]) /\ acts'[i].status = "expired" /\ acts'[i].releaseAt = acts[i].releaseAt
    BY <2>1, <2>2, <2>5
  <2>8. Ticked
    <3> HIDE DEF j
    <3> QED BY <1>a, <2>1, <2>3, <2>4, <2>6, <2>7 DEF Ticked, Alive
  <2> QED BY <1>b, <2>8, ChangedType DEF Changed
<1>2. ASSUME NEW id \in Ids, TickRelease(id) PROVE EngineType' /\ Changed
  <2>1. /\ up # "down" /\ job[Run].pc = "tick" /\ job[Run].lapsed = {} /\ id \in job[Run].due /\ UNCHANGED acts
        /\ job' = [job EXCEPT ![Run].pc = "releasing", ![Run].id = id]
    BY <1>2 DEF TickRelease, Begin
  <2> DEFINE j == [job[Run] EXCEPT !.pc = "releasing", !.id = id]
  <2>2. j \in EngineJobs /\ j.pc = "releasing" /\ j.id = id /\ j.copy = job[Run].copy /\ j.lapsed = job[Run].lapsed /\ j.due = job[Run].due
    BY <1>0, ReadTypes DEF EngineJobs
  <2>3. JobTo(Run, j)
    <3>1. job' = [job EXCEPT ![Run] = j]
      BY <2>1
    <3> HIDE DEF j
    <3> QED BY <1>0, <2>2, <3>1, NewJobFacts
  <2>4. Moved(Run)
    <3> HIDE DEF j
    <3> QED BY <1>a, <2>1, <2>2, <2>3 DEF Moved, MovedTo, Alive
  <2> QED BY <1>0, <1>b, <2>4, ChangedType DEF Changed
<1>3. CASE TickReleased
  <2> DEFINE id == job[Run].id
  <2>1. up # "down" /\ job[Run].pc = "releasing" /\ Decided(id, "released") /\ Goto(Run, "record")
    BY <1>3 DEF TickReleased, Decided
  <2>2. job[Run].copy = NoAction /\ job[Run].lapsed = {}
    BY <1>0, <2>1, PlainJob
  <2>3. "released" \in Statuses
    BY DEF Statuses
  <2>4. PICK b \in Actions : ActTo(id, b) /\ Same(b, acts[id]) /\ b.status = "released" /\ b.releaseAt = acts[id].releaseAt
    BY <1>0, <2>1, <2>3, DecidedFacts
  <2>5. PICK j \in EngineJobs : JobTo(Run, j) /\ j.pc = "record" /\ j.id = job[Run].id /\ j.copy = job[Run].copy
                                /\ j.lapsed = job[Run].lapsed /\ j.due = job[Run].due
    BY <1>0, <2>1, GotoFacts
  <2>6. SettledAs(Run, id, b, j)
    BY <1>a, <2>1, <2>2, <2>4, <2>5 DEF SettledAs
  <2>7. Settled(Run, id)
    BY <1>a, <2>1, <2>6 DEF Settled, Alive
  <2> QED BY <1>0, <1>b, <2>7, ChangedType DEF Changed
<1>4. CASE TickDone
  <2>1. /\ job[Run].pc = "tick" /\ job[Run].lapsed = {} /\ job[Run].due = {} /\ UNCHANGED acts
        /\ job' = [job EXCEPT ![Run] = IdleJob]
    BY <1>4 DEF TickDone, Finish
  <2>2. JobTo(Run, IdleJob) /\ IdleJob \in EngineJobs
    BY <1>0, <2>1, Values, NewJobFacts
  <2>3. up # "down"
    BY <1>0, <2>1, Values DEF IdInv, KnownInv
  <2>4. Moved(Run)
    BY <1>a, <2>1, <2>2, <2>3 DEF Moved, MovedTo, Alive
  <2> QED BY <1>0, <1>b, <2>4, ChangedType DEF Changed
<1> QED BY <1>1, <1>2, <1>3, <1>4

\* What is appended, and what a failed append leaves.
LEMMA WriteDownFacts ==
  ASSUME EngineType, NEW id \in Ids, NEW a \in Actions, WriteDown(id, a)
  PROVE  LoggedAs(id, a)
<1>0. log \in [Ids -> Actions] /\ acts \in [Ids -> Actions] /\ acts[id] \in Actions /\ log[id] \in Actions
  BY DEF EngineType
<1>1. ASSUME NEW l \in {log} \cup {[log EXCEPT ![id] = b] : b \in Actions}, log' = l
      PROVE  log' \in [Ids -> Actions] /\ \A i \in Ids \ {id} : log'[i] = log[i]
  BY <1>0, <1>1
<1>2. ASSUME NEW b \in Actions PROVE [log EXCEPT ![id] = b][id] = b
  BY <1>0
<1>3. CASE log' = [log EXCEPT ![id] = a] /\ UNCHANGED <<acts, cut, faults>>
  <2>1. log' \in [Ids -> Actions] /\ (\A i \in Ids \ {id} : log'[i] = log[i]) /\ log'[id] = a
    BY <1>1, <1>2, <1>3
  <2> QED BY <1>3, <2>1 DEF LoggedAs
<1>4. CASE /\ cut' = TRUE /\ UNCHANGED acts /\ (log' = log \/ log' = [log EXCEPT ![id] = a])
  <2>1. log' \in [Ids -> Actions] /\ (\A i \in Ids \ {id} : log'[i] = log[i]) /\ log'[id] \in {log[id], a}
    BY <1>1, <1>2, <1>4
  <2> QED BY <1>4, <2>1 DEF LoggedAs
<1>5. CASE /\ cut' = TRUE /\ a.status = "executed" /\ acts' = [acts EXCEPT ![id].status = "executed_audit_degraded"]
           /\ log' \in {log, [log EXCEPT ![id] = a], [log EXCEPT ![id] = acts'[id]]}
  <2>0. Decided(id, "executed_audit_degraded") /\ "executed_audit_degraded" \in Statuses
    BY <1>5 DEF Decided, Statuses
  <2>1. PICK b \in Actions : ActTo(id, b) /\ Same(b, acts[id]) /\ b.status = "executed_audit_degraded" /\ b.releaseAt = acts[id].releaseAt
    BY <2>0, DecidedFacts
  <2>2. acts'[id] = b
    BY <2>1 DEF ActTo
  <2>3. log' \in [Ids -> Actions] /\ (\A i \in Ids \ {id} : log'[i] = log[i]) /\ log'[id] \in {log[id], a, acts'[id]}
    BY <1>1, <1>2, <1>5, <2>2
  <2> QED BY <1>5, <2>1, <2>3 DEF LoggedAs
<1>6. \/ log' = [log EXCEPT ![id] = a] /\ UNCHANGED <<acts, cut, faults>>
      \/ /\ cut' = TRUE /\ UNCHANGED acts /\ (log' = log \/ log' = [log EXCEPT ![id] = a])
      \/ /\ cut' = TRUE /\ a.status = "executed" /\ acts' = [acts EXCEPT ![id].status = "executed_audit_degraded"]
         /\ log' \in {log, [log EXCEPT ![id] = a], [log EXCEPT ![id] = acts'[id]]}
  BY Zenon DEF WriteDown
<1> QED BY <1>3, <1>4, <1>5, <1>6

LEMMA WriteSteps ==
  ASSUME EngineType, (\E p \in Engines : WriteAction(p)) \/ (\E id \in Ids : TickLapsed(id))
  PROVE  EngineType' /\ Changed
<1> USE DEF listVars, lifeVars
<1>a. /\ UNCHANGED <<now, rules, queue, kept, next, cool, unsaved, hourly, autos, spent>> /\ up' = up /\ up # "down"
  BY DEF WriteAction, TickLapsed
<1>b. RestType'
  BY <1>a DEF EngineType, RestType
<1>1. ASSUME NEW p \in Engines, WriteAction(p) PROVE EngineType' /\ Changed
  <2> DEFINE id == job[p].id
             a == Written(p)
             k == [job[p] EXCEPT !.pc = "tick", !.due = job[p].due \ {id}]
  <2>0. job[p].pc = "record" /\ id \in Ids /\ a \in Actions /\ WriteDown(id, a)
    BY <1>1, ReadTypes DEF WriteAction, Written
  <2>1. LoggedAs(id, a)
    BY <2>0, WriteDownFacts
  <2>2. IF job[p].due # {} THEN job' = [job EXCEPT ![p].pc = "tick", ![p].due = @ \ {id}] ELSE job' = [job EXCEPT ![p] = IdleJob]
    BY <1>1 DEF WriteAction, Finish
  <2>3. \E j \in EngineJobs : JobTo(p, j) /\ WrittenAs(p, id, a, j)
    <3>1. CASE job[p].due = {}
      <4>1. JobTo(p, IdleJob) /\ IdleJob \in EngineJobs
        BY <2>2, <3>1, Values, NewJobFacts
      <4> QED BY <2>0, <3>1, <4>1 DEF WrittenAs
    <3>2. CASE job[p].due # {}
      <4>1. job' = [job EXCEPT ![p] = k]
        BY <2>2, <3>2
      <4>2. k \in EngineJobs /\ k.pc = "tick" /\ k.due = job[p].due \ {id} /\ k.lapsed = job[p].lapsed /\ k.copy = job[p].copy
        BY ReadTypes DEF EngineJobs
      <4> HIDE DEF k
      <4>3. JobTo(p, k)
        BY <4>1, <4>2, NewJobFacts
      <4> QED BY <2>0, <3>2, <4>2, <4>3 DEF WrittenAs
    <3> QED BY <3>1, <3>2
  <2>4. WroteDown(p, id)
    BY <1>a, <2>0, <2>1, <2>3 DEF WroteDown, Alive
  <2> QED BY <1>b, <2>0, <2>4, ChangedType DEF Changed
<1>2. ASSUME NEW id \in Ids, TickLapsed(id) PROVE EngineType' /\ Changed
  <2>0. /\ Run \in Engines /\ job[Run].pc = "tick" /\ id \in job[Run].lapsed /\ acts[id] \in Actions
        /\ WriteDown(id, acts[id]) /\ job' = [job EXCEPT ![Run].lapsed = @ \ {id}]
    BY <1>2, Constants, ReadTypes DEF TickLapsed
  <2>1. LoggedAs(id, acts[id])
    BY <2>0, WriteDownFacts
  <2> DEFINE j == [job[Run] EXCEPT !.lapsed = job[Run].lapsed \ {id}]
  <2>2. j \in EngineJobs /\ j.pc = "tick" /\ j.lapsed = job[Run].lapsed \ {id} /\ j.due = job[Run].due /\ j.copy = job[Run].copy
    BY <2>0, ReadTypes DEF EngineJobs
  <2>3. job' = [job EXCEPT ![Run] = j]
    BY <2>0
  <2> HIDE DEF j
  <2>4. JobTo(Run, j)
    BY <2>0, <2>2, <2>3, NewJobFacts
  <2>5. WrittenAs(Run, id, acts[id], j)
    BY <2>0, <2>2 DEF WrittenAs
  <2>6. WroteDown(Run, id)
    BY <1>a, <2>0, <2>1, <2>2, <2>4, <2>5 DEF WroteDown, Alive
  <2> QED BY <1>b, <2>0, <2>6, ChangedType DEF Changed
<1> QED BY <1>1, <1>2

\* Every step is one of the eight.
LEMMA EngineSteps == ASSUME EngineType, IdInv, [Next]_allVars PROVE EngineType' /\ Changed
<1>0. Run \in Engines /\ Handlers \subseteq Engines /\ JobInv
  BY Constants DEF IdInv
<1>1. CASE RunStep
  BY <1>0, <1>1, HandleSteps, DecideSteps, ExecuteSteps, WriteSteps, TickSteps DEF RunStep, EngineStep
<1>2. ASSUME NEW p \in Handlers, HandlerStep(p) \/ \E id \in Ids : Approve(p, id) \/ Reject(p, id) PROVE EngineType' /\ Changed
  BY <1>0, <1>2, ExecuteSteps, WriteSteps, DecisionSteps DEF HandlerStep, EngineStep
<1>3. CASE (Crash \/ Exit) /\ EngineForgets
  BY <1>3, LifeSteps DEF Changed
<1>4. CASE Start /\ Restore
  BY <1>4, LifeSteps DEF Changed
<1>5. CASE \/ \E v \in VMs, r \in Responses : Detect(v, r)
           \/ Clock \/ Reload \/ Around \/ ((ShutdownTaps \/ DetachAll) /\ UNCHANGED respVars) \/ UNCHANGED allVars
  BY <1>5, QuietSteps DEF Changed
<1> QED BY <1>1, <1>2, <1>3, <1>4, <1>5 DEF Next, EngineLife

-----------------------------------------------------------------------------
(* An id is given once.                                                    *)

\* Every action stays the one it is.
ActsKeep == Known' = Known /\ \A i \in Ids : Same(acts'[i], acts[i]) /\ (acts'[i].status = "none" <=> acts[i].status = "none")

LEMMA SameAct ==
  ASSUME EngineType, NEW id \in Known, NEW b, ActTo(id, b), Same(b, acts[id]), b.status # "none"
  PROVE  ActsKeep
<1>1. \A i \in Ids : Same(acts'[i], acts[i]) /\ (acts'[i].status = "none" <=> acts[i].status = "none")
  BY DEF ActTo, Same, Known
<1> QED BY <1>1 DEF ActsKeep, Known

\* A step on one goroutine, or a Tick, gives no id and takes none.
LEMMA KeptActs ==
  ASSUME EngineType, IdInv
  PROVE  /\ \A p \in Engines : Moved(p) => ActsKeep
         /\ \A p \in Engines, id \in Ids : Settled(p, id) => ActsKeep /\ id \in Known
         /\ Ticked => ActsKeep
         /\ \A p \in Engines, id \in Ids : WroteDown(p, id) => ActsKeep /\ id \in Known
<1> USE DEF IdInv, KnownInv, JobInv
<1>0. ASSUME acts' = acts PROVE ActsKeep
  BY <1>0 DEF ActsKeep, Same, Known
<1>a. kept \subseteq Known /\ Known \subseteq Ids
  <2>1. Known \in SUBSET Ids
    BY DEF Known
  <2> QED BY <2>1, NewestFacts
<1>1. ASSUME NEW p \in Engines, Moved(p) PROVE ActsKeep
  BY <1>0, <1>1 DEF Moved
<1>2. ASSUME NEW p \in Engines, NEW id \in Ids, Settled(p, id) PROVE ActsKeep /\ id \in Known
  <2>1. PICK b \in Actions, j \in EngineJobs : SettledAs(p, id, b, j)
    BY <1>2 DEF Settled
  <2>2. id \in Known
    BY <1>a, <2>1 DEF SettledAs, Waiting, JobFits, Busy
  <2>3. ActTo(id, b) /\ Same(b, acts[id]) /\ b.status # "none"
    BY <2>1 DEF SettledAs
  <2> QED BY <2>2, <2>3, SameAct
<1>3. ASSUME Ticked PROVE ActsKeep
  <2>1. \A i \in LapsedNow : acts[i].status = "pending"
    BY DEF LapsedNow, Lapsed
  <2>2. \A i \in Ids : Same(acts'[i], acts[i]) /\ (acts'[i].status = "none" <=> acts[i].status = "none")
    BY <1>3, <2>1 DEF Ticked, Same
  <2> QED BY <2>2 DEF ActsKeep, Known
<1>4. ASSUME NEW p \in Engines, NEW id \in Ids, WroteDown(p, id) PROVE ActsKeep /\ id \in Known
  <2>1. PICK a \in Actions, j \in EngineJobs : JobTo(p, j) /\ WrittenAs(p, id, a, j) /\ LoggedAs(id, a)
    BY <1>4 DEF WroteDown
  <2>2. id \in Known
    BY <2>1 DEF WrittenAs, JobFits, Busy
  <2>3. acts' = acts \/ \E b \in Actions : ActTo(id, b) /\ Same(b, acts[id]) /\ b.status = "executed_audit_degraded"
    BY <2>1 DEF LoggedAs
  <2> QED BY <1>0, <2>2, <2>3, SameAct
<1> QED BY <1>1, <1>2, <1>3, <1>4

\* The goroutines a step leaves alone still fit.
LEMMA OthersFit ==
  ASSUME EngineType, JobInv, ActsKeep, NEW q \in Engines, job'[q] = job[q]
  PROVE  JobFits(q)'
<1>1. JobFits(q) /\ job[q].id \in Ids
  BY ReadTypes DEF JobInv
<1>2. Same(job[q].copy, acts[job[q].id]) => Same(job[q].copy, acts'[job[q].id])
  BY <1>1 DEF ActsKeep, Same
<1> QED BY <1>1, <1>2 DEF JobFits, Busy, ActsKeep

\* What is known of an action stays the same when nothing but its status moves.
LEMMA KnownKept ==
  ASSUME EngineType, IdInv, ActsKeep, Alive, UNCHANGED <<kept, next>>,
         \A i \in Ids : log'[i] = log[i] \/ (i \in Known /\ Same(acts'[i], log'[i]))
  PROVE  KnownInv' /\ SameInv'
<1>1. KnownInv'
  <2>1. OnFile \subseteq Known
    BY DEF IdInv, KnownInv, Alive
  <2>2. OnFile' \subseteq Known
    BY <2>1 DEF OnFile
  <2> QED BY <2>2 DEF IdInv, KnownInv, Alive, ActsKeep
<1>2. SameInv'
  <2> SUFFICES ASSUME NEW i \in Known, log'[i].status # "none" PROVE Same(acts'[i], log'[i])
    BY DEF SameInv, ActsKeep
  <2>1. i \in Ids
    BY DEF Known
  <2> QED BY <2>1 DEF IdInv, SameInv, ActsKeep, Same
<1> QED BY <1>1, <1>2

LEMMA IdKept ==
  ASSUME EngineType, IdInv,
         \/ Ticked
         \/ \E p \in Engines : Moved(p) \/ \E id \in Ids : Settled(p, id) \/ WroteDown(p, id)
  PROVE  IdInv'
<1> USE Constants
<1>0. ActsKeep /\ JobInv
  BY KeptActs DEF IdInv
<1>a. kept \subseteq Known /\ Known \subseteq Ids
  <2>1. Known \in SUBSET Ids
    BY DEF Known
  <2> QED BY <2>1, NewestFacts DEF IdInv, KnownInv
<1>b. Known' = Known /\ \A i \in Ids : Same(acts'[i], acts[i])
  BY <1>0 DEF ActsKeep
<1>1. CASE Ticked
  <2>1. PICK j \in EngineJobs : JobTo(Run, j) /\ j.pc = "tick" /\ j.copy = NoAction /\ j.lapsed = LapsedNow /\ j.due = DueNow
    BY <1>1 DEF Ticked
  <2>2. JobFits(Run)'
    BY <1>a, <1>b, <2>1 DEF JobTo, JobFits, Busy, LapsedNow, DueNow
  <2>3. \A q \in Engines : JobFits(q)'
    BY <1>0, <2>1, <2>2, OthersFit DEF JobTo
  <2> QED BY <1>0, <1>1, <2>3, KnownKept DEF Ticked, IdInv, JobInv
<1>2. ASSUME NEW p \in Engines, Moved(p) PROVE IdInv'
  <2>1. PICK j \in EngineJobs : JobTo(p, j) /\ MovedTo(p, j)
    BY <1>2 DEF Moved
  <2>2. acts' = acts /\ JobFits(p) /\ job'[p] = j
    BY <1>0, <1>2, <2>1 DEF Moved, JobInv, JobTo
  <2>3. JobFits(p)'
    BY <1>a, <1>b, <2>1, <2>2, Values DEF MovedTo, JobFits, Busy, Waiting
  <2>4. \A q \in Engines : JobFits(q)'
    BY <1>0, <2>1, <2>3, OthersFit DEF JobTo
  <2> QED BY <1>0, <1>2, <2>4, KnownKept DEF Moved, IdInv, JobInv
<1>3. ASSUME NEW p \in Engines, NEW id \in Ids, Settled(p, id) PROVE IdInv'
  <2>1. PICK b \in Actions, j \in EngineJobs : SettledAs(p, id, b, j)
    BY <1>3 DEF Settled
  <2>2. id \in Known /\ JobFits(p) /\ job'[p] = j /\ acts'[id] = b
    BY <1>0, <1>3, <2>1, KeptActs DEF SettledAs, JobInv, JobTo, ActTo
  <2>3. JobFits(p)'
    BY <1>b, <2>1, <2>2 DEF SettledAs, JobFits, Busy, Same
  <2>4. \A q \in Engines : JobFits(q)'
    BY <1>0, <2>1, <2>3, OthersFit DEF SettledAs, JobTo
  <2> QED BY <1>0, <1>3, <2>4, KnownKept DEF Settled, IdInv, JobInv
<1>4. ASSUME NEW p \in Engines, NEW id \in Ids, WroteDown(p, id) PROVE IdInv'
  <2>1. PICK a \in Actions, j \in EngineJobs : JobTo(p, j) /\ WrittenAs(p, id, a, j) /\ LoggedAs(id, a)
    BY <1>4 DEF WroteDown
  <2>2. id \in Known /\ JobFits(p) /\ job'[p] = j
    BY <1>0, <1>4, <2>1, KeptActs DEF JobInv, JobTo
  <2>3. JobFits(p)'
    BY <1>b, <2>1, <2>2, Values DEF WrittenAs, JobFits, Busy
  <2>4. \A q \in Engines : JobFits(q)'
    BY <1>0, <2>1, <2>3, OthersFit DEF JobTo
  <2>5. Same(a, acts[id])
    BY <2>1, <2>2 DEF WrittenAs, Written, JobFits, Same
  <2>6. \A i \in Ids : log'[i] = log[i] \/ (i \in Known /\ Same(acts'[i], log'[i]))
    <3>1. \A i \in Ids \ {id} : log'[i] = log[i]
      BY <2>1 DEF LoggedAs
    <3>2. log'[id] = log[id] \/ log'[id] = a \/ log'[id] = acts'[id]
      BY <2>1 DEF LoggedAs
    <3>3. Same(acts'[id], log'[id]) \/ log'[id] = log[id]
      BY <1>b, <2>5, <3>2 DEF Same
    <3> QED BY <2>2, <3>1, <3>3
  <2> QED BY <1>0, <1>4, <2>4, <2>6, KnownKept DEF WroteDown, IdInv, JobInv
<1> QED BY <1>1, <1>2, <1>3, <1>4

LEMMA IdCreated ==
  ASSUME EngineType, IdInv, NEW v \in VMs, NEW r \in Responses, Created(v, r)
  PROVE  /\ IdInv' /\ next + 1 \in Ids /\ Known' = Known \cup {next + 1} /\ next + 1 \notin Known
         /\ log[next + 1].status = "none" /\ \A i \in Known : i < next + 1
<1> DEFINE n == next + 1
<1>0. next \in Nat /\ n \in Ids /\ n \in Nat /\ Ids \subseteq Nat /\ up # "down" /\ Run \in Engines
  BY Constants DEF EngineType, Created, Alive
<1>1. PICK a \in Actions : ActTo(n, a) /\ a.status = "new" /\ a.vm = v /\ a.created = now /\ a.releaseAt = 0
  BY DEF Created
<1>2. PICK j \in EngineJobs : JobTo(Run, j) /\ j.pc = "decide" /\ j.id = n /\ j.copy = NoAction /\ j.lapsed = {} /\ j.due = {}
  BY DEF Created
<1>3. Known \in SUBSET Ids /\ n \notin Known /\ \A i \in Known : i < n
  <2>1. Known \subseteq 1..next /\ Known \subseteq Ids
    BY DEF IdInv, KnownInv, Known
  <2> QED BY <1>0, <2>1
<1>4. Known' = Known \cup {n}
  BY <1>0, <1>1 DEF Known, ActTo
<1>5. kept' = Newest(Known')
  <2>1. kept' = Newest(Newest(Known) \cup {n})
    BY DEF IdInv, KnownInv, Created
  <2>2. Newest(Newest(Known) \cup {n}) = Newest(Known \cup {n})
    BY <1>0, <1>3, NewestAdd
  <2> QED BY <1>4, <2>1, <2>2
<1>6. OnFile' = OnFile /\ OnFile \subseteq Known /\ log' = log
  BY <1>0 DEF IdInv, KnownInv, OnFile, Created
<1>7. log[n].status = "none"
  BY <1>0, <1>3, <1>6 DEF OnFile
<1>8. Known' \subseteq 1..next'
  <2>1. next' = n /\ Known \subseteq 1..next
    BY DEF Created, IdInv, KnownInv
  <2> QED BY <1>0, <1>4, <2>1
<1>9. KnownInv'
  <2>1. up' # "down"
    BY <1>0 DEF Created, Alive
  <2> QED BY <1>4, <1>5, <1>6, <1>8, <2>1 DEF KnownInv
<1>10. SameInv'
  <2>1. \A i \in Known : acts'[i] = acts[i]
    BY <1>1, <1>3 DEF ActTo
  <2> QED BY <1>4, <1>6, <1>7, <2>1 DEF IdInv, SameInv
<1>11. JobInv'
  <2>1. JobFits(Run)'
    BY <1>0, <1>2, <1>4 DEF JobTo, JobFits, Busy
  <2>2. ASSUME NEW q \in Engines \ {Run} PROVE JobFits(q)'
    <3>1. JobFits(q) /\ job'[q] = job[q]
      BY <1>2 DEF IdInv, JobInv, JobTo
    <3>2. job[q].copy # NoAction => acts'[job[q].id] = acts[job[q].id]
      BY <1>1, <1>3, <3>1 DEF JobFits, Busy, ActTo
    <3> QED BY <1>4, <3>1, <3>2 DEF JobFits, Busy
  <2> QED BY <2>1, <2>2 DEF JobInv
<1> QED BY <1>0, <1>3, <1>4, <1>7, <1>9, <1>10, <1>11 DEF IdInv

LEMMA IdLife ==
  ASSUME EngineType, IdInv, Quiet \/ Forgot \/ Restored
  PROVE  IdInv'
<1> USE Constants, Values
<1>0. Newest({}) = {}
  BY NewestFacts
<1>1. CASE Quiet
  BY <1>1 DEF Quiet, IdInv, KnownInv, SameInv, JobInv, JobFits, Known, OnFile, Busy
<1>2. ASSUME \A p \in Engines : job'[p] = IdleJob PROVE JobInv'
  BY <1>2 DEF JobInv, JobFits, Busy
<1>3. CASE Forgot
  <2>1. Known' = {}
    BY <1>3 DEF Forgot, Known
  <2>2. \A p \in Engines : job'[p] = IdleJob
    BY <1>3 DEF Forgot
  <2> QED BY <1>0, <1>2, <1>3, <2>1, <2>2 DEF Forgot, IdInv, KnownInv, SameInv
<1>4. CASE Restored
  <2>1. Known' = OnFile /\ OnFile' = OnFile /\ OnFile \subseteq Ids
    BY <1>4 DEF Restored, Known, OnFile
  <2>2. \A p \in Engines : job'[p] = IdleJob
    BY <1>4 DEF Restored, IdInv, KnownInv
  <2>3. OnFile \subseteq 1..next'
    <3>1. OnFile \cup {0} \subseteq Ids \cup {0} /\ OnFile \cup {0} # {}
      BY <2>1
    <3>2. Max(OnFile \cup {0}) \in OnFile \cup {0} /\ \A y \in OnFile \cup {0} : y <= Max(OnFile \cup {0})
      BY <3>1, Greatest
    <3>3. next' = Max(OnFile \cup {0})
      BY <1>4 DEF Restored, RestoredNext
    <3> HIDE DEF OnFile
    <3>4. next' \in Ids \cup {0} /\ \A y \in OnFile : y <= next'
      BY <2>1, <3>2, <3>3
    <3> QED BY <2>1, <3>4 DEF Ids
  <2>4. SameInv'
    BY <1>4 DEF Restored, SameInv, Same
  <2> QED BY <1>2, <1>4, <2>1, <2>2, <2>3, <2>4 DEF Restored, IdInv, KnownInv
<1> QED BY <1>1, <1>3, <1>4

LEMMA IdStep == ASSUME EngineType, IdInv, Changed PROVE IdInv'
  BY IdKept, IdCreated, IdLife DEF Changed

LEMMA EngineInit == Init => EngineType /\ IdInv
<1> SUFFICES ASSUME Init PROVE EngineType /\ IdInv
  OBVIOUS
<1> USE Constants, Values
<1>1. /\ now = 0 /\ rules \in Rules /\ queue = <<>> /\ acts = [i \in Ids |-> NoAction] /\ kept = {} /\ next = 0
      /\ unsaved = {} /\ hourly = {} /\ cool = [v \in VMs |-> [r \in Responses |-> Never]]
      /\ log = [i \in Ids |-> NoAction] /\ cut = FALSE /\ job = [p \in Engines |-> IdleJob]
      /\ autos = [i \in Ids |-> Never] /\ spent = [detections |-> 0, decisions |-> 0, reloads |-> 0] /\ up = "down"
  BY DEF Init, IsoInit
<1>2. Cardinality({}) = 0 /\ Newest({}) = {}
  BY FS_EmptySet, NewestFacts
<1>3. now \in Times /\ Cardinality(kept) <= KeepActions /\ Len(queue) <= QueueSize /\ queue \in Seq(Detections)
  BY <1>1, <1>2, TimerFacts
<1>4. EngineType
  <2>1. spent \in [detections : 0..MaxDetections, decisions : 0..MaxDecisions, reloads : 0..MaxReloads]
    BY <1>1
  <2>2. cool \in [VMs -> [Responses -> Times \cup {Never}]] /\ autos \in [Ids -> Times \cup {Never}]
    BY <1>1
  <2> QED BY <1>1, <1>3, <2>1, <2>2 DEF EngineType
<1>5. IdInv
  <2>1. Known = {}
    BY <1>1 DEF Known
  <2>2. JobInv
    BY <1>1 DEF JobInv, JobFits, Busy
  <2> QED BY <1>1, <1>2, <2>1, <2>2 DEF IdInv, KnownInv, SameInv
<1> QED BY <1>4, <1>5

-----------------------------------------------------------------------------
(* What the engine does is, to Isolation, a step of its own or a use of it. *)

LEMMA IsoSide == ASSUME TypeOK, [Next]_allVars PROVE [IsoStep]_isoVars
<1> USE Constants DEF isoVars, lifeVars, tapVars, logVars
<1>0. /\ \A p \in Engines : job[p].id \in Ids
      /\ \A i \in Ids : acts[i].vm \in VMs
  BY TypeSplit, ReadTypes, ActionFields DEF Statuses
<1>1. ASSUME NEW p \in Engines, ExecuteBegin(p) PROVE EngineUse
  <2>1. Begin(p, "isolate", acts[job[p].id].vm) /\ UNCHANGED calls
    BY <1>1 DEF ExecuteBegin
  <2> QED BY <1>0, <2>1 DEF EngineUse, Acts
<1>2. ASSUME NEW id \in Ids, TickRelease(id) PROVE EngineUse
  <2>1. Begin(Run, "release", acts[id].vm) /\ UNCHANGED calls
    BY <1>2 DEF TickRelease
  <2> QED BY <1>0, <2>1 DEF EngineUse, Acts
<1>3. ASSUME NEW p \in Engines, ExecuteEnd(p) \/ (p = Run /\ TickReleased) PROVE Answer(p)
  BY <1>3 DEF ExecuteEnd, TickReleased, Answer
<1>4. ASSUME NEW id, NEW a, WriteDown(id, a), UNCHANGED <<lifeVars, tapVars, flag, logVars, call, calls>>
      PROVE  EngineUse \/ UNCHANGED isoVars
  <2>1. UNCHANGED faults \/ Fault
    BY <1>4, Zenon DEF WriteDown
  <2> QED BY <1>4, <2>1 DEF EngineUse
<1>5. ASSUME NEW p \in Engines, WriteAction(p) PROVE EngineUse \/ UNCHANGED isoVars
  <2>1. WriteDown(job[p].id, Written(p)) /\ UNCHANGED <<lifeVars, tapVars, flag, logVars, call, calls>>
    BY <1>5 DEF WriteAction
  <2> QED BY <1>4, <2>1
<1>6. ASSUME NEW id \in Ids, TickLapsed(id) PROVE EngineUse \/ UNCHANGED isoVars
  <2>1. WriteDown(id, acts[id]) /\ UNCHANGED <<lifeVars, tapVars, flag, logVars, call, calls>>
    BY <1>6 DEF TickLapsed
  <2> QED BY <1>4, <2>1
<1>7. ASSUME Handle PROVE EngineUse \/ UNCHANGED isoVars
  <2>1. UNCHANGED faults \/ Fault
    BY <1>7, Zenon DEF Handle
  <2>2. UNCHANGED <<lifeVars, tapVars, flag, logVars, call, calls>>
    BY <1>7 DEF Handle
  <2> QED BY <2>1, <2>2 DEF EngineUse
<1>8. CASE Decide \/ Tick \/ TickDone \/ Clock \/ Reload \/ (\E v \in VMs, r \in Responses : Detect(v, r)) \/ UNCHANGED allVars
  BY <1>8 DEF Decide, Tick, TickDone, Clock, Reload, Detect, allVars
<1>9. ASSUME NEW p \in Handlers, ApproveCheck(p) \/ \E id \in Ids : Approve(p, id) \/ Reject(p, id) PROVE UNCHANGED isoVars
  BY <1>9 DEF ApproveCheck, Approve, Reject
<1>10. CASE Around
  BY <1>10 DEF Around, IsoStep, IsoNext
<1>11. CASE EngineLife
  BY <1>11 DEF EngineLife, IsoStep, IsoNext, Life
<1>12. ASSUME NEW p \in Engines, EngineStep(p) PROVE [IsoStep]_isoVars
  BY <1>1, <1>3, <1>5, <1>12 DEF EngineStep, IsoStep, IsoNext
<1>13. CASE RunStep
  BY <1>2, <1>3, <1>6, <1>7, <1>8, <1>12, <1>13 DEF RunStep, IsoStep, IsoNext
<1> QED BY <1>8, <1>9, <1>10, <1>11, <1>12, <1>13 DEF Next, HandlerStep

-----------------------------------------------------------------------------
(* The types, the ids and the isolated taps.                               *)

\* The body of IdsAreForever.
IdsStay ==
  [\A i \in Ids : log[i].status # "none" =>
     /\ log'[i].vm = log[i].vm /\ log'[i].resp = log[i].resp /\ log'[i].created = log[i].created]_allVars

LEMMA FileKeepsIds == ASSUME EngineType, IdInv, Changed PROVE IdsStay
<1> SUFFICES ASSUME NEW i \in Ids, log[i].status # "none" PROVE Same(log'[i], log[i])
  BY DEF IdsStay, Same
<1>1. CASE log'[i] = log[i]
  BY <1>1 DEF Same
<1>2. ASSUME NEW p \in Engines, NEW id \in Ids, WroteDown(p, id) PROVE Same(log'[i], log[i])
  <2>1. PICK a \in Actions, j \in EngineJobs : JobTo(p, j) /\ WrittenAs(p, id, a, j) /\ LoggedAs(id, a)
    BY <1>2 DEF WroteDown
  <2>2. id \in Known /\ JobFits(p) /\ Same(acts'[id], acts[id])
    BY <1>2, KeptActs DEF IdInv, JobInv, ActsKeep
  <2>3. Same(a, acts[id])
    BY <2>1, <2>2 DEF WrittenAs, Written, JobFits, Same
  <2>4. CASE i = id
    <3>1. Same(acts[id], log[id])
      BY <2>2, <2>4 DEF IdInv, SameInv
    <3>2. log'[id] = log[id] \/ log'[id] = a \/ log'[id] = acts'[id]
      BY <2>1 DEF LoggedAs
    <3> QED BY <2>2, <2>3, <2>4, <3>1, <3>2 DEF Same
  <2>5. CASE i # id
    BY <1>1, <2>1, <2>5 DEF LoggedAs
  <2> QED BY <2>4, <2>5
<1> QED BY <1>1, <1>2 DEF Changed, Quiet, Created, Ticked, Forgot, Restored, Moved, Settled

LEMMA TypeStep == TypeOK /\ IdInv /\ [Next]_allVars => TypeOK' /\ IdInv'
<1> SUFFICES ASSUME TypeOK, IdInv, [Next]_allVars PROVE TypeOK' /\ IdInv'
  OBVIOUS
<1>1. IsoTypeOK /\ EngineType
  BY TypeSplit
<1>2. EngineType' /\ Changed
  BY <1>1, EngineSteps
<1>3. IsoTypeOK'
  BY <1>1, IsoSide, IsoTypeStep
<1>4. IdInv'
  BY <1>1, <1>2, IdStep
<1> QED BY <1>2, <1>3, <1>4 DEF TypeOK, EngineType

LEMMA TypeInit == Init => TypeOK /\ IdInv
  BY EngineInit, IsoTypeInit, TypeSplit DEF Init

\* The engine's variables keep their shape however many VMs, responses and handlers there are; its queue and its list of
\* actions never grow past their limits.
THEOREM TypesHold == Spec => []TypeOK
  BY TypeInit, TypeStep, PTL DEF Spec

\* However detections, decisions, crashes and failed appends fall, an id in actions.jsonl is never given to another action.
THEOREM IdsNeverReused == Spec => IdsAreForever
<1>1. TypeOK /\ IdInv /\ [Next]_allVars => IdsStay
  BY EngineSteps, FileKeepsIds, TypeSplit
<1> QED BY <1>1, TypeInit, TypeStep, PTL DEF Spec, IdsAreForever, IdsStay

\* Nor does the engine open an isolated tap but by a release: what it asks of Isolation keeps StopDoesNotReopen's argument.
THEOREM EngineDoesNotReopen == Spec => NeverReopened
<1>1. TypeOK /\ OwnTaps /\ [Next]_allVars => ReopenedRightly /\ OwnTaps'
  BY IsoSide, TypeSplit, OwnTapsStep, ReopenStep DEF ReopenedRightly
<1>2. Init => OwnTaps
  BY OwnTapsInit DEF Init
<1> QED BY <1>1, <1>2, TypesHold, PTL DEF Spec, NeverReopened, ReopenedRightly

-----------------------------------------------------------------------------
(* A VM has one proposal.                                                  *)

\* What an idle goroutine, or one between two jobs, has yet to write: nothing.
LEMMA OwesNothing ==
  ASSUME EngineType, JobInv, NEW p \in Engines
  PROVE  /\ job[p].pc \in {"idle", "approved", "releasing"} => \A i : ~Owes(p, i)
         /\ job[p].pc \in {"decide", "isolating"} => \A i : Owes(p, i) => i = job[p].id
         /\ job[p].pc = "record" => \A i : Owes(p, i) <=> i = job[p].id
         /\ job[p].pc = "tick" => \A i : Owes(p, i) <=> i \in job[p].lapsed
         /\ p # Run /\ job[p].pc # "record" => \A i : ~Owes(p, i)
  BY PlainJob DEF Owes, Making

\* The pieces of a step on one goroutine.
LEMMA SettledParts ==
  ASSUME EngineType, IdInv, NEW p \in Engines, NEW id \in Ids, Settled(p, id)
  PROVE  /\ up # "down" /\ up' = up /\ UNCHANGED <<log, kept, next, cut, now>>
         /\ \A i \in Ids \ {id} : acts'[i] = acts[i]
         /\ acts'[id] \in Actions /\ Same(acts'[id], acts[id]) /\ acts'[id].status \notin {"none", "new"} /\ id \in Known
         /\ acts'[id].status = "pending" => p = Run /\ job[p].pc = "decide" /\ job[p].id = id
         /\ job'[p].pc = "record" /\ job'[p].id = id /\ job'[p].lapsed = {} /\ \A q \in Engines \ {p} : job'[q] = job[q]
         /\ \/ p \in Handlers /\ job[p].pc = "idle" /\ Waiting(id)
            \/ job[p].id = id /\ job[p].pc \in {"decide", "isolating", "approved", "releasing"}
         /\ job'[p].due = job[p].due /\ (job[p].pc = "releasing" => acts'[id].status = "released")
         /\ job'[p].copy = NoAction \/ job'[p].copy = acts'[id]
         /\ acts'[id].status = "pending" => ModeOf[acts'[id].resp] = "propose"
         /\ ReleaseAfter = 0 => acts'[id].releaseAt = acts[id].releaseAt
         /\ \/ UNCHANGED <<hourly, autos>>
            \/ /\ p = Run /\ job[p].pc = "isolating" /\ acts'[id].decided = now /\ Enforced(acts'[id].status)
               /\ hourly' = hourly \cup {id} /\ autos' = [autos EXCEPT ![id] = now]
<1>1. PICK b \in Actions, j \in EngineJobs : SettledAs(p, id, b, j)
  BY DEF Settled
<1>2. job[p].pc = "decide" => p = Run
  BY PlainJob DEF IdInv
<1>3. id \in Known
  BY KeptActs
<1>4. acts'[id] = b /\ \A i \in Ids \ {id} : acts'[i] = acts[i]
  BY <1>1 DEF SettledAs, ActTo
<1>5. job'[p] = j /\ \A q \in Engines \ {p} : job'[q] = job[q]
  BY <1>1 DEF SettledAs, JobTo
<1>6. UNCHANGED <<log, kept, next, cut, now>> /\ up # "down" /\ up' = up
  BY DEF Settled, Alive
<1>7. /\ Same(b, acts[id]) /\ b.status \notin {"none", "new"} /\ (b.status = "pending" => job[p].pc = "decide")
      /\ j.pc = "record" /\ j.id = id /\ j.lapsed = {}
      /\ \/ p \in Handlers /\ job[p].pc = "idle" /\ Waiting(id)
         \/ job[p].id = id /\ job[p].pc \in {"decide", "isolating", "approved", "releasing"}
  BY <1>1 DEF SettledAs
<1>8. b.status = "pending" => p = Run /\ job[p].pc = "decide" /\ job[p].id = id
  BY <1>2, <1>7
<1>9. j.due = job[p].due /\ (j.copy = NoAction \/ j.copy = b) /\ (job[p].pc = "releasing" => b.status = "released")
  BY <1>1 DEF SettledAs
<1>10. /\ b.status = "pending" => ModeOf[b.resp] = "propose"
       /\ ReleaseAfter = 0 => b.releaseAt = acts[id].releaseAt
  BY <1>1 DEF SettledAs
<1>11. \/ UNCHANGED <<hourly, autos>>
       \/ /\ p = Run /\ job[p].pc = "isolating" /\ b.decided = now /\ Enforced(b.status)
          /\ hourly' = hourly \cup {id} /\ autos' = [autos EXCEPT ![id] = now]
  BY <1>1 DEF SettledAs
<1> QED BY <1>3, <1>4, <1>5, <1>6, <1>7, <1>8, <1>9, <1>10, <1>11

LEMMA WroteParts ==
  ASSUME EngineType, IdInv, NEW p \in Engines, NEW id \in Ids, WroteDown(p, id)
  PROVE  /\ up # "down" /\ up' = up /\ UNCHANGED <<kept, next, hourly, autos, now>> /\ id \in Known
         /\ \A q \in Engines \ {p} : job'[q] = job[q]
         /\ \/ job[p].pc = "record" /\ job[p].id = id /\ job'[p].pc \in {"idle", "tick"} /\ job'[p].lapsed = {}
            \/ p = Run /\ job[p].pc = "tick" /\ id \in job[p].lapsed /\ job'[p].pc = "tick" /\ job'[p].lapsed = job[p].lapsed \ {id}
         /\ job'[p].copy = NoAction \/ job'[p].copy = job[p].copy
         /\ \A i \in Ids \ {id} : acts'[i] = acts[i] /\ log'[i] = log[i]
         /\ acts'[id] = acts[id] \/ (acts'[id].status = "executed_audit_degraded" /\ acts[id].status = "executed")
         /\ Same(acts'[id], acts[id]) /\ acts'[id].releaseAt = acts[id].releaseAt
         /\ job'[p].due \subseteq job[p].due
         /\ \/ log'[id] \in {log[id], acts[id], acts'[id]}
            \/ job[p].copy # NoAction /\ log'[id] = job[p].copy
         /\ cut => cut'
         /\ ~cut' => acts' = acts /\ (log'[id] = acts[id] \/ (job[p].copy # NoAction /\ log'[id] = job[p].copy))
<1>1. PICK a \in Actions, j \in EngineJobs : JobTo(p, j) /\ WrittenAs(p, id, a, j) /\ LoggedAs(id, a)
  BY DEF WroteDown
<1>2. job'[p] = j /\ \A q \in Engines \ {p} : job'[q] = job[q]
  BY <1>1 DEF JobTo
<1>3. id \in Known /\ JobFits(p)
  BY KeptActs DEF IdInv, JobInv
<1>4. UNCHANGED <<kept, next, hourly, autos, now>> /\ up # "down" /\ up' = up
  BY DEF WroteDown, Alive
<1>5. /\ \/ job[p].pc = "record" /\ job[p].id = id /\ job'[p].pc \in {"idle", "tick"} /\ job'[p].lapsed = {}
         \/ p = Run /\ job[p].pc = "tick" /\ id \in job[p].lapsed /\ job'[p].pc = "tick" /\ job'[p].lapsed = job[p].lapsed \ {id}
      /\ job'[p].copy = NoAction \/ job'[p].copy = job[p].copy
      /\ a = acts[id] \/ (job[p].copy # NoAction /\ a = job[p].copy)
  BY <1>1, <1>2, <1>3, Values DEF WrittenAs, JobFits, Written
<1>6. /\ \A i \in Ids \ {id} : log'[i] = log[i]
      /\ \/ cut' = cut /\ acts' = acts /\ log'[id] = a
         \/ /\ cut' = TRUE /\ log'[id] \in {log[id], a, acts'[id]}
            /\ \/ acts' = acts
               \/ \E b \in Actions : /\ ActTo(id, b) /\ Same(b, acts[id]) /\ a.status = "executed"
                                     /\ b.status = "executed_audit_degraded" /\ b.releaseAt = acts[id].releaseAt
  BY <1>1 DEF LoggedAs
<1>7. /\ \A i \in Ids \ {id} : acts'[i] = acts[i]
      /\ acts'[id] = acts[id] \/ (acts'[id].status = "executed_audit_degraded" /\ a.status = "executed")
      /\ Same(acts'[id], acts[id]) /\ acts'[id].releaseAt = acts[id].releaseAt
  BY <1>6 DEF ActTo, Same
<1>8. a.status = "executed" => a = acts[id]
  BY <1>3, <1>5 DEF JobFits
<1>9. job'[p].due \subseteq job[p].due
  BY <1>1, <1>2, Values DEF WrittenAs
<1>10. \/ log'[id] \in {log[id], acts[id], acts'[id]}
       \/ job[p].copy # NoAction /\ log'[id] = job[p].copy
  BY <1>5, <1>6
<1> QED BY <1>2, <1>3, <1>4, <1>5, <1>6, <1>7, <1>8, <1>9, <1>10

LEMMA MovedParts ==
  ASSUME EngineType, IdInv, NEW p \in Engines, Moved(p)
  PROVE  /\ up # "down" /\ up' = up /\ UNCHANGED <<acts, log, kept, next, cut, hourly, autos, now>>
         /\ \A q \in Engines \ {p} : job'[q] = job[q]
         /\ \/ /\ job'[p].id = job[p].id /\ job'[p].lapsed = job[p].lapsed
               /\ \/ p = Run /\ job[p].pc = "decide" /\ job'[p].pc = "execute"
                  \/ job[p].pc = "execute" /\ job'[p].pc = "isolating"
                  \/ p # Run /\ job[p].pc = "approved" /\ job'[p].pc = "execute"
            \/ p # Run /\ job[p].pc = "idle" /\ job'[p].pc = "approved" /\ Waiting(job'[p].id) /\ job'[p].lapsed = {}
            \/ /\ p = Run /\ job[p].pc = "tick" /\ job[p].lapsed = {} /\ job'[p].lapsed = {}
               /\ job'[p].pc = "idle" \/ (job'[p].pc = "releasing" /\ job'[p].id \in job[p].due)
         /\ job'[p].copy = NoAction \/ job'[p].copy = job[p].copy
         /\ job'[p].due = job[p].due
         /\ job[p].pc = "decide" => ModeOf[acts[job[p].id].resp] = "enforce" /\ ~OverCap(acts[job[p].id].created)
<1>1. PICK j \in EngineJobs : JobTo(p, j) /\ MovedTo(p, j)
  BY DEF Moved
<1>2. job'[p] = j /\ \A q \in Engines \ {p} : job'[q] = job[q]
  BY <1>1 DEF JobTo
<1>3. JobFits(p) /\ Run \notin Handlers
  BY Constants DEF IdInv, JobInv
<1>4. UNCHANGED <<acts, log, kept, next, cut, hourly, autos, now>> /\ up # "down" /\ up' = up
  BY DEF Moved, Alive
<1>5. job'[p].due = job[p].due
  BY <1>1, <1>2, <1>3, Values DEF MovedTo, JobFits
<1>6. job[p].pc = "decide" => ModeOf[acts[job[p].id].resp] = "enforce" /\ ~OverCap(acts[job[p].id].created)
  BY <1>1, <1>3 DEF MovedTo
<1> QED BY <1>1, <1>2, <1>3, <1>4, <1>5, <1>6, Values DEF MovedTo, JobFits

\* Who owes what, before and after a step on one goroutine.
LEMMA OwesMoved ==
  ASSUME EngineType, IdInv, NEW p \in Engines, Moved(p), NEW q \in Engines, NEW i
  PROVE  Owes(q, i) => Owes(q, i)'
<1>1. CASE q = p
  <2>1. JobInv
    BY DEF IdInv
  <2>2. CASE job[p].pc \in {"idle", "approved", "tick"}
    BY <1>1, <2>1, <2>2, MovedParts, OwesNothing
  <2> QED BY <1>1, <2>2, MovedParts DEF Owes, Making
<1>2. CASE q # p
  <2>1. job'[q] = job[q]
    BY <1>2, MovedParts
  <2> QED BY <2>1 DEF Owes, Making
<1> QED BY <1>1, <1>2

LEMMA OwesSettled ==
  ASSUME EngineType, IdInv, NEW p \in Engines, NEW id \in Ids, Settled(p, id), NEW q \in Engines, NEW i
  PROVE  /\ Owes(q, i) => Owes(q, i)'
         /\ Owes(p, id)'
<1> USE SettledParts
<1>0. JobInv
  BY DEF IdInv
<1>1. Owes(p, id)'
  BY DEF Owes
<1>2. Owes(p, i) => i = id
  BY <1>0, OwesNothing
<1>3. q # p => (Owes(q, i) => Owes(q, i)')
  BY DEF Owes, Making
<1> QED BY <1>1, <1>2, <1>3

LEMMA OwesWrote ==
  ASSUME EngineType, IdInv, NEW p \in Engines, NEW id \in Ids, WroteDown(p, id), NEW q \in Engines, NEW i, i # id
  PROVE  Owes(q, i) => Owes(q, i)'
<1> USE WroteParts
<1>0. JobInv
  BY DEF IdInv
<1>1. CASE q = p
  BY <1>0, <1>1, OwesNothing DEF Owes
<1>2. CASE q # p
  BY <1>2 DEF Owes, Making
<1> QED BY <1>1, <1>2

\* Run alone has an action that is not decided, and keeps it to itself.
LEMMA MakingStep == ASSUME EngineType, IdInv, MakingInv, Changed PROVE MakingInv'
<1> USE DEF MakingInv, Making
<1>0. JobInv /\ Run \in Engines /\ Handlers \subseteq Engines /\ Run \notin Handlers /\ \A p \in Engines : job[p].id \in Ids
  BY Constants, ReadTypes DEF IdInv
<1>1. CASE Quiet
  BY <1>1 DEF Quiet, Busy
<1>2. ASSUME NEW v \in VMs, NEW r \in Responses, Created(v, r) PROVE MakingInv'
  <2>1. next + 1 \notin Known
    BY <1>2, IdCreated
  <2>2. acts'[next + 1].status = "new" /\ \A i \in Ids \ {next + 1} : acts'[i] = acts[i]
    BY <1>2 DEF Created, ActTo
  <2>3. job'[Run].id = next + 1 /\ \A p \in Handlers : job'[p] = job[p]
    BY <1>0, <1>2 DEF Created, JobTo
  <2>4. \A p \in Handlers : Busy(p) => job[p].id \in Known
    BY <1>0 DEF JobInv, JobFits
  <2>5. \A p \in Handlers : Busy(p)' => acts'[job'[p].id].status # "new"
    BY <1>0, <2>1, <2>2, <2>3, <2>4 DEF Busy
  <2> QED BY <2>2, <2>3, <2>5
<1>3. ASSUME NEW p \in Engines, Moved(p) PROVE MakingInv'
  <2>1. job'[Run].pc \in {"decide", "execute", "isolating"} => job[Run].pc \in {"decide", "execute", "isolating"} /\ job'[Run].id = job[Run].id
    BY <1>0, <1>3, MovedParts
  <2>2. acts' = acts
    BY <1>3, MovedParts
  <2>3. ASSUME NEW q \in Handlers, Busy(q)' PROVE (Busy(q) /\ job'[q].id = job[q].id) \/ Waiting(job'[q].id)
    BY <1>0, <1>3, <2>3, MovedParts DEF Busy
  <2>4. \A q \in Handlers : Busy(q)' => acts'[job'[q].id].status # "new"
    BY <2>2, <2>3 DEF Waiting
  <2> QED BY <2>1, <2>2, <2>4
<1>4. ASSUME NEW p \in Engines, NEW id \in Ids, Settled(p, id) PROVE MakingInv'
  <2> USE <1>4, SettledParts
  <2>1. \A q \in Handlers : Busy(q)' => acts'[job'[q].id].status # "new"
    <3> SUFFICES ASSUME NEW q \in Handlers, Busy(q)' PROVE acts'[job'[q].id].status # "new"
      OBVIOUS
    <3>1. CASE q = p
      BY <3>1
    <3>2. CASE q # p
      <4>1. job'[q] = job[q] /\ Busy(q) /\ job[q].id \in Ids
        BY <1>0, <3>2 DEF Busy
      <4> QED BY <4>1
    <3> QED BY <3>1, <3>2
  <2>2. job'[Run].pc \in {"decide", "execute", "isolating"} => acts'[job'[Run].id].status = "new"
    <3> SUFFICES ASSUME job'[Run].pc \in {"decide", "execute", "isolating"} PROVE acts'[job'[Run].id].status = "new"
      OBVIOUS
    <3>1. p # Run /\ job'[Run] = job[Run]
      BY <1>0
    <3>2. p \in Handlers
      BY <3>1 DEF Engines
    <3>3. acts[id].status # "new"
      BY <3>1, <3>2 DEF Waiting, Busy
    <3> QED BY <1>0, <3>1, <3>3
  <2> QED BY <2>1, <2>2
<1>5. CASE Ticked
  <2>1. job'[Run].pc = "tick" /\ \A q \in Handlers : job'[q] = job[q]
    BY <1>0, <1>5 DEF Ticked, JobTo
  <2>2. \A i \in Ids : acts'[i] = acts[i] \/ acts'[i].status = "expired"
    BY <1>5 DEF Ticked
  <2>3. \A q \in Handlers : job[q].id \in Ids
    BY <1>0
  <2> QED BY <2>1, <2>2, <2>3 DEF Busy
<1>6. ASSUME NEW p \in Engines, NEW id \in Ids, WroteDown(p, id) PROVE MakingInv'
  <2> USE <1>6, WroteParts
  <2>1. \A i \in Ids : acts'[i] = acts[i] \/ (i = id /\ acts'[i].status = "executed_audit_degraded")
    OBVIOUS
  <2>2. \A q \in Handlers : Busy(q)' => Busy(q) /\ job'[q] = job[q]
    BY <1>0 DEF Busy
  <2>3. \A q \in Handlers : Busy(q)' => acts'[job'[q].id].status # "new"
    BY <1>0, <2>1, <2>2
  <2>4. job'[Run].pc \in {"decide", "execute", "isolating"} => acts'[job'[Run].id].status = "new"
    <3> SUFFICES ASSUME job'[Run].pc \in {"decide", "execute", "isolating"} PROVE acts'[job'[Run].id].status = "new"
      OBVIOUS
    <3>1. p # Run /\ job'[Run] = job[Run]
      BY <1>0
    <3>2. p \in Handlers /\ Busy(p) /\ job[p].id = id
      BY <3>1 DEF Engines, Busy
    <3> QED BY <1>0, <2>1, <3>1, <3>2
  <2> QED BY <2>3, <2>4
<1>7. CASE Forgot
  BY <1>0, <1>7, Values DEF Forgot, Busy
<1>8. CASE Restored
  <2>1. \A p \in Engines : job'[p] = IdleJob
    BY <1>8 DEF Restored, IdInv, KnownInv
  <2> QED BY <1>0, <2>1, Values DEF Busy
<1> QED BY <1>1, <1>2, <1>3, <1>4, <1>5, <1>6, <1>7, <1>8 DEF Changed

\* Nobody makes a second proposal of a VM that has one.
LEMMA UniqueStep == ASSUME EngineType, IdInv, PendInv, Changed PROVE UniqueInv'
<1> SUFFICES ASSUME ~cut' PROVE OnePending' /\ (job'[Run].pc = "decide" =>
                      \A i \in kept' : acts'[i].status = "pending" => acts'[i].vm # acts'[job'[Run].id].vm)
  BY DEF UniqueInv
<1> DEFINE Pends(i, v) == i \in kept /\ acts[i].status = "pending" /\ acts[i].vm = v
           PendsNow(i, v) == i \in kept' /\ acts'[i].status = "pending" /\ acts'[i].vm = v
           Fresh == \A i \in kept : acts[i].status = "pending" => acts[i].vm # acts[job[Run].id].vm
           FreshNow == \A i \in kept' : acts'[i].status = "pending" => acts'[i].vm # acts'[job'[Run].id].vm
<1>0. JobInv /\ Run \in Engines /\ Handlers \subseteq Engines /\ Run \notin Handlers /\ kept \subseteq Ids /\ job[Run].id \in Ids
  BY Constants, ReadTypes DEF IdInv, EngineType
<1>a. ~cut => OnePending /\ (job[Run].pc = "decide" => Fresh)
  BY DEF PendInv, UniqueInv
<1>b. ASSUME ~cut, kept' = kept, \A i \in kept : acts'[i].status = "pending" => acts[i].status = "pending" /\ acts'[i].vm = acts[i].vm
      PROVE  OnePending'
  BY <1>a, <1>b DEF OnePending
<1>1. CASE Quiet
  BY <1>1, <1>a DEF Quiet, OnePending
<1>2. ASSUME NEW v \in VMs, NEW r \in Responses, Created(v, r) PROVE OnePending' /\ FreshNow
  <2>1. kept' \subseteq kept \cup {next + 1} /\ next + 1 \in Ids /\ ~cut
    <3>1. kept \cup {next + 1} \in SUBSET Ids
      BY <1>0, <1>2 DEF Created
    <3> QED BY <1>2, <3>1, NewestFacts DEF Created
  <2>2. acts'[next + 1].status = "new" /\ acts'[next + 1].vm = v /\ \A i \in Ids \ {next + 1} : acts'[i] = acts[i]
    BY <1>2 DEF Created, ActTo
  <2>3. \A i \in kept' : acts'[i].status = "pending" => i \in kept /\ acts'[i] = acts[i]
    BY <1>0, <2>1, <2>2
  <2>4. OnePending'
    BY <1>a, <2>1, <2>3 DEF OnePending
  <2>5. job'[Run].id = next + 1
    BY <1>2 DEF Created, JobTo
  <2>6. \A i \in kept : acts[i].status = "pending" => acts[i].vm # v
    BY <1>2 DEF Created, LeftAlone
  <2> QED BY <2>2, <2>3, <2>4, <2>5, <2>6
<1>3. ASSUME NEW p \in Engines, Moved(p) PROVE OnePending' /\ (job'[Run].pc = "decide" => FreshNow)
  <2>1. /\ acts' = acts /\ kept' = kept /\ ~cut
        /\ job'[Run].pc = "decide" => job'[Run] = job[Run]
    BY <1>0, <1>3, MovedParts
  <2> QED BY <1>a, <1>b, <2>1
<1>4. ASSUME NEW p \in Engines, NEW id \in Ids, Settled(p, id) PROVE OnePending' /\ (job'[Run].pc = "decide" => FreshNow)
  <2>0. /\ kept' = kept /\ ~cut /\ \A i \in Ids : acts'[i].vm = acts[i].vm
        /\ \A i \in Ids \ {id} : acts'[i] = acts[i]
    BY <1>4, SettledParts DEF Same
  <2>1. CASE acts'[id].status = "pending"
    <3>1. p = Run /\ job[Run].pc = "decide" /\ job[Run].id = id /\ job'[Run].pc = "record"
      BY <1>4, <2>1, SettledParts
    <3>2. Fresh
      BY <1>a, <2>0, <3>1
    <3>3. \A i \in kept \ {id} : acts'[i].status = "pending" => acts'[i].vm # acts'[id].vm
      BY <1>0, <2>0, <3>1, <3>2
    <3>4. \A i, j \in kept \ {id} : acts'[i].status = "pending" /\ acts'[j].status = "pending" /\ acts'[i].vm = acts'[j].vm => i = j
      BY <1>0, <1>a, <2>0 DEF OnePending
    <3>5. OnePending'
      BY <2>0, <3>3, <3>4 DEF OnePending
    <3> QED BY <3>1, <3>5
  <2>2. CASE acts'[id].status # "pending"
    <3>1. \A i \in kept : acts'[i].status = "pending" => acts[i].status = "pending" /\ acts'[i].vm = acts[i].vm
      BY <1>0, <2>0, <2>2
    <3>2. OnePending'
      BY <1>b, <2>0, <3>1
    <3>3. job'[Run].pc = "decide" => job'[Run] = job[Run]
      BY <1>0, <1>4, SettledParts
    <3> QED BY <1>0, <1>a, <2>0, <3>1, <3>2, <3>3
  <2> QED BY <2>1, <2>2
<1>5. CASE Ticked
  <2>1. kept' = kept /\ ~cut /\ job'[Run].pc = "tick"
    BY <1>5 DEF Ticked, JobTo
  <2>2. \A i \in Ids : acts'[i] = acts[i] \/ acts'[i].status = "expired"
    BY <1>5 DEF Ticked
  <2> QED BY <1>0, <1>b, <2>1, <2>2
<1>6. ASSUME NEW p \in Engines, NEW id \in Ids, WroteDown(p, id) PROVE OnePending' /\ (job'[Run].pc = "decide" => FreshNow)
  <2>1. /\ acts' = acts /\ kept' = kept /\ ~cut
        /\ job'[Run].pc = "decide" => job'[Run] = job[Run]
    BY <1>0, <1>6, WroteParts
  <2> QED BY <1>a, <1>b, <2>1
<1>7. CASE Forgot
  BY <1>0, <1>7, Values DEF Forgot, OnePending
<1>8. CASE Restored
  <2>1. job'[Run].pc = "idle"
    BY <1>0, <1>8, Values DEF Restored, IdInv, KnownInv
  <2>2. kept' = Newest(OnFile) /\ acts' = log /\ ~cut /\ up = "down"
    BY <1>8 DEF Restored
  <2>3. DownInv
    BY DEF PendInv
  <2> QED BY <2>1, <2>2, <2>3 DEF OnePending, DownInv
<1> QED BY <1>1, <1>2, <1>3, <1>4, <1>5, <1>6, <1>7, <1>8 DEF Changed

\* What the file has wrong of a proposal, some goroutine goes on to write.
LEMMA FileStep == ASSUME EngineType, IdInv, PendInv, Changed PROVE FilePend'
<1> SUFFICES ASSUME ~cut', up' # "down"
             PROVE  /\ \A i \in Ids : log'[i].status = "pending" /\ acts'[i].status # "pending" => \E p \in Engines : Owes(p, i)'
                    /\ \A i \in Known' : log'[i].status = "none" => Owes(Run, i)'
  BY DEF FilePend
<1> DEFINE Wrong(i) == log[i].status = "pending" /\ acts[i].status # "pending"
           WrongNow(i) == log'[i].status = "pending" /\ acts'[i].status # "pending"
<1>0. JobInv /\ Run \in Engines /\ Known \subseteq Ids
  BY Constants DEF IdInv, Known
<1>a. ~cut /\ up # "down" =>
        /\ \A i \in Ids : Wrong(i) => \E p \in Engines : Owes(p, i)
        /\ \A i \in Known : log[i].status = "none" => Owes(Run, i)
  BY DEF PendInv, FilePend
<1> DEFINE Goal == /\ \A i \in Ids : WrongNow(i) => \E p \in Engines : Owes(p, i)'
                   /\ \A i \in Known' : log'[i].status = "none" => Owes(Run, i)'
<1>1. ASSUME Quiet PROVE Goal
  BY <1>1, <1>a DEF Quiet, Known, Owes, Making
<1>2. ASSUME NEW v \in VMs, NEW r \in Responses, Created(v, r) PROVE Goal
  <2>0. ~cut /\ up # "down" /\ log' = log /\ job[Run].pc = "idle"
    BY <1>2 DEF Created, Alive
  <2>1. next + 1 \in Ids /\ Known' = Known \cup {next + 1} /\ log[next + 1].status = "none"
    BY <1>2, IdCreated
  <2>2. \A i \in Ids \ {next + 1} : acts'[i] = acts[i]
    BY <1>2 DEF Created, ActTo
  <2>3. \A i : ~Owes(Run, i)
    BY <1>0, <2>0, OwesNothing
  <2>4. \A n \in Ids : n = next + 1 => Owes(Run, n)'
    <3>1. job'[Run].pc = "decide" /\ job'[Run].id = next + 1
      BY <1>2 DEF Created, JobTo
    <3> QED BY <3>1 DEF Owes, Making
  <2>5. \A q \in Engines \ {Run} : job'[q] = job[q]
    BY <1>2 DEF Created, JobTo
  <2>6. \A q \in Engines, i \in Ids : Owes(q, i) => Owes(q, i)'
    BY <2>3, <2>5 DEF Owes
  <2>7. \A i \in Ids : WrongNow(i) => \E p \in Engines : Owes(p, i)'
    <3> SUFFICES ASSUME NEW i \in Ids, WrongNow(i) PROVE \E p \in Engines : Owes(p, i)'
      OBVIOUS
    <3>1. Wrong(i)
      BY <2>0, <2>1, <2>2
    <3> QED BY <1>a, <2>0, <2>6, <3>1
  <2> QED BY <1>0, <1>a, <2>0, <2>1, <2>3, <2>4, <2>7
<1>3. ASSUME NEW p \in Engines, Moved(p) PROVE Goal
  <2>1. acts' = acts /\ log' = log /\ ~cut /\ up # "down" /\ Known' = Known
    BY <1>3, MovedParts DEF Known
  <2>2. \A q \in Engines, i \in Ids : Owes(q, i) => Owes(q, i)'
    BY <1>3, OwesMoved
  <2> QED BY <1>0, <1>a, <2>1, <2>2
<1>4. ASSUME NEW p \in Engines, NEW id \in Ids, Settled(p, id) PROVE Goal
  <2>1. log' = log /\ ~cut /\ up # "down" /\ Known' = Known /\ \A i \in Ids \ {id} : acts'[i] = acts[i]
    BY <1>4, SettledParts, KeptActs DEF ActsKeep
  <2>2. \A q \in Engines, i \in Ids : Owes(q, i) => Owes(q, i)'
    BY <1>4, OwesSettled
  <2>3. Owes(p, id)'
    BY <1>4, OwesSettled
  <2>4. \A i \in Ids : WrongNow(i) => \E q \in Engines : Owes(q, i)'
    <3> SUFFICES ASSUME NEW i \in Ids, WrongNow(i) PROVE \E q \in Engines : Owes(q, i)'
      OBVIOUS
    <3>1. i = id \/ Wrong(i)
      BY <2>1
    <3> QED BY <1>a, <2>1, <2>2, <2>3, <3>1
  <2> QED BY <1>0, <1>a, <2>1, <2>2, <2>4
<1>5. ASSUME Ticked PROVE Goal
  <2>0. ~cut /\ up # "down" /\ log' = log /\ job[Run].pc = "idle" /\ Known' = Known
    BY <1>5, KeptActs DEF Ticked, Alive, ActsKeep
  <2>1. \A i \in Ids \ LapsedNow : acts'[i] = acts[i]
    BY <1>5 DEF Ticked
  <2>2. \A i \in LapsedNow : Owes(Run, i)'
    BY <1>5 DEF Ticked, JobTo, Owes
  <2>3. \A i : ~Owes(Run, i)
    BY <1>0, <2>0, OwesNothing
  <2>4. \A q \in Engines, i \in Ids : Owes(q, i) => Owes(q, i)'
    <3>1. \A q \in Engines \ {Run} : job'[q] = job[q]
      BY <1>5 DEF Ticked, JobTo
    <3> QED BY <2>3, <3>1 DEF Owes
  <2>5. \A i \in Ids : WrongNow(i) => \E q \in Engines : Owes(q, i)'
    <3> SUFFICES ASSUME NEW i \in Ids, WrongNow(i) PROVE \E q \in Engines : Owes(q, i)'
      OBVIOUS
    <3>1. i \in LapsedNow \/ Wrong(i)
      BY <2>0, <2>1
    <3> QED BY <1>0, <1>a, <2>0, <2>2, <2>4, <3>1
  <2> QED BY <1>0, <1>a, <2>0, <2>3, <2>5
<1>6. ASSUME NEW p \in Engines, NEW id \in Ids, WroteDown(p, id) PROVE Goal
  <2>1. /\ acts' = acts /\ ~cut /\ up # "down" /\ Known' = Known /\ id \in Known /\ \A i \in Ids \ {id} : log'[i] = log[i]
        /\ log'[id] = acts[id] \/ (job[p].copy # NoAction /\ log'[id] = job[p].copy)
    BY <1>6, WroteParts DEF Known
  <2>2. \A q \in Engines, i \in Ids \ {id} : Owes(q, i) => Owes(q, i)'
    BY <1>6, OwesWrote
  <2>3. log'[id].status # "none" /\ ~WrongNow(id)
    <3>1. CASE log'[id] = acts[id]
      BY <2>1, <3>1 DEF Known
    <3>2. CASE job[p].copy # NoAction /\ log'[id] = job[p].copy
      BY <1>0, <3>2 DEF JobInv, JobFits
    <3> QED BY <2>1, <3>1, <3>2
  <2>4. \A i \in Ids : WrongNow(i) => \E q \in Engines : Owes(q, i)'
    <3> SUFFICES ASSUME NEW i \in Ids, WrongNow(i) PROVE \E q \in Engines : Owes(q, i)'
      OBVIOUS
    <3>1. i # id /\ Wrong(i)
      BY <2>1, <2>3
    <3> QED BY <1>a, <2>1, <2>2, <3>1
  <2>5. \A i \in Known : log'[i].status = "none" => Owes(Run, i)'
    BY <1>0, <1>a, <2>1, <2>2, <2>3
  <2> QED BY <2>1, <2>4, <2>5
<1>7. ASSUME Restored PROVE Goal
  <2>1. acts' = log /\ log' = log
    BY <1>7 DEF Restored
  <2> QED BY <2>1 DEF Known
<1>8. ~Forgot
  BY DEF Forgot
<1> HIDE DEF Goal
<1>9. Goal
  BY <1>1, <1>2, <1>3, <1>4, <1>5, <1>6, <1>7, <1>8 DEF Changed
<1> QED BY <1>9 DEF Goal

\* A process that ends with nothing left to write leaves the proposals it held, one of each VM.
LEMMA DownStep == ASSUME EngineType, IdInv, PendInv, Changed PROVE DownInv'
<1> SUFFICES ASSUME ~cut', up' = "down" PROVE DownInv'
  BY DEF DownInv
<1>0. JobInv /\ Run \in Engines /\ Known \subseteq Ids
  BY Constants DEF IdInv, Known
<1>1. CASE Quiet
  <2>1. log' = log /\ ~cut /\ up = "down" /\ OnFile' = OnFile
    BY <1>1 DEF Quiet, OnFile
  <2> QED BY <2>1 DEF PendInv, DownInv
<1>2. CASE Forgot
  <2>1. ~cut /\ EnginesIdle /\ up # "down" /\ log' = log /\ OnFile' = OnFile
    BY <1>2 DEF Forgot, OnFile
  <2>2. \A p \in Engines, i \in Ids : ~Owes(p, i)
    BY <1>0, <2>1, OwesNothing DEF EnginesIdle
  <2>3. OnFile = Known
    <3>1. \A i \in Known : log[i].status # "none"
      BY <1>0, <2>1, <2>2 DEF PendInv, FilePend
    <3> QED BY <1>0, <2>1, <3>1 DEF IdInv, KnownInv, OnFile
  <2>4. kept = Newest(OnFile) /\ kept \subseteq Known
    <3>1. Known \in SUBSET Ids
      BY <1>0
    <3> QED BY <2>3, <3>1, NewestFacts DEF IdInv, KnownInv
  <2>5. \A i \in kept : log[i].status = "pending" => acts[i].status = "pending" /\ acts[i].vm = log[i].vm
    <3> SUFFICES ASSUME NEW i \in kept, log[i].status = "pending" PROVE acts[i].status = "pending" /\ acts[i].vm = log[i].vm
      OBVIOUS
    <3>1. i \in Known /\ i \in Ids
      BY <1>0, <2>4
    <3>2. acts[i].status = "pending"
      BY <2>1, <2>2, <3>1 DEF PendInv, FilePend
    <3> QED BY <3>1, <3>2 DEF IdInv, SameInv, Same
  <2>6. OnePending
    BY <2>1 DEF PendInv, UniqueInv
  <2>7. \A i, j \in kept : log[i].status = "pending" /\ log[j].status = "pending" /\ log[i].vm = log[j].vm => i = j
    BY <2>1, <2>5, <2>6 DEF OnePending
  <2> QED BY <2>1, <2>4, <2>7 DEF DownInv
<1>3. CASE \/ \E v \in VMs, r \in Responses : Created(v, r)
           \/ Ticked \/ Restored
           \/ \E p \in Engines : Moved(p) \/ \E id \in Ids : Settled(p, id) \/ WroteDown(p, id)
  BY <1>3 DEF Created, Ticked, Restored, Moved, Settled, WroteDown, Alive
<1> QED BY <1>1, <1>2, <1>3 DEF Changed

LEMMA PendStep == TypeOK /\ IdInv /\ PendInv /\ [Next]_allVars => PendInv'
<1> SUFFICES ASSUME TypeOK, IdInv, PendInv, [Next]_allVars PROVE PendInv'
  OBVIOUS
<1>1. EngineType /\ Changed
  BY TypeSplit, EngineSteps
<1>2. MakingInv'
  BY <1>1, MakingStep DEF PendInv
<1> QED BY <1>1, <1>2, UniqueStep, FileStep, DownStep DEF PendInv

LEMMA PendInit == Init => PendInv
<1> SUFFICES ASSUME Init PROVE PendInv
  OBVIOUS
<1> USE Constants, Values
<1>1. kept = {} /\ acts = [i \in Ids |-> NoAction] /\ log = [i \in Ids |-> NoAction] /\ up = "down" /\ job = [p \in Engines |-> IdleJob]
  BY DEF Init, IsoInit
<1>2. Newest(OnFile) = {}
  <2>1. OnFile = {}
    BY <1>1 DEF OnFile
  <2> QED BY <2>1, NewestFacts
<1>3. MakingInv
  BY <1>1 DEF MakingInv, Making, Busy
<1>4. UniqueInv
  BY <1>1 DEF UniqueInv, OnePending
<1> QED BY <1>1, <1>2, <1>3, <1>4 DEF PendInv, FilePend, DownInv

\* However many detections, handlers and restarts there are, and however they interleave, a VM has at most one proposal
\* that waits, as long as no record was lost.
THEOREM OneProposal == Spec => []OnePending
<1>1. TypeOK /\ IdInv /\ PendInv => OnePending
  BY DEF PendInv, UniqueInv, OnePending
<1> QED BY <1>1, TypeInit, TypeStep, PendInit, PendStep, PTL DEF Spec

-----------------------------------------------------------------------------
(* With one handler the file has what the engine holds.                    *)

LEMMA SavedStep ==
  ASSUME \A p, q \in Handlers : p = q, EngineType, IdInv, PendInv, SavedInv, Changed
  PROVE  SavedInv'
<1> DEFINE Held(p) == job[p].pc \in {"approved", "execute", "isolating"} => acts[job[p].id].status \in {"pending", "expired"}
           DueDone == \A i \in job[Run].due : acts[i].status \in Synced
           CopyTrue(p) == job[p].copy # NoAction => job[p].copy = acts[job[p].id]
           Missing == ~cut /\ up # "down" => \A i \in Known : log[i] # acts[i] => \E p \in Engines : Owes(p, i)
<1>0. /\ JobInv /\ MakingInv /\ Run \in Engines /\ Handlers \subseteq Engines /\ Run \notin Handlers /\ Engines = {Run} \cup Handlers
      /\ Known \subseteq Ids /\ \A p \in Engines : job[p].id \in Ids /\ job[p].due \subseteq Ids
  BY Constants, ReadTypes DEF IdInv, Known, PendInv
<1>a. (\A p \in Handlers : Held(p)) /\ DueDone /\ (\A p \in Engines : CopyTrue(p)) /\ Missing
  BY DEF SavedInv
<1>b. \A p \in Engines : job[p].copy # NoAction => /\ job[p].pc = "record" /\ p \in Handlers
                                                   /\ acts[job[p].id].status \in {"expired", "refused", "rejected"}
  BY <1>0, <1>a DEF JobInv, JobFits
<1>c. SavedInv' <=> (\A p \in Handlers : Held(p)') /\ DueDone' /\ (\A p \in Engines : CopyTrue(p)') /\ Missing'
  BY DEF SavedInv
<1>1. CASE Quiet
  BY <1>1 DEF Quiet, SavedInv, Known, Owes, Making
<1>2. ASSUME NEW v \in VMs, NEW r \in Responses, Created(v, r) PROVE SavedInv'
  <2>0. up # "down" /\ up' = up /\ UNCHANGED <<log, cut>> /\ job[Run].pc = "idle"
    BY <1>2 DEF Created, Alive
  <2>1. next + 1 \in Ids /\ Known' = Known \cup {next + 1} /\ next + 1 \notin Known
    BY <1>2, IdCreated
  <2>2. \A i \in Ids \ {next + 1} : acts'[i] = acts[i]
    BY <1>2 DEF Created, ActTo
  <2>3. /\ job'[Run].pc = "decide" /\ job'[Run].id = next + 1 /\ job'[Run].copy = NoAction /\ job'[Run].due = {}
        /\ \A q \in Engines \ {Run} : job'[q] = job[q]
    BY <1>2 DEF Created, JobTo
  <2>4. \A p \in Handlers : Busy(p) => acts'[job[p].id] = acts[job[p].id]
    BY <1>0, <2>1, <2>2 DEF JobInv, JobFits
  <2>5. \A p \in Handlers : Held(p)'
    BY <1>0, <1>a, <2>3, <2>4 DEF Busy
  <2>6. \A p \in Engines : CopyTrue(p)'
    BY <1>0, <1>a, <1>b, <2>3, <2>4 DEF Busy
  <2>7. Missing'
    <3> SUFFICES ASSUME ~cut, NEW i \in Known', log'[i] # acts'[i] PROVE \E p \in Engines : Owes(p, i)'
      BY <2>0
    <3>1. CASE i = next + 1
      BY <1>0, <2>3, <3>1 DEF Owes, Making
    <3>2. CASE i # next + 1
      <4>1. PICK p \in Engines : Owes(p, i)
        BY <1>0, <1>a, <2>0, <2>1, <2>2, <3>2
      <4>2. p # Run
        BY <1>0, <2>0, <4>1, OwesNothing
      <4> QED BY <2>3, <4>1, <4>2 DEF Owes
    <3> QED BY <3>1, <3>2
  <2> QED BY <1>c, <2>3, <2>5, <2>6, <2>7
<1>3. ASSUME NEW p \in Engines, Moved(p) PROVE SavedInv'
  <2>1. /\ acts' = acts /\ log' = log /\ cut' = cut /\ up' = up /\ Known' = Known
        /\ \A q \in Engines : job'[q].copy = NoAction \/ (job'[q].copy = job[q].copy /\ (q # p => job'[q] = job[q]))
        /\ \A q \in Engines : job'[q].due = job[q].due
    BY <1>3, MovedParts DEF Known
  <2>2. \A q \in Handlers : Held(q)'
    <3> SUFFICES ASSUME NEW q \in Handlers, job'[q].pc \in {"approved", "execute", "isolating"}
                 PROVE  acts[job'[q].id].status \in {"pending", "expired"}
      BY <2>1
    <3>1. \/ job[q].pc \in {"approved", "execute", "isolating"} /\ job'[q].id = job[q].id
          \/ Waiting(job'[q].id)
      BY <1>0, <1>3, MovedParts
    <3> QED BY <1>a, <3>1 DEF Waiting
  <2>3. \A q \in Engines : CopyTrue(q)'
    <3> SUFFICES ASSUME NEW q \in Engines, job'[q].copy # NoAction PROVE job'[q].copy = acts[job'[q].id]
      BY <2>1
    <3>1. job[q].copy # NoAction /\ job[q].pc = "record"
      BY <1>b, <2>1
    <3>2. q # p
      BY <1>3, <3>1, MovedParts
    <3> QED BY <1>a, <2>1, <3>1, <3>2
  <2>4. \A q \in Engines, i \in Ids : Owes(q, i) => Owes(q, i)'
    BY <1>3, OwesMoved
  <2>5. Missing'
    BY <1>0, <1>a, <2>1, <2>4
  <2>6. DueDone'
    BY <1>0, <1>a, <2>1
  <2> QED BY <1>c, <2>2, <2>3, <2>5, <2>6
<1>4. ASSUME NEW p \in Engines, NEW id \in Ids, Settled(p, id) PROVE SavedInv'
  <2> USE <1>4, SettledParts
  <2>1. Known' = Known
    BY KeptActs DEF ActsKeep
  <2>2. \/ p \in Handlers /\ acts[id].status \in {"pending", "expired"}
        \/ p = Run /\ acts[id].status = "new"
        \/ p = Run /\ acts[id].status \in Synced /\ acts'[id].status = "released"
    <3>1. CASE p \in Handlers /\ job[p].pc = "idle" /\ Waiting(id)
      BY <3>1 DEF Waiting
    <3>2. CASE p \in Handlers /\ job[p].id = id /\ job[p].pc \in {"isolating", "approved"}
      BY <1>a, <3>2
    <3>3. CASE job[p].id = id /\ p = Run /\ job[p].pc \in {"decide", "isolating"}
      BY <1>0, <3>3 DEF MakingInv, Making
    <3>4. CASE job[p].id = id /\ p = Run /\ job[p].pc = "releasing"
      BY <1>0, <1>a, <3>4 DEF JobInv, JobFits
    <3>5. job[p].pc \in {"decide", "releasing"} => p = Run
      BY <1>0, PlainJob
    <3>6. job[p].pc = "approved" => p # Run
      BY <1>0 DEF JobInv, JobFits
    <3> QED BY <1>0, <3>1, <3>2, <3>3, <3>4, <3>5, <3>6
  <2>3. \A q \in Handlers : Held(q)'
    <3> SUFFICES ASSUME NEW q \in Handlers, job'[q].pc \in {"approved", "execute", "isolating"}
                 PROVE  acts'[job'[q].id].status \in {"pending", "expired"}
      OBVIOUS
    <3>1. q # p /\ job'[q] = job[q] /\ job[q].id \in Ids
      BY <1>0
    <3>2. acts[job[q].id].status \in {"pending", "expired"}
      BY <1>a, <3>1
    <3>3. p = Run
      BY <1>0, <3>1
    <3>4. id # job[q].id
      BY <1>0, <2>2, <3>2, <3>3 DEF Synced
    <3> QED BY <3>1, <3>2, <3>4
  <2>4. DueDone'
    <3>1. job'[Run].due = job[Run].due
      BY <1>0
    <3>2. \A i \in job[Run].due : acts'[i].status \in Synced
      <4> SUFFICES ASSUME NEW i \in job[Run].due PROVE acts'[i].status \in Synced
        OBVIOUS
      <4>1. i \in Ids /\ acts[i].status \in Synced
        BY <1>0, <1>a
      <4> QED BY <2>2, <4>1 DEF Synced
    <3> QED BY <3>1, <3>2
  <2>5. \A q \in Engines : CopyTrue(q)'
    <3> SUFFICES ASSUME NEW q \in Engines, job'[q].copy # NoAction PROVE job'[q].copy = acts'[job'[q].id]
      OBVIOUS
    <3>1. CASE q = p
      BY <3>1
    <3>2. CASE q # p
      <4>1. /\ job'[q] = job[q] /\ q \in Handlers /\ acts[job[q].id].status \in {"expired", "refused", "rejected"}
            /\ job[q].copy = acts[job[q].id] /\ job[q].id \in Ids
        BY <1>0, <1>a, <1>b, <3>2
      <4>2. p = Run
        BY <1>0, <3>2, <4>1
      <4>3. id # job[q].id
        BY <1>0, <2>2, <4>1, <4>2 DEF Synced
      <4> QED BY <4>1, <4>3
    <3> QED BY <3>1, <3>2
  <2>6. Missing'
    <3> SUFFICES ASSUME ~cut, NEW i \in Known, log[i] # acts'[i] PROVE \E q \in Engines : Owes(q, i)'
      BY <2>1
    <3>1. CASE i = id
      BY <3>1, OwesSettled
    <3>2. CASE i # id
      <4>1. PICK q \in Engines : Owes(q, i)
        BY <1>0, <1>a, <3>2
      <4> QED BY <4>1, OwesSettled
    <3> QED BY <3>1, <3>2
  <2> QED BY <1>c, <2>3, <2>4, <2>5, <2>6
<1>5. CASE Ticked
  <2>0. up # "down" /\ up' = up /\ UNCHANGED <<log, cut>> /\ job[Run].pc = "idle" /\ Known' = Known
    BY <1>5, KeptActs DEF Ticked, Alive, ActsKeep
  <2>1. /\ \A i \in Ids \ LapsedNow : acts'[i] = acts[i]
        /\ \A i \in LapsedNow : acts'[i].status = "expired" /\ acts[i].status = "pending"
    BY <1>5 DEF Ticked, LapsedNow, Lapsed
  <2>2. /\ job'[Run].pc = "tick" /\ job'[Run].copy = NoAction /\ job'[Run].due = DueNow /\ job'[Run].lapsed = LapsedNow
        /\ \A q \in Engines \ {Run} : job'[q] = job[q]
    BY <1>5 DEF Ticked, JobTo
  <2>3. \A q \in Handlers : Held(q)'
    <3> SUFFICES ASSUME NEW q \in Handlers, job'[q].pc \in {"approved", "execute", "isolating"}
                 PROVE  acts'[job'[q].id].status \in {"pending", "expired"}
      OBVIOUS
    <3>1. job'[q] = job[q] /\ job[q].id \in Ids
      BY <1>0, <2>2
    <3> QED BY <1>a, <2>1, <3>1
  <2>4. DueDone'
    <3>1. \A i \in DueNow : i \in Ids /\ acts[i].status \in {"executed", "executed_audit_degraded"}
      BY DEF DueNow, ReleaseDue, Enforced, EngineType
    <3> QED BY <2>1, <2>2, <3>1 DEF Synced
  <2>5. \A q \in Engines : CopyTrue(q)'
    <3> SUFFICES ASSUME NEW q \in Engines, job'[q].copy # NoAction PROVE job'[q].copy = acts'[job'[q].id]
      OBVIOUS
    <3>1. job'[q] = job[q] /\ job[q].id \in Ids /\ job[q].copy # NoAction
      BY <1>0, <2>2
    <3> QED BY <1>a, <1>b, <2>1, <3>1
  <2>6. Missing'
    <3> SUFFICES ASSUME ~cut, NEW i \in Known, log[i] # acts'[i] PROVE \E q \in Engines : Owes(q, i)'
      BY <2>0
    <3>1. CASE i \in LapsedNow
      BY <1>0, <2>2, <3>1 DEF Owes
    <3>2. CASE i \notin LapsedNow
      <4>1. PICK q \in Engines : Owes(q, i)
        BY <1>0, <1>a, <2>0, <2>1, <3>2
      <4>2. q # Run
        BY <1>0, <2>0, <4>1, OwesNothing
      <4> QED BY <2>2, <4>1, <4>2 DEF Owes
    <3> QED BY <3>1, <3>2
  <2> QED BY <1>c, <2>3, <2>4, <2>5, <2>6
<1>6. ASSUME NEW p \in Engines, NEW id \in Ids, WroteDown(p, id) PROVE SavedInv'
  <2> USE <1>6, WroteParts
  <2>1. Known' = Known
    BY KeptActs DEF ActsKeep
  <2>2. \A i \in Ids : acts'[i] = acts[i] \/ (acts[i].status = "executed" /\ acts'[i].status = "executed_audit_degraded")
    OBVIOUS
  <2>3. \A q \in Engines : q # p => job'[q] = job[q]
    OBVIOUS
  <2>4. job'[p].pc \in {"idle", "tick"} /\ job'[p].copy = NoAction
    <3>1. job'[p].pc \in {"idle", "tick"}
      OBVIOUS
    <3>2. IdInv'
      BY IdKept
    <3> QED BY <3>1, <3>2 DEF IdInv, JobInv, JobFits
  <2>5. \A q \in Handlers : Held(q)'
    BY <1>0, <1>a, <2>2, <2>3, <2>4
  <2>6. DueDone'
    <3>1. job'[Run].due \subseteq job[Run].due
      BY <1>0
    <3> QED BY <1>0, <1>a, <2>2, <3>1 DEF Synced
  <2>7. \A q \in Engines : CopyTrue(q)'
    BY <1>0, <1>a, <1>b, <2>2, <2>3, <2>4
  <2>8. Missing'
    <3> SUFFICES ASSUME ~cut', NEW i \in Known, log'[i] # acts'[i] PROVE \E q \in Engines : Owes(q, i)'
      BY <2>1
    <3>1. i # id
      <4>1. log'[id] = acts'[id]
        <5>1. job[p].copy # NoAction => job[p].copy = acts[id]
          BY <1>a, <1>b
        <5> QED BY <5>1
      <4> QED BY <4>1
    <3>2. PICK q \in Engines : Owes(q, i)
      BY <1>0, <1>a, <3>1
    <3> QED BY <3>1, <3>2, OwesWrote
  <2> QED BY <1>c, <2>5, <2>6, <2>7, <2>8
<1>7. ASSUME \A p \in Engines : job'[p] = IdleJob, Missing' PROVE SavedInv'
  BY <1>0, <1>7, <1>c, Values
<1>8. CASE Forgot
  BY <1>7, <1>8 DEF Forgot
<1>9. CASE Restored
  <2>1. \A p \in Engines : job'[p] = IdleJob
    BY <1>9 DEF Restored, IdInv, KnownInv
  <2>2. acts' = log' /\ log' = log
    BY <1>9 DEF Restored
  <2> QED BY <1>7, <2>1, <2>2
<1> QED BY <1>1, <1>2, <1>3, <1>4, <1>5, <1>6, <1>8, <1>9 DEF Changed

\* With one handler at a time, whatever detections, decisions, timers, reloads, stops and starts come, an engine that is at
\* rest has everything it holds of an action in the file, unless a record was lost.
THEOREM RestIsSaved ==
  ASSUME \A p, q \in Handlers : p = q
  PROVE  Spec => []ActionsSaved
<1>1. Init => SavedInv
  <2> SUFFICES ASSUME Init PROVE SavedInv
    OBVIOUS
  <2>1. job = [p \in Engines |-> IdleJob] /\ up = "down"
    BY DEF Init, IsoInit
  <2> QED BY <2>1, Constants, Values DEF SavedInv
<1>2. TypeOK /\ IdInv /\ PendInv /\ SavedInv /\ [Next]_allVars => SavedInv'
  BY TypeSplit, EngineSteps, SavedStep
<1>3. TypeOK /\ IdInv /\ SavedInv => ActionsSaved
  <2> SUFFICES ASSUME TypeOK, IdInv, SavedInv, up # "down", EnginesIdle, ~cut, NEW i \in kept PROVE log[i] = acts[i]
    BY DEF ActionsSaved
  <2>1. EngineType /\ JobInv
    BY TypeSplit DEF IdInv
  <2>2. \A p \in Engines : ~Owes(p, i)
    BY <2>1, OwesNothing DEF EnginesIdle
  <2>3. i \in Known
    <3>1. Known \in SUBSET Ids
      BY DEF Known
    <3> QED BY <3>1, NewestFacts DEF IdInv, KnownInv
  <2> QED BY <2>2, <2>3 DEF SavedInv
<1> QED BY <1>1, <1>2, <1>3, TypeInit, TypeStep, PendInit, PendStep, PTL DEF Spec

-----------------------------------------------------------------------------
(* The cap on automatic isolations.                                        *)

LEMMA ModeStep ==
  ASSUME ReleaseAfter = 0, EngineType, IdInv, ModeInv, Changed
  PROVE  ModeInv'
<1> DEFINE Proposes(a) == ModeOf[a.resp] = "propose"
           M1 == \A i \in Ids : acts[i].status = "pending" => Proposes(acts[i])
           M2 == \A i \in Ids : log[i].status = "pending" => Proposes(log[i])
           M3 == \A i \in Ids : acts[i].releaseAt = 0 /\ log[i].releaseAt = 0
           M4 == \A p \in Engines : job[p].copy.releaseAt = 0 /\ job[p].due = {}
           M5 == \A p \in Handlers : Busy(p) => Proposes(acts[job[p].id])
           M6 == \A i \in job[Run].lapsed : Proposes(acts[i])
           M7 == job[Run].pc \in {"execute", "isolating"} => ModeOf[acts[job[Run].id].resp] = "enforce"
           M8 == job[Run].pc = "decide" => acts[job[Run].id].created <= now
<1>0. /\ JobInv /\ Run \in Engines /\ Handlers \subseteq Engines /\ Run \notin Handlers /\ NoAction.releaseAt = 0
      /\ Known \subseteq Ids /\ \A p \in Engines : job[p].id \in Ids /\ job[p].lapsed \subseteq Ids
  BY Constants, ReadTypes DEF IdInv, Known, NoAction
<1>a. M1 /\ M2 /\ M3 /\ M4 /\ M5 /\ M6 /\ M7 /\ M8
  BY DEF ModeInv
<1>c. M1' /\ M2' /\ M3' /\ M4' /\ M5' /\ M6' /\ M7' /\ M8' => ModeInv'
  BY DEF ModeInv
<1>d. \A i \in Ids : acts[i].created \in Nat /\ now \in Nat
  BY ReadTypes, ActionFields, TimerFacts DEF EngineType, Statuses
<1>1. CASE Quiet
  <2>1. UNCHANGED <<acts, log, job>> /\ now' \in Nat /\ now' >= now
    BY <1>1, TimerFacts DEF Quiet
  <2>2. M8'
    BY <1>0, <1>a, <1>d, <2>1
  <2> QED BY <1>a, <1>c, <2>1, <2>2 DEF Busy
<1>2. ASSUME NEW v \in VMs, NEW r \in Responses, Created(v, r) PROVE ModeInv'
  <2>1. next + 1 \in Ids /\ next + 1 \notin Known /\ log' = log /\ now' = now
    BY <1>2, IdCreated DEF Created
  <2>2. /\ \A i \in Ids \ {next + 1} : acts'[i] = acts[i]
        /\ acts'[next + 1].status = "new" /\ acts'[next + 1].created = now /\ acts'[next + 1].releaseAt = 0
    BY <1>2 DEF Created, ActTo
  <2>3. /\ job'[Run].pc = "decide" /\ job'[Run].id = next + 1 /\ job'[Run].copy = NoAction /\ job'[Run].due = {} /\ job'[Run].lapsed = {}
        /\ \A q \in Engines \ {Run} : job'[q] = job[q]
    BY <1>2 DEF Created, JobTo
  <2>4. M1' /\ M2' /\ M3'
    BY <1>a, <2>1, <2>2
  <2>5. M4' /\ M6' /\ M7' /\ M8'
    BY <1>0, <1>a, <1>d, <2>1, <2>2, <2>3
  <2>6. M5'
    <3> SUFFICES ASSUME NEW q \in Handlers, Busy(q)' PROVE Proposes(acts'[job'[q].id])
      BY DEF Proposes
    <3>1. job'[q] = job[q] /\ Busy(q)
      BY <1>0, <2>3 DEF Busy
    <3>2. job[q].id \in Known
      BY <1>0, <3>1 DEF JobInv, JobFits
    <3> QED BY <1>0, <1>a, <2>1, <2>2, <3>1, <3>2
  <2> QED BY <1>c, <2>4, <2>5, <2>6
<1>3. ASSUME NEW p \in Engines, Moved(p) PROVE ModeInv'
  <2>1. UNCHANGED <<acts, log, now>> /\ (\A q \in Engines \ {p} : job'[q] = job[q]) /\ job'[p].lapsed \subseteq job[p].lapsed
    BY <1>3, MovedParts
  <2>2. M4'
    <3>1. \A q \in Engines : job'[q].due = job[q].due /\ (job'[q].copy = NoAction \/ job'[q].copy = job[q].copy)
      BY <1>3, MovedParts
    <3> QED BY <1>0, <1>a, <3>1
  <2>3. M5'
    <3> SUFFICES ASSUME NEW q \in Handlers, Busy(q)' PROVE Proposes(acts[job'[q].id])
      BY <2>1 DEF Proposes
    <3>1. \/ Busy(q) /\ job'[q].id = job[q].id
          \/ Waiting(job'[q].id)
      BY <1>0, <1>3, <2>1, MovedParts DEF Busy
    <3>2. \A i : Waiting(i) => i \in Ids /\ Proposes(acts[i])
      BY <1>a DEF Waiting, EngineType
    <3> QED BY <1>a, <3>1, <3>2
  <2>4. M6'
    BY <1>0, <1>a, <2>1
  <2>5. M7' /\ M8'
    <3>1. \/ job'[Run] = job[Run]
          \/ job'[Run].id = job[Run].id /\ job[Run].pc = "decide" /\ ModeOf[acts[job[Run].id].resp] = "enforce" /\ job'[Run].pc = "execute"
          \/ job'[Run].id = job[Run].id /\ job[Run].pc = "execute" /\ job'[Run].pc = "isolating"
          \/ job'[Run].pc \in {"idle", "releasing"}
      BY <1>0, <1>3, MovedParts
    <3> QED BY <1>a, <2>1, <3>1
  <2> QED BY <1>a, <1>c, <2>1, <2>2, <2>3, <2>4, <2>5
<1>4. ASSUME NEW p \in Engines, NEW id \in Ids, Settled(p, id) PROVE ModeInv'
  <2> USE <1>4, SettledParts
  <2>1. \A i \in Ids : acts'[i].resp = acts[i].resp /\ acts'[i].created = acts[i].created /\ acts'[i].releaseAt = acts[i].releaseAt
    BY DEF Same
  <2>2. M1' /\ M2' /\ M3'
    BY <1>a, <2>1
  <2>3. M4'
    <3>1. acts'[id].releaseAt = 0
      BY <1>a, <2>1
    <3> QED BY <1>0, <1>a, <3>1
  <2>4. M5'
    <3> SUFFICES ASSUME NEW q \in Handlers, Busy(q)' PROVE Proposes(acts'[job'[q].id])
      BY DEF Proposes
    <3>1. CASE q # p
      <4>1. job'[q] = job[q] /\ Busy(q) /\ job[q].id \in Ids
        BY <1>0, <3>1 DEF Busy
      <4> QED BY <1>a, <2>1, <4>1
    <3>2. CASE q = p
      <4>1. Waiting(id) \/ (Busy(p) /\ job[p].id = id)
        BY DEF Busy
      <4>2. Proposes(acts[id])
        BY <1>a, <3>2, <4>1 DEF Waiting
      <4> QED BY <2>1, <3>2, <4>2
    <3> QED BY <3>1, <3>2
  <2>5. M6' /\ M7' /\ M8'
    <3>1. CASE p = Run
      BY <3>1
    <3>2. CASE p # Run
      <4>1. job'[Run] = job[Run] /\ now' = now
        BY <1>0, <3>2
      <4> QED BY <1>0, <1>a, <2>1, <4>1
    <3> QED BY <3>1, <3>2
  <2> QED BY <1>c, <2>2, <2>3, <2>4, <2>5
<1>5. CASE Ticked
  <2>1. /\ \A i \in Ids : acts'[i].resp = acts[i].resp /\ acts'[i].releaseAt = acts[i].releaseAt
        /\ \A i \in Ids : acts'[i] = acts[i] \/ acts'[i].status = "expired"
        /\ UNCHANGED <<log, now>>
    BY <1>5 DEF Ticked, Same
  <2>2. /\ job'[Run].pc = "tick" /\ job'[Run].copy = NoAction /\ job'[Run].due = DueNow /\ job'[Run].lapsed = LapsedNow
        /\ \A q \in Engines \ {Run} : job'[q] = job[q]
    BY <1>5 DEF Ticked, JobTo
  <2>3. DueNow = {} /\ \A i \in LapsedNow : i \in Ids /\ Proposes(acts[i])
    BY <1>a DEF DueNow, ReleaseDue, LapsedNow, Lapsed, EngineType
  <2>4. M1' /\ M2' /\ M3'
    BY <1>a, <2>1
  <2>5. M4' /\ M7' /\ M8'
    BY <1>0, <1>a, <2>2, <2>3
  <2>6. M6'
    BY <2>1, <2>2, <2>3
  <2>7. M5'
    BY <1>0, <1>a, <2>1, <2>2 DEF Busy
  <2> QED BY <1>c, <2>4, <2>5, <2>6, <2>7
<1>6. ASSUME NEW p \in Engines, NEW id \in Ids, WroteDown(p, id) PROVE ModeInv'
  <2> USE <1>6, WroteParts
  <2>1. \A i \in Ids : acts'[i].resp = acts[i].resp /\ acts'[i].created = acts[i].created /\ acts'[i].releaseAt = acts[i].releaseAt
    BY DEF Same
  <2>2. M1'
    BY <1>a, <2>1
  <2>3. M2' /\ M3'
    <3>1. job[p].copy # NoAction => job[p].copy.status # "pending" /\ job[p].copy.releaseAt = 0
      BY <1>0, <1>a DEF JobInv, JobFits
    <3>2. log'[id].releaseAt = 0 /\ (log'[id].status = "pending" => Proposes(log'[id]))
      BY <1>a, <2>1, <2>2, <3>1
    <3> QED BY <1>a, <2>1, <3>2
  <2>4. M4'
    BY <1>0, <1>a
  <2>5. M5'
    <3>1. \A q \in Handlers : Busy(q)' => Busy(q) /\ job'[q] = job[q]
      BY <1>0 DEF Busy
    <3> QED BY <1>0, <1>a, <2>1, <3>1
  <2>6. M6'
    <3>1. job'[Run].lapsed \subseteq job[Run].lapsed
      BY <1>0
    <3> QED BY <1>0, <1>a, <2>1, <3>1
  <2>7. M7' /\ M8'
    <3>1. job'[Run] = job[Run] \/ job'[Run].pc \in {"idle", "tick"}
      BY <1>0
    <3>2. now' = now
      OBVIOUS
    <3> QED BY <1>0, <1>a, <2>1, <3>1, <3>2
  <2> QED BY <1>c, <2>2, <2>3, <2>4, <2>5, <2>6, <2>7
<1>7. ASSUME \A p \in Engines : job'[p] = IdleJob PROVE M4' /\ M5' /\ M6' /\ M7' /\ M8'
  BY <1>0, <1>7, Values DEF Busy
<1>8. CASE Forgot
  <2>1. M1' /\ M2' /\ M3'
    BY <1>0, <1>8, <1>a, Values DEF Forgot
  <2>2. \A p \in Engines : job'[p] = IdleJob
    BY <1>8 DEF Forgot
  <2> QED BY <1>7, <1>c, <2>1, <2>2
<1>9. CASE Restored
  <2>1. \A p \in Engines : job'[p] = IdleJob
    BY <1>9 DEF Restored, IdInv, KnownInv
  <2>2. M1' /\ M2' /\ M3'
    BY <1>9, <1>a DEF Restored
  <2> QED BY <1>7, <1>c, <2>1, <2>2
<1> QED BY <1>1, <1>2, <1>3, <1>4, <1>5, <1>6, <1>8, <1>9 DEF Changed

LEMMA RecentFinite == IsFiniteSet(Recent) /\ Cardinality(Recent) \in Nat
<1>1. IsFiniteSet(Ids)
  BY Constants, FS_Interval DEF Ids
<1>2. Recent \in SUBSET Ids
  BY DEF Recent
<1> QED BY <1>1, <1>2, FS_Subset, FS_CardinalityType

\* What the engine counts when it decides is no less than what was done in the last hour.
LEMMA CountedEnough ==
  ASSUME EngineType, ModeInv, CapInv, ~cut, up # "down", job[Run].pc = "decide", ~OverCap(acts[job[Run].id].created)
  PROVE  Cardinality(Recent) < MaxPerHour
<1> DEFINE t == acts[job[Run].id].created
<1>0. t \in Nat /\ now \in Nat /\ t <= now /\ Hour \in Nat /\ MaxPerHour \in Nat
  <2>1. job[Run].id \in Ids
    BY Constants, ReadTypes
  <2>2. acts[job[Run].id].created \in Times /\ now \in Times
    BY <2>1, ReadTypes, ActionFields DEF EngineType, Statuses
  <2> QED BY <2>2, Constants, TimerFacts DEF ModeInv
<1> HIDE DEF t
<1>1. Recent \in SUBSET AutoLastHour(t)
  <2> SUFFICES ASSUME NEW i \in Recent PROVE i \in hourly /\ t - acts[i].decided < Hour
    BY DEF AutoLastHour
  <2>1. i \in Ids /\ autos[i] # Never /\ now - autos[i] < Hour /\ i \in hourly
    BY DEF CapInv, Recent
  <2>2. acts[i].decided = autos[i]
    BY <2>1 DEF CapInv, Counts
  <2>3. autos[i] \in Nat
    BY <2>1, ReadTypes, TimerFacts
  <2> QED BY <1>0, <2>1, <2>2, <2>3
<1>2. IsFiniteSet(AutoLastHour(t))
  <2>1. IsFiniteSet(Ids)
    BY Constants, FS_Interval DEF Ids
  <2>2. AutoLastHour(t) \in SUBSET Ids
    BY DEF AutoLastHour, EngineType
  <2> QED BY <2>1, <2>2, FS_Subset
<1>3. Cardinality(Recent) <= Cardinality(AutoLastHour(t)) /\ Cardinality(AutoLastHour(t)) \in Nat /\ Cardinality(Recent) \in Nat
  BY <1>1, <1>2, FS_Subset, FS_CardinalityType
<1>4. ~(Cardinality(AutoLastHour(t)) >= MaxPerHour)
  BY DEF OverCap, t
<1> HIDE DEF Recent, AutoLastHour
<1> QED BY <1>0, <1>3, <1>4

LEMMA CapStep ==
  ASSUME ReleaseAfter = 0, EngineType, EngineType', IdInv, PendInv, ModeInv, CapInv, Changed
  PROVE  CapInv'
<1> SUFFICES ASSUME ~cut' PROVE CapInv'
  BY DEF CapInv
<1> DEFINE Writing(i) == up # "down" /\ job[Run].pc = "record" /\ job[Run].id = i
           C1 == \A i \in Ids : autos[i] # Never => Counts(log[i], i) \/ Writing(i)
           C2 == up # "down" => \A i \in Ids : autos[i] # Never => i \in Known /\ Counts(acts[i], i)
           C3 == up # "down" => Recent \subseteq hourly
           C4 == Cardinality(Recent) <= MaxPerHour
           C5 == job[Run].pc \in {"execute", "isolating"} => Cardinality(Recent) < MaxPerHour
<1>0. /\ JobInv /\ MakingInv /\ Run \in Engines /\ Handlers \subseteq Engines /\ Run \notin Handlers /\ Engines = {Run} \cup Handlers
      /\ Known \subseteq Ids /\ (\A p \in Engines : job[p].id \in Ids) /\ MaxPerHour \in Nat
  BY Constants, ReadTypes DEF IdInv, Known, PendInv
<1>a. ~cut => C1 /\ C2 /\ C3 /\ C4 /\ C5
  BY DEF CapInv
<1>c. C1' /\ C2' /\ C3' /\ C4' /\ C5' => CapInv'
  BY DEF CapInv
<1>d. now \in Nat /\ \A i \in Ids : autos[i] # Never => autos[i] \in Nat
  BY ReadTypes, TimerFacts DEF EngineType
<1>e. \A i, a : Counts(a, i) => Enforced(a.status) /\ ModeOf[a.resp] = "enforce"
  BY DEF Counts
<1>1. CASE Quiet
  <2>1. UNCHANGED <<acts, log, job, hourly, autos, cut>> /\ (up' = "down" <=> up = "down") /\ now' \in Nat /\ now' >= now /\ Known' = Known
    BY <1>1, TimerFacts DEF Quiet, Known
  <2>2. Recent' \in SUBSET Recent
    <3> SUFFICES ASSUME NEW i \in Ids, autos[i] # Never, now' - autos[i] < Hour PROVE now - autos[i] < Hour
      BY <2>1 DEF Recent
    <3>1. autos[i] \in Nat /\ Hour \in Nat
      BY <1>d, Constants
    <3> QED BY <1>d, <2>1, <3>1
  <2>3. Cardinality(Recent') <= Cardinality(Recent) /\ Cardinality(Recent') \in Nat /\ Cardinality(Recent) \in Nat
    BY <2>2, RecentFinite, FS_Subset, FS_CardinalityType
  <2>4. C1' /\ C2' /\ C3'
    BY <1>a, <2>1, <2>2 DEF Counts
  <2>5. C4' /\ C5'
    <3> HIDE DEF Recent
    <3> QED BY <1>0, <1>a, <2>1, <2>3
  <2> QED BY <1>c, <2>4, <2>5
<1>2. ASSUME NEW v \in VMs, NEW r \in Responses, Created(v, r) PROVE CapInv'
  <2>0. up # "down" /\ up' = up /\ UNCHANGED <<log, cut, hourly, autos, now>> /\ job[Run].pc = "idle"
    BY <1>2 DEF Created, Alive
  <2>1. next + 1 \in Ids /\ next + 1 \notin Known /\ Known' = Known \cup {next + 1}
    BY <1>2, IdCreated
  <2>2. (\A i \in Ids \ {next + 1} : acts'[i] = acts[i]) /\ job'[Run].pc = "decide"
    BY <1>2 DEF Created, ActTo, JobTo
  <2>3. Recent' = Recent
    BY <2>0 DEF Recent
  <2>4. C1' /\ C2'
    BY <1>a, <2>0, <2>1, <2>2 DEF Counts
  <2> QED BY <1>a, <1>c, <2>0, <2>2, <2>3, <2>4
<1>3. ASSUME NEW p \in Engines, Moved(p) PROVE CapInv'
  <2>1. up # "down" /\ up' = up /\ UNCHANGED <<acts, log, cut, hourly, autos, now>> /\ Known' = Known
    BY <1>3, MovedParts DEF Known
  <2>2. /\ job[Run].pc = "record" => job'[Run] = job[Run]
        /\ job'[Run].pc \in {"execute", "isolating"} =>
             \/ job[Run].pc \in {"execute", "isolating"}
             \/ job[Run].pc = "decide" /\ ~OverCap(acts[job[Run].id].created)
    BY <1>0, <1>3, MovedParts
  <2>3. Recent' = Recent
    BY <2>1 DEF Recent
  <2>4. C1' /\ C2' /\ C3' /\ C4'
    BY <1>a, <2>1, <2>2, <2>3 DEF Counts
  <2>5. C5'
    BY <1>a, <2>1, <2>2, <2>3, CountedEnough
  <2> QED BY <1>c, <2>4, <2>5
<1>4. ASSUME NEW p \in Engines, NEW id \in Ids, Settled(p, id) PROVE CapInv'
  <2>0. /\ up # "down" /\ up' = up /\ UNCHANGED <<log, cut, now>> /\ id \in Known
        /\ (\A i \in Ids \ {id} : acts'[i] = acts[i]) /\ Same(acts'[id], acts[id])
        /\ job'[p].pc = "record" /\ job'[p].id = id /\ \A q \in Engines \ {p} : job'[q] = job[q]
    BY <1>4, SettledParts
  <2>1. Known' = Known
    BY <1>4, KeptActs DEF ActsKeep
  <2>2. job[p].pc # "record"
    BY <1>4, SettledParts
  <2>3. autos[id] = Never
    <3> SUFFICES ASSUME autos[id] # Never PROVE FALSE
      OBVIOUS
    <3>1. Enforced(acts[id].status) /\ ModeOf[acts[id].resp] = "enforce"
      BY <1>a, <1>e, <2>0
    <3>2. CASE p \in Handlers
      <4>1. Waiting(id) \/ (Busy(p) /\ job[p].id = id)
        BY <1>4, SettledParts DEF Busy
      <4> QED BY <3>1, <3>2, <4>1 DEF Waiting, Enforced, ModeInv
    <3>3. CASE p = Run
      <4>1. job[p].id = id /\ job[p].pc \in {"decide", "isolating", "approved", "releasing"}
        BY <1>0, <1>4, <3>3, SettledParts
      <4>2. job[p].pc \notin {"approved", "releasing"}
        BY <1>0, <3>3 DEF JobInv, JobFits, ModeInv
      <4> QED BY <1>0, <3>1, <3>3, <4>1, <4>2 DEF MakingInv, Making, Enforced
    <3> QED BY <1>0, <3>2, <3>3
  <2>4. CASE UNCHANGED <<hourly, autos>>
    <3>1. Recent' = Recent
      BY <2>0, <2>4 DEF Recent
    <3>2. C1'
      BY <1>0, <1>a, <2>0, <2>2, <2>4 DEF Counts
    <3>3. C2'
      BY <1>a, <2>0, <2>1, <2>3, <2>4 DEF Counts
    <3>4. C5'
      BY <1>0, <1>a, <2>0, <3>1
    <3> QED BY <1>a, <1>c, <2>0, <2>4, <3>1, <3>2, <3>3, <3>4
  <2>5. CASE /\ p = Run /\ job[p].pc = "isolating" /\ acts'[id].decided = now /\ Enforced(acts'[id].status)
             /\ hourly' = hourly \cup {id} /\ autos' = [autos EXCEPT ![id] = now]
    <3>1. autos'[id] = now /\ \A i \in Ids \ {id} : autos'[i] = autos[i]
      BY <2>5 DEF EngineType
    <3>2. C1'
      <4> SUFFICES ASSUME NEW i \in Ids, autos'[i] # Never PROVE Counts(log[i], i)' \/ Writing(i)'
        BY <2>0
      <4>1. CASE i = id
        BY <2>0, <2>5, <4>1
      <4>2. CASE i # id
        <5>1. Counts(log[i], i)
          BY <1>a, <2>0, <2>5, <3>1, <4>2
        <5> QED BY <2>0, <3>1, <4>2, <5>1 DEF Counts
      <4> QED BY <4>1, <4>2
    <3>3. C2'
      <4> SUFFICES ASSUME NEW i \in Ids, autos'[i] # Never PROVE i \in Known /\ Counts(acts[i], i)'
        BY <2>1
      <4>1. CASE i = id
        <5>1. ModeOf[acts[id].resp] = "enforce" /\ job[Run].id = id
          BY SMTT(30), <1>0, <1>4, <2>5, SettledParts DEF ModeInv
        <5> QED BY <2>0, <2>5, <3>1, <4>1, <5>1 DEF Counts, Same
      <4>2. CASE i # id
        <5>1. i \in Known /\ Counts(acts[i], i)
          BY <1>a, <2>0, <3>1, <4>2
        <5> QED BY <2>0, <3>1, <4>2, <5>1 DEF Counts
      <4> QED BY <4>1, <4>2
    <3>4. Recent' \in SUBSET (Recent \cup {id})
      BY <2>0, <3>1 DEF Recent
    <3>5. C3'
      BY <1>a, <2>0, <2>5, <3>4
    <3>6. C4'
      <4>1. Cardinality(Recent) < MaxPerHour
        BY <1>a, <2>0, <2>5
      <4>2. IsFiniteSet(Recent) /\ Cardinality(Recent) \in Nat
        BY RecentFinite
      <4> HIDE DEF Recent
      <4>3. IsFiniteSet(Recent \cup {id}) /\ Cardinality(Recent \cup {id}) <= Cardinality(Recent) + 1 /\ Cardinality(Recent \cup {id}) \in Nat
        <5>1. IsFiniteSet(Recent \cup {id}) /\ Cardinality(Recent \cup {id}) \in Nat
          BY <4>2, FS_AddElement, FS_CardinalityType
        <5>2. Cardinality(Recent \cup {id}) = IF id \in Recent THEN Cardinality(Recent) ELSE Cardinality(Recent) + 1
          BY <4>2, FS_AddElement
        <5> QED BY <4>2, <5>1, <5>2
      <4>4. Cardinality(Recent') <= Cardinality(Recent \cup {id}) /\ Cardinality(Recent') \in Nat
        BY <3>4, <4>3, FS_Subset, FS_CardinalityType
      <4> QED BY <1>0, <4>1, <4>2, <4>3, <4>4
    <3>7. C5'
      BY <2>0, <2>5
    <3> QED BY <1>c, <3>2, <3>3, <3>5, <3>6, <3>7
  <2> QED BY <1>4, <2>4, <2>5, SettledParts
<1>5. CASE Ticked
  <2>0. up # "down" /\ up' = up /\ UNCHANGED <<log, cut, hourly, autos, now>> /\ job[Run].pc = "idle" /\ Known' = Known
    BY <1>5, KeptActs DEF Ticked, Alive, ActsKeep
  <2>1. /\ job'[Run].pc = "tick" /\ \A i \in Ids : acts[i].status # "pending" => acts'[i] = acts[i]
    BY <1>5 DEF Ticked, JobTo, LapsedNow, Lapsed
  <2>2. Recent' = Recent
    BY <2>0 DEF Recent
  <2>3. C1'
    BY <1>a, <2>0 DEF Counts
  <2>4. C2'
    <3> SUFFICES ASSUME NEW i \in Ids, autos[i] # Never PROVE i \in Known /\ Counts(acts[i], i)'
      BY <2>0
    <3>1. i \in Known /\ Counts(acts[i], i) /\ acts[i].status # "pending"
      BY <1>a, <2>0 DEF Counts, Enforced
    <3> QED BY <2>0, <2>1, <3>1 DEF Counts
  <2> QED BY <1>a, <1>c, <2>0, <2>1, <2>2, <2>3, <2>4
<1>6. ASSUME NEW p \in Engines, NEW id \in Ids, WroteDown(p, id) PROVE CapInv'
  <2>0. /\ up # "down" /\ up' = up /\ UNCHANGED <<hourly, autos, now>> /\ acts' = acts /\ ~cut /\ Known' = Known
        /\ \A i \in Ids \ {id} : log'[i] = log[i]
        /\ log'[id] = acts[id] \/ (job[p].copy # NoAction /\ log'[id] = job[p].copy)
    BY <1>6, WroteParts DEF Known
  <2>1. /\ job[Run].pc = "record" => job[Run].id = id \/ job'[Run] = job[Run]
        /\ job'[Run].pc \in {"execute", "isolating"} => job'[Run] = job[Run]
    BY <1>0, <1>6, WroteParts
  <2>2. Recent' = Recent
    BY <2>0 DEF Recent
  <2>3. C1'
    <3> SUFFICES ASSUME NEW i \in Ids, autos[i] # Never PROVE Counts(log[i], i)' \/ Writing(i)'
      BY <2>0
    <3>1. CASE i = id
      <4>1. Counts(acts[id], id)
        BY <1>a, <2>0, <3>1
      <4>2. job[p].copy = NoAction
        <5> SUFFICES ASSUME job[p].copy # NoAction PROVE FALSE
          OBVIOUS
        <5>1. p \in Handlers /\ job[p].pc = "record" /\ job[p].id = id
          BY <1>0, <1>6, WroteParts DEF JobInv, JobFits
        <5>2. ModeOf[acts[id].resp] = "propose"
          BY <5>1 DEF ModeInv, Busy
        <5> QED BY <1>e, <4>1, <5>2
      <4> QED BY <2>0, <3>1, <4>1, <4>2 DEF Counts
    <3>2. CASE i # id
      BY <1>a, <2>0, <2>1, <3>2 DEF Counts
    <3> QED BY <3>1, <3>2
  <2>4. C2'
    BY <1>a, <2>0 DEF Counts
  <2> QED BY <1>a, <1>c, <2>0, <2>1, <2>2, <2>3, <2>4
<1>7. CASE Forgot
  <2>0. ~cut /\ EnginesIdle /\ up' = "down" /\ UNCHANGED <<log, autos, now>> /\ job'[Run] = IdleJob
    BY <1>0, <1>7 DEF Forgot
  <2>1. job[Run].pc = "idle" /\ Recent' = Recent
    BY <1>0, <2>0 DEF EnginesIdle, Recent
  <2>2. C1'
    BY <1>a, <2>0, <2>1 DEF Counts
  <2> QED BY <1>a, <1>c, <2>0, <2>1, <2>2, Values
<1>8. CASE Restored
  <2>0. /\ ~cut /\ up = "down" /\ up' # "down" /\ UNCHANGED <<log, autos, now>> /\ acts' = log /\ job' = job
        /\ hourly' = {i \in OnFile : Counted(i)} /\ job[Run] = IdleJob
    BY <1>0, <1>8 DEF Restored, IdInv, KnownInv
  <2>1. \A i \in Ids : autos[i] # Never => Counts(log[i], i)
    BY <1>a, <2>0
  <2>2. \A i \in Ids : autos[i] # Never => i \in OnFile
    BY <2>1 DEF Counts, Enforced, OnFile
  <2>3. Known' = OnFile /\ Recent' = Recent
    BY <2>0 DEF Known, OnFile, Recent
  <2>4. C1' /\ C2'
    BY <2>0, <2>1, <2>2, <2>3 DEF Counts
  <2>5. C3'
    <3> SUFFICES ASSUME NEW i \in Recent PROVE i \in OnFile /\ Counted(i)
      BY <2>0, <2>3
    <3>1. i \in Ids /\ autos[i] # Never /\ now - autos[i] < Hour
      BY DEF Recent
    <3> QED BY <2>1, <2>2, <3>1 DEF Counts, Counted
  <2> QED BY <1>a, <1>c, <2>0, <2>3, <2>4, <2>5, Values
<1> QED BY <1>1, <1>2, <1>3, <1>4, <1>5, <1>6, <1>7, <1>8 DEF Changed

\* While isolations do not release themselves, no rolling hour has more automatic ones than the cap allows, over restarts
\* and with any number of VMs, responses and handlers, unless a record was lost.
THEOREM CapAlwaysHolds ==
  ASSUME ReleaseAfter = 0
  PROVE  Spec => []CapHolds
<1>1. Init => ModeInv /\ CapInv
  <2> SUFFICES ASSUME Init PROVE ModeInv /\ CapInv
    OBVIOUS
  <2>1. /\ acts = [i \in Ids |-> NoAction] /\ log = [i \in Ids |-> NoAction] /\ up = "down"
        /\ job = [p \in Engines |-> IdleJob] /\ autos = [i \in Ids |-> Never]
    BY DEF Init, IsoInit
  <2>2. NoAction.releaseAt = 0 /\ NoAction.status = "none" /\ IdleJob.pc = "idle" /\ IdleJob.copy = NoAction
        /\ IdleJob.due = {} /\ IdleJob.lapsed = {} /\ Run \in Engines /\ Handlers \subseteq Engines
    BY Values, Constants DEF NoAction
  <2>3. ModeInv
    BY <2>1, <2>2 DEF ModeInv, Busy
  <2>4. Recent = {}
    BY <2>1 DEF Recent
  <2>5. Cardinality(Recent) = 0
    BY <2>4, FS_EmptySet
  <2> QED BY <2>1, <2>2, <2>3, <2>5, Constants DEF CapInv
<1>2. TypeOK /\ IdInv /\ PendInv /\ ModeInv /\ CapInv /\ [Next]_allVars => ModeInv' /\ CapInv'
  <2> SUFFICES ASSUME TypeOK, IdInv, PendInv, ModeInv, CapInv, [Next]_allVars PROVE ModeInv' /\ CapInv'
    OBVIOUS
  <2>1. EngineType /\ EngineType' /\ Changed
    BY TypeSplit, EngineSteps
  <2> QED BY <2>1, ModeStep, CapStep
<1>3. CapInv => CapHolds
  BY DEF CapInv, CapHolds, Recent
<1> QED BY <1>1, <1>2, <1>3, TypeInit, TypeStep, PendInit, PendStep, PTL DEF Spec

=============================================================================
