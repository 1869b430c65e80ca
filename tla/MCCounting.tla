----------------------------- MODULE MCCounting -----------------------------
(***************************************************************************)
(* The components that turn the kernel's cumulative counts into what is    *)
(* said of a window: History, TapCounts, Contention, Thresholds and        *)
(* Verdicts.  They share no state, so each behaviour runs one of them and  *)
(* leaves the others as they start.                                        *)
(***************************************************************************)
EXTENDS History, TapCounts, Contention, Thresholds, Verdicts, TLC

CONSTANTS t1, t2, c1, c2
CONSTANT Running      \* the components to explore
VARIABLE runs         \* the one this behaviour is about

TwoTids == {t1, t2}
\* The snapshots in memory need a longer time than the ones on disk before they are trimmed.
LiveAndPast == {[store |-> FALSE, clock |-> 4, churn |-> 1], [store |-> FALSE, clock |-> 3, churn |-> 2],
                [store |-> TRUE, clock |-> 3, churn |-> 1]}
TwoConns == {c1, c2}
\* Two VMs, one with a second thread, and a host task.
MCVMOf == ("d1" :> "db") @@ ("w1" :> "web") @@ ("w2" :> "web") @@ ("kworker" :> "host")
Short == [window |-> 1, value |-> 0, op |-> ">", needsProgram |-> FALSE]
Long == [window |-> 2, value |-> 1, op |-> ">=", needsProgram |-> TRUE]
SomeRules == {{}, {Short}, {Short, Long}}

FewBatches == [latency |-> 3, counts |-> 4, size |-> 1]
\* Ticks of a VM with one vCPU, and of one with three.
VCPUTick(o, v, h, z) == [on |-> o, byVM |-> v, byHost |-> h, halt |-> z]
SomeTicks == {VCPUTick(0, 0, 0, 1), VCPUTick(1, 0, 0, 0), VCPUTick(0, 1, 0, 0),
              VCPUTick(0, 0, 0, 3), VCPUTick(1, 0, 0, 2), VCPUTick(2, 1, 0, 0), VCPUTick(1, 0, 2, 0)}

allVars == <<runs, histVars, tapVars, contVars, thrVars, verdVars>>

\* A component that is not explored starts in one state only.
Init ==
  /\ runs \in Running
  /\ HistInit /\ TapInit /\ ContInit /\ ThrInit /\ VerdInit
  /\ runs # "history" => setup = CHOOSE s \in Setups : TRUE
  /\ runs # "taps" => part = CHOOSE p \in Parts : TRUE
  /\ runs # "contention" => up = Names
  /\ runs # "thresholds" => rules = {}
  /\ runs # "verdicts" => subject = "counts" /\ seen = {}

Next ==
  \/ runs = "history" /\ HistNext /\ UNCHANGED <<runs, tapVars, contVars, thrVars, verdVars>>
  \/ runs = "taps" /\ TapNext /\ UNCHANGED <<runs, histVars, contVars, thrVars, verdVars>>
  \/ runs = "contention" /\ ContNext /\ UNCHANGED <<runs, histVars, tapVars, thrVars, verdVars>>
  \/ runs = "thresholds" /\ ThrNext /\ UNCHANGED <<runs, histVars, tapVars, contVars, verdVars>>
  \/ runs = "verdicts" /\ VerdNext /\ UNCHANGED <<runs, histVars, tapVars, contVars, thrVars>>

Spec == Init /\ [][Next]_allVars
Same == Permutations(Tids)
=============================================================================
