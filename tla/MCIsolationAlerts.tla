------------------------- MODULE MCIsolationAlerts -------------------------
(***************************************************************************)
(* Isolation and Alerts, two small parts that share nothing, for TLC.  A   *)
(* behaviour is about one of the two and leaves the other at rest.         *)
(***************************************************************************)
EXTENDS Isolation, Alerts

CONSTANTS v1, t1, t2, p1, p2, a, b, c, hook, disk
VARIABLE runs

\* One VM with two taps, and two people.
OneVM == {v1}
TwoTaps == {t1, t2}
OneVMOwner == [t \in Taps |-> v1]
People == {p1, p2}

ThreeKeys == {a, b, c}
Hooks == {hook}
Files == {disk}
\* Suppression and delivery meet only in the alerts that pass, so they are explored apart.
Apart == {[sinks |-> {}, windows |-> {0, 2}, raises |-> 5], [sinks |-> {hook, disk}, windows |-> {0}, raises |-> 3]}

bothVars == <<runs, isoVars, vars>>

\* The daemon is up, has no VM to look after yet, and nobody asks it for anything.
IsoUp ==
  /\ up = "up" /\ avail = FALSE /\ running = {} /\ scan = {} /\ refresh = IdleRefresh
  /\ link = [t \in Taps |-> "none"] /\ flag = [t \in Taps |-> FALSE]
  /\ last = [v \in VMs |-> NoRecord] /\ file = last /\ lost = FALSE
  /\ call = [p \in Callers |-> IdleCall] /\ calls = 0 /\ faults = 0

BothInit ==
  /\ Init
  /\ \/ runs = "alerts" /\ IsoUp
     \/ /\ runs = "isolation" /\ IsoInit
        /\ setup = CHOOSE s \in Setups : TRUE
        /\ window = CHOOSE w \in Windows : TRUE

BothNext ==
  \/ runs = "isolation" /\ IsoNext /\ UNCHANGED <<runs, vars>>
  \/ runs = "alerts" /\ Next /\ UNCHANGED <<runs, isoVars>>

\* IsoFairness, for the behaviours that are about isolation, and the fairness of FairSpec: with Alerts at
\* rest there is no hook to run, nothing for a worker and nothing to close.
BothFairSpec ==
  /\ BothInit /\ [][BothNext]_bothVars
  /\ \A p \in Callers : WF_isoVars(runs = "isolation" /\ (CallStep(p) \/ Answer(p)))
  /\ WF_isoVars(runs = "isolation" /\ Refresh)
  /\ WF_isoVars(runs = "isolation" /\ Exit) /\ WF_isoVars(runs = "isolation" /\ Start)
  /\ \A s \in Webhooks \cup Locals : WF_vars(s \in Sinks /\ Work(s))
  /\ WF_vars(\E e \in emitting : Emit(e))
  /\ WF_vars(Closed)
=============================================================================
