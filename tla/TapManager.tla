----------------------------- MODULE TapManager -----------------------------
(***************************************************************************)
(* The tap manager (internal/bpfgen/tap.go) and the part of Refresh that   *)
(* drives it (internal/agent/agent.go).                                    *)
(*                                                                         *)
(* A tap is an interface of the host; the kernel gives it an index, takes  *)
(* the index back when the interface goes, and may give it out again.  The *)
(* tap program sits on an interface through two links, one per direction,  *)
(* which are pinned so that they outlive the daemon.  What the program     *)
(* does is in maps keyed by the INDEX; what the daemon believes it does is *)
(* in tapLinks, keyed by the NAME.  Everything here is about the two       *)
(* staying together through crashes, restarts and interfaces that go.      *)
(*                                                                         *)
(* The manager's mutex is held for one call, so a call is one step, except *)
(* that the process can die inside SyncTaps (mid, Syncing).  Several       *)
(* goroutines run Refresh (Refreshers): main's ticker and the netlink      *)
(* watcher.                                                                *)
(***************************************************************************)
EXTENDS Integers, FiniteSets

CONSTANTS
  Taps,         \* names of VM interfaces, each of one VM
  Indexes,      \* interface indexes the kernel gives out, and gives out again
  Refreshers,   \* the goroutines that run Refresh
  Quarantine,   \* the -quarantine flag
  Setups,       \* bound: which of them run, and how much of each bound below is used up at the start
  Ticker,       \* the policy engine's own goroutine reconciles beside Refresh
  MaxHost,      \* bound: interfaces that come or go
  MaxAsks,      \* bound: requests to isolate, release or change a policy
  MaxFaults     \* bound: crashes, failed calls and scans that miss a VM

ASSUME ConstantsAssumption ==
  /\ Indexes \subseteq Nat \ {0}
  /\ Setups \subseteq [refreshers : SUBSET Refreshers, host : 0..MaxHost, asks : 0..MaxAsks, faults : 0..MaxFaults]
  /\ Quarantine \in BOOLEAN /\ Ticker \in BOOLEAN
  /\ MaxHost \in Nat /\ MaxAsks \in Nat /\ MaxFaults \in Nat

VARIABLES
  iface,    \* iface[t]: the index of t's interface, 0 while there is none
  inLink,   \* inLink[t], outLink[t]: the index the pinned link of t is on, Dead when its interface went,
  outLink,  \*   NoLink when there is no such pin
  pol,      \* tap_policy: pol[i] is the value of index i, Clear when there is none
  list,     \* egress4, egress6: the taps whose networks are listed under index i
  taps,     \* tapMgr.taps: what the process holds for a tap, NoTap when it does not carry the program
  mid,      \* the attach or detach a process may die in, or NoMid
  up,       \* the daemon runs
  isolate,  \* the taps with an isolation on record
  saved,    \* saved[t]: the mode of the egress policy on record
  refresh,  \* refresh[r]: where a Refresh is, and what its scan found
  torn,     \* history: indexes whose map entries no process may know of: a write failed, a process
            \*   died with an entry whose interface was gone or whose detach was half done, or an entry
            \*   was cleared under another tap that had come to the same index
  host, asks, faults

vars == <<iface, inLink, outLink, pol, list, taps, mid, up, isolate, saved, refresh,
          torn, host, asks, faults>>
kernel == <<inLink, outLink, pol, list>>
record == <<isolate, saved>>
bounds == <<host, asks, faults>>

-----------------------------------------------------------------------------
Dead == 0
NoLink == -1
NoIndex == 0
LinkState == Indexes \cup {Dead, NoLink}

Modes == {"off", "audit", "enforce"}
Policy == [isolated : BOOLEAN, egress : Modes]
Clear == [isolated |-> FALSE, egress |-> "off"]

NoTap == [ifindex |-> NoIndex, isolated |-> FALSE, egress |-> "off", quarantine |-> FALSE]
TapLinks == {NoTap} \cup [ifindex : Indexes, isolated : BOOLEAN, egress : Modes, quarantine : BOOLEAN]
Carries(t) == taps[t].ifindex # NoIndex
\* Two taps of the process have the index: the interface of one went, and another came up with its index
\* while SyncTaps was between its detaches and its attaches.
Shared(i) == \E t, u \in Taps : t # u /\ taps[t].ifindex = i /\ taps[u].ifindex = i

NoMid == [op |-> "none"]
MidState == {NoMid} \cup [op : {"attach", "detach"}, tap : Taps]

Stages == {"idle", "scanned", "detach", "attach", "hold", "policy", "reapply"}
RefreshState == [at : Stages, want : SUBSET Taps, hold : SUBSET Taps]
Idle == [at |-> "idle", want |-> {}, hold |-> {}]

Live(t) == iface[t] # NoIndex
\* The tap's interface carries the program both ways and drops what is not on the management list.
CutOff(t) == /\ Live(t) /\ inLink[t] = iface[t] /\ outLink[t] = iface[t]
             /\ pol[iface[t]].isolated

Fault == faults < MaxFaults /\ faults' = faults + 1
NoFault == UNCHANGED faults

\* SyncTaps holds the manager's mutex from its first detach to its last attach.
Syncing(r) == refresh[r].at \in {"detach", "attach"}
Free == up /\ \A r \in DOMAIN refresh : ~Syncing(r)
Syncs(r, s) == up /\ mid = NoMid /\ refresh[r].at = s

Init ==
  /\ iface = [t \in Taps |-> NoIndex]
  /\ inLink = [t \in Taps |-> NoLink] /\ outLink = [t \in Taps |-> NoLink]
  /\ pol = [i \in Indexes |-> Clear] /\ list = [i \in Indexes |-> {}]
  /\ taps = [t \in Taps |-> NoTap] /\ mid = NoMid /\ up = FALSE
  /\ isolate = {} /\ saved = [t \in Taps |-> "off"]
  /\ torn = {}
  /\ \E s \in Setups :
       /\ refresh = [r \in s.refreshers |-> Idle]
       /\ host = s.host /\ asks = s.asks /\ faults = s.faults

-----------------------------------------------------------------------------
(* The host. *)

\* The index may be one another interface had before, or the tap's own of long ago: the kernel does not hand
\* an index straight back to a name before anyone has looked.
InterfaceUp(t, i) ==
  /\ host < MaxHost /\ host' = host + 1
  /\ ~Live(t) /\ taps[t].ifindex # i /\ \A u \in Taps : iface[u] # i
  /\ iface' = [iface EXCEPT ![t] = i]
  /\ UNCHANGED <<kernel, taps, mid, up, record, refresh, torn, asks, faults>>

\* The kernel takes its links off an interface that goes; the pins stay and say no index.  The map entries stay.
InterfaceDown(t) ==
  /\ host < MaxHost /\ host' = host + 1
  /\ Live(t)
  /\ LET Gone(l) == [u \in Taps |-> IF l[u] = iface[t] THEN Dead ELSE l[u]]
     IN inLink' = Gone(inLink) /\ outLink' = Gone(outLink)
  /\ torn' = torn \cup ({iface[t]} \ {taps[u].ifindex : u \in Taps})
  /\ iface' = [iface EXCEPT ![t] = NoIndex]
  /\ UNCHANGED <<pol, list, taps, mid, up, record, refresh, asks, faults>>

-----------------------------------------------------------------------------
(* Writes of the maps, each under the manager's mutex. *)

\* A call about a tap that does not carry the program is an error.
WritableAlways(t) == TRUE
Writable(t) == Carries(t)
PutPolicy(t, p) == pol' = [pol EXCEPT ![taps[t].ifindex] = p]
Note(t, on, mode, held) ==
  taps' = [taps EXCEPT ![t] = [ifindex |-> @.ifindex, isolated |-> on, egress |-> mode, quarantine |-> held]]

\* SetTapIsolated.  A failed write changes nothing.
SetTapIsolated(t, on) ==
  /\ Writable(t)
  /\ PutPolicy(t, [isolated |-> on, egress |-> taps[t].egress])
  /\ Note(t, on, taps[t].egress, taps[t].quarantine /\ on)
  /\ UNCHANGED <<inLink, outLink, list, torn>>

\* SetTapQuarantine notes the drop before it writes it, so a failed write leaves the note.
SetTapQuarantine(t) ==
  /\ Writable(t)
  /\ Note(t, TRUE, taps[t].egress, TRUE)
  /\ \/ NoFault /\ PutPolicy(t, [isolated |-> TRUE, egress |-> taps[t].egress]) /\ UNCHANGED torn
     \/ Fault /\ UNCHANGED pol /\ torn' = torn \cup {taps[t].ifindex}
  /\ UNCHANGED <<inLink, outLink, list>>

\* SetTapEgress: add, set the mode, which ends a quarantine, remove the rest.
SetTapEgress(t, mode) ==
  LET i == taps[t].ifindex
      kept == taps[t].isolated /\ ~taps[t].quarantine
      entries == IF mode = "off" THEN {} ELSE {t}
  IN /\ Writable(t)
     /\ NoFault
     /\ PutPolicy(t, [isolated |-> kept, egress |-> mode])
     /\ list' = [list EXCEPT ![i] = entries]
     /\ Note(t, kept, mode, FALSE)
     /\ torn' = torn \ {i}
     /\ UNCHANGED <<inLink, outLink>>

\* It fails while it adds, or when it sets the mode, with the quarantine already forgotten.
SetTapEgressFails(t, mode) ==
  LET i == taps[t].ifindex
  IN /\ Writable(t)
     /\ Fault
     /\ mode # "off" /\ list' = [list EXCEPT ![i] = @ \cup {t}]
     /\ \/ UNCHANGED taps
        \/ Note(t, taps[t].isolated /\ ~taps[t].quarantine, taps[t].egress, FALSE)
     /\ torn' = torn \cup {i}
     /\ UNCHANGED <<inLink, outLink, pol>>

-----------------------------------------------------------------------------
(* SyncTaps. *)

Stage(r, s) == refresh' = [refresh EXCEPT ![r].at = s]

\* Refresh scans and comes to SyncTaps with what it found.
Scan(r) ==
  /\ up /\ refresh[r].at = "idle"
  /\ \E want \in SUBSET {t \in Taps : Live(t)} :
       /\ IF \A t \in Taps : Live(t) => t \in want THEN NoFault ELSE Fault
       /\ refresh' = [refresh EXCEPT ![r] = [at |-> "scanned", want |-> want, hold |-> {}]]
  /\ UNCHANGED <<iface, kernel, taps, mid, up, record, torn, host, asks>>

SyncTaps(r) ==
  /\ Free /\ refresh[r].at = "scanned"
  /\ Stage(r, "detach")
  /\ UNCHANGED <<iface, kernel, taps, mid, up, record, torn, bounds>>

MustDetach(r, t) == Carries(t) /\ (t \notin refresh[r].want \/ iface[t] # taps[t].ifindex)

\* detachTapLocked takes the pins off one after the other ...
DetachIn(r, t) ==
  /\ Syncs(r, "detach") /\ MustDetach(r, t)
  /\ inLink' = [inLink EXCEPT ![t] = NoLink]
  /\ mid' = [op |-> "detach", tap |-> t]
  /\ UNCHANGED <<iface, outLink, pol, list, taps, up, record, refresh, torn, bounds>>

\* ... and then removes what the maps hold for the index it knows, not the one the name has now.
HeldIndexNow(t) == iface[t]
HeldIndex(t) == taps[t].ifindex
DetachRest(t) ==
  LET i == HeldIndex(t)
  IN /\ up /\ mid = [op |-> "detach", tap |-> t]
     /\ outLink' = [outLink EXCEPT ![t] = NoLink]
     /\ pol' = [pol EXCEPT ![i] = Clear]
     /\ list' = [list EXCEPT ![i] = {}]
     /\ taps' = [taps EXCEPT ![t] = NoTap]
     /\ torn' = IF Shared(i) THEN torn \cup {i} ELSE torn \ {i}
     /\ mid' = NoMid
     /\ UNCHANGED <<iface, inLink, up, record, refresh, bounds>>

\* dropOrphansLocked finds leftovers by their ingress pin, and clears the maps of the index that link is on.
Orphans(want) == {t \in Taps : inLink[t] # NoLink /\ t \notin want /\ ~Carries(t)}
DropOrphans(r) ==
  LET gone == Orphans(refresh[r].want)
      indexes == {inLink[t] : t \in gone} \ {Dead}
      Without(l) == [t \in Taps |-> IF t \in gone THEN NoLink ELSE l[t]]
  IN /\ Syncs(r, "detach") /\ \A t \in Taps : ~MustDetach(r, t)
     /\ inLink' = Without(inLink) /\ outLink' = Without(outLink)
     /\ pol' = [i \in Indexes |-> IF i \in indexes THEN Clear ELSE pol[i]]
     /\ list' = [i \in Indexes |-> IF i \in indexes THEN {} ELSE list[i]]
     /\ torn' = torn \ indexes
     /\ Stage(r, "attach")
     /\ UNCHANGED <<iface, taps, mid, up, record, bounds>>

MayAdopt(t) == inLink[t] = iface[t] /\ outLink[t] = iface[t]
ToAttach(r) == {t \in refresh[r].want : Live(t) /\ ~Carries(t)}

\* adoptLocked takes over both links, and reads back what the kernel enforces.
Adopt(r, t) ==
  /\ Syncs(r, "attach") /\ t \in ToAttach(r) /\ MayAdopt(t)
  /\ taps' = [taps EXCEPT ![t] = [ifindex |-> iface[t], isolated |-> pol[iface[t]].isolated,
                                  egress |-> pol[iface[t]].egress, quarantine |-> FALSE]]
  /\ UNCHANGED <<iface, kernel, mid, up, record, refresh, torn, bounds>>

\* adoptLocked unpins what does not fit, and attachTCXLocked attaches and pins, one direction after the other.
AttachIn(r, t) ==
  /\ Syncs(r, "attach") /\ t \in ToAttach(r) /\ ~MayAdopt(t)
  /\ inLink' = [inLink EXCEPT ![t] = iface[t]]
  /\ outLink' = [outLink EXCEPT ![t] = NoLink]
  /\ mid' = [op |-> "attach", tap |-> t]
  /\ UNCHANGED <<iface, pol, list, taps, up, record, refresh, torn, bounds>>

\* The interface may have gone in between: its pin then says no index, and the second link cannot be attached.
AttachOut(t) ==
  /\ up /\ mid = [op |-> "attach", tap |-> t]
  /\ mid' = NoMid
  /\ \/ /\ NoFault /\ inLink[t] = iface[t] /\ Live(t)
        /\ outLink' = [outLink EXCEPT ![t] = iface[t]]
        /\ taps' = [taps EXCEPT ![t] = [ifindex |-> iface[t], isolated |-> FALSE, egress |-> "off", quarantine |-> FALSE]]
        /\ UNCHANGED inLink
     \/ /\ IF inLink[t] = Dead THEN NoFault ELSE Fault
        /\ inLink' = [inLink EXCEPT ![t] = NoLink]
        /\ UNCHANGED <<outLink, taps>>
  /\ UNCHANGED <<iface, pol, list, up, record, refresh, torn, host, asks>>

\* An interface that could not be attached is left for the next scan.
SyncDone(r) ==
  /\ Syncs(r, "attach")
  /\ IF ToAttach(r) = {} THEN NoFault ELSE Fault
  /\ refresh' = [refresh EXCEPT ![r] =
       [at |-> IF Quarantine THEN "hold" ELSE "policy", want |-> @.want,
        hold |-> IF Quarantine THEN {t \in @.want : Carries(t) /\ saved[t] = "enforce" /\ taps[t].egress # "enforce"} ELSE {}]]
  /\ UNCHANGED <<iface, kernel, taps, mid, up, record, torn, host, asks>>

-----------------------------------------------------------------------------
(* What Refresh does after the sync: quarantine, policy, isolations. *)

\* holdUncovered quarantines the taps it found enforcing on record and not in the kernel.
HoldOne(r, t) ==
  /\ Free /\ refresh[r].at = "hold" /\ t \in refresh[r].hold
  /\ refresh' = [refresh EXCEPT ![r].hold = @ \ {t}]
  /\ \/ SetTapQuarantine(t)
     \/ ~Carries(t) /\ UNCHANGED <<kernel, taps, torn, faults>>
  /\ UNCHANGED <<iface, mid, up, record, host, asks>>
HoldDone(r) ==
  /\ Free /\ refresh[r].at = "hold" /\ refresh[r].hold = {}
  /\ Stage(r, "policy")
  /\ UNCHANGED <<iface, kernel, taps, mid, up, record, torn, bounds>>

\* Reconcile writes the record to a tap that is in another mode.  A VM without a record is skipped.
Differs(t) == Carries(t) /\ saved[t] # "off" /\ taps[t].egress # saved[t]
ReconcileTap(t) == /\ Free /\ Differs(t)
                   /\ SetTapEgress(t, saved[t]) \/ SetTapEgressFails(t, saved[t])
                   /\ UNCHANGED <<iface, mid, up, record, host, asks>>
AfterTaps(r, t) == refresh[r].at = "policy" /\ ReconcileTap(t) /\ UNCHANGED refresh
EngineTick(t) == Ticker /\ ReconcileTap(t) /\ UNCHANGED refresh
PolicyDone(r) ==
  /\ Free /\ refresh[r].at = "policy"
  /\ IF \A t \in Taps : ~Differs(t) THEN NoFault ELSE Fault
  /\ Stage(r, "reapply")
  /\ UNCHANGED <<iface, kernel, taps, mid, up, record, torn, host, asks>>

\* ReapplyIsolations: the taps of VMs isolated on record that do not report it.
ToReapplyUnlessPolicy(want) == {t \in isolate \cap want : Carries(t) /\ ~taps[t].isolated /\ saved[t] = "off"}
ToReapply(want) == {t \in isolate \cap want : Carries(t) /\ ~taps[t].isolated}
Reapply(r, t) ==
  /\ Free /\ refresh[r].at = "reapply" /\ t \in ToReapply(refresh[r].want)
  /\ SetTapIsolated(t, TRUE)
  /\ UNCHANGED <<iface, mid, up, record, refresh, bounds>>
RefreshDone(r) ==
  /\ Free /\ refresh[r].at = "reapply"
  /\ ToReapply(refresh[r].want) = {}
  /\ refresh' = [refresh EXCEPT ![r] = Idle]
  /\ UNCHANGED <<iface, kernel, taps, mid, up, record, torn, bounds>>

-----------------------------------------------------------------------------
(* Requests of people.  Their own steps are in Isolation and EgressPolicy; here they are what they do to a tap. *)

Ask == asks < MaxAsks /\ asks' = asks + 1

IsolateTap(t) == /\ Free /\ Ask /\ SetTapIsolated(t, TRUE) /\ isolate' = isolate \cup {t}
                 /\ UNCHANGED <<iface, mid, up, saved, refresh, host, faults>>
ReleaseTap(t) == /\ Free /\ Ask /\ t \in isolate /\ SetTapIsolated(t, FALSE) /\ isolate' = isolate \ {t}
                 /\ UNCHANGED <<iface, mid, up, saved, refresh, host, faults>>
SetPolicy(t, mode) ==
  /\ Free /\ Ask /\ mode # saved[t] /\ saved' = [saved EXCEPT ![t] = mode]
  /\ SetTapEgress(t, mode)
  /\ UNCHANGED <<iface, mid, up, isolate, refresh, host>>

-----------------------------------------------------------------------------
(* The daemon. *)

Start == /\ ~up /\ up' = TRUE
         /\ UNCHANGED <<iface, kernel, taps, mid, record, refresh, torn, bounds>>

\* What only the process held is gone; pins and maps stay.  Half a detach, and an entry of an interface
\* that is gone, are left to nobody.
Lose == {taps[t].ifindex : t \in {u \in Taps : Carries(u) /\ (iface[u] # taps[u].ifindex \/ mid = [op |-> "detach", tap |-> u])}}
Forget == /\ taps' = [t \in Taps |-> NoTap] /\ mid' = NoMid /\ up' = FALSE
          /\ refresh' = [r \in DOMAIN refresh |-> Idle]
Crash ==
  /\ up /\ Fault /\ Forget
  /\ torn' = torn \cup Lose
  /\ UNCHANGED <<iface, kernel, record, host, asks>>

\* ShutdownTaps keeps the pins of what is isolated or enforced, and detaches the rest.
Kept == {t \in Taps : Carries(t) /\ (taps[t].isolated \/ taps[t].egress = "enforce")}
ShutdownTaps ==
  LET let == {t \in Taps : Carries(t)} \ Kept
      indexes == {taps[t].ifindex : t \in let}
      Without(l) == [t \in Taps |-> IF t \in let THEN NoLink ELSE l[t]]
  IN /\ Free /\ Forget
     /\ inLink' = Without(inLink) /\ outLink' = Without(outLink)
     /\ pol' = [i \in Indexes |-> IF i \in indexes THEN Clear ELSE pol[i]]
     /\ list' = [i \in Indexes |-> IF i \in indexes THEN {} ELSE list[i]]
     /\ torn' = (torn \ indexes) \cup {taps[t].ifindex : t \in {u \in Kept : iface[u] # taps[u].ifindex}}
     /\ Fault
     /\ UNCHANGED <<iface, record, host, asks>>

\* wipePins, by -detach-all or by a start whose maps look different.
WipePins ==
  /\ ~up /\ Fault
  /\ inLink' = [t \in Taps |-> NoLink] /\ outLink' = [t \in Taps |-> NoLink]
  /\ pol' = [i \in Indexes |-> Clear] /\ list' = [i \in Indexes |-> {}]
  /\ torn' = {}
  /\ UNCHANGED <<iface, taps, mid, up, record, refresh, host, asks>>

-----------------------------------------------------------------------------
Sync(r) == \/ \E t \in Taps : DetachIn(r, t) \/ Adopt(r, t) \/ AttachIn(r, t)
           \/ SyncTaps(r) \/ DropOrphans(r) \/ SyncDone(r)
AfterSync(r) == \/ \E t \in Taps : HoldOne(r, t) \/ AfterTaps(r, t) \/ Reapply(r, t)
                \/ HoldDone(r) \/ PolicyDone(r) \/ RefreshDone(r)
Middle == \E t \in Taps : DetachRest(t) \/ AttachOut(t)

Next ==
  \/ \E t \in Taps, i \in Indexes : InterfaceUp(t, i)
  \/ \E t \in Taps : InterfaceDown(t)
  \/ \E r \in DOMAIN refresh : Scan(r) \/ Sync(r) \/ AfterSync(r)
  \/ Middle
  \/ \E t \in Taps : EngineTick(t)
  \/ \E t \in Taps : IsolateTap(t) \/ ReleaseTap(t)
  \/ \E t \in Taps, m \in Modes : SetPolicy(t, m)
  \/ Start \/ Crash \/ ShutdownTaps \/ WipePins

Spec == Init /\ [][Next]_vars

\* Refresh is called every two seconds and goes on to its end; a stopped daemon is started again.
FairSpec == /\ Spec
            /\ \A r \in Refreshers : /\ WF_vars(r \in DOMAIN refresh /\ Scan(r))
                                    /\ WF_vars(r \in DOMAIN refresh /\ Sync(r))
                                    /\ WF_vars(r \in DOMAIN refresh /\ AfterSync(r))
            /\ WF_vars(Middle) /\ WF_vars(Start)

-----------------------------------------------------------------------------
\* Every variable has its shape; no link or map entry is ever one the manager could not have made.
TypeOK ==
  /\ iface \in [Taps -> Indexes \cup {NoIndex}]
  /\ inLink \in [Taps -> LinkState] /\ outLink \in [Taps -> LinkState]
  /\ pol \in [Indexes -> Policy] /\ list \in [Indexes -> SUBSET Taps]
  /\ taps \in [Taps -> TapLinks] /\ mid \in MidState /\ up \in BOOLEAN
  /\ isolate \in SUBSET Taps /\ saved \in [Taps -> Modes]
  /\ DOMAIN refresh \subseteq Refreshers /\ \A r \in DOMAIN refresh : refresh[r] \in RefreshState
  /\ torn \in SUBSET Indexes
  /\ host \in 0..MaxHost /\ asks \in 0..MaxAsks /\ faults \in 0..MaxFaults

\* What the daemon reports for a tap is what the kernel does for it, and no network of another VM is on its
\* list: an interface never inherits the flag, the mode or the list of the one that had its index before
\* (SyncTaps detaches before it attaches, and clears the index it knows), and an adopted tap is reported as it
\* is.  Not asked of an index whose entries were torn off a process, or that two taps have.
CacheIsKernel ==
  \A t \in Taps : Carries(t) /\ taps[t].ifindex \notin torn /\ ~Shared(taps[t].ifindex) =>
    /\ pol[taps[t].ifindex] = [isolated |-> taps[t].isolated, egress |-> taps[t].egress]
    /\ list[taps[t].ifindex] \subseteq {t}
    /\ taps[t].egress # "off" => list[taps[t].ifindex] = {t}

\* Once things are quiet, a tap with an isolation on record is cut off for as long as its interface is there,
\* even when a policy's write ended a quarantine that the isolation had been added to.
IsolationHolds == <>[](\A t \in isolate : Live(t) /\ iface[t] \notin torn => CutOff(t))

\* What is reported of a tap is of its type and is what the kernel does.
ReportIsTrue == TypeOK /\ CacheIsKernel

=============================================================================
