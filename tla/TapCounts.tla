----------------------------- MODULE TapCounts -----------------------------
(***************************************************************************)
(* What the daemon says of one tap's traffic: what became of its TCP       *)
(* handshakes (track_handshake of bpf/tap.bpf.c, SweepPending and          *)
(* TapOutcomes of internal/bpfgen/outcomes.go) and whose drops the         *)
(* kernel's drop counts are (internal/bpfgen/drops.go,                     *)
(* internal/state/drops.go).                                               *)
(*                                                                         *)
(* The kernel counts while the daemon reads.  A sweep is a scan of the     *)
(* pending SYNs and then one delete per SYN; a look is the tap's counters, *)
(* then the kernel's, then the join.  The tap is detached and attached     *)
(* again when a scan misses its VM, and the daemon restarts.               *)
(***************************************************************************)
EXTENDS Integers, FiniteSets

CONSTANTS
  Conns,      \* the guest's connections, by addresses and ports
  MaxAge,     \* pendingMaxAge
  Parts,      \* what is explored: the handshakes, the drops
  MaxPackets, \* bound: packets
  MaxMoves,   \* bound: detaches, restarts and evictions
  MaxTicks    \* bound: the clock

ASSUME TapCountsAssumption ==
  /\ MaxAge \in Nat \ {0} /\ Parts \subseteq {"handshakes", "drops"}
  /\ MaxPackets \in Nat /\ MaxMoves \in Nat /\ MaxTicks \in Nat

VARIABLES
  part, packets, moves, ticks,
  on,         \* the program is on the tap, and tapMgr.taps has it
  pending,    \* pending_syn: when each SYN that waits was sent
  out,        \* tap_outcomes and tap_timeouts of the tap
  inherited,  \* history: the SYNs that waited when the tap was attached
  evicted,    \* history: the SYNs of this attachment that the LRU, or a restart, forgot
  sweep,      \* where SweepPending is
  dropped,    \* tap_stats.DroppedPkts: what Shukra dropped, pinned
  watched,    \* drop_watch has the tap
  kernel,     \* drop_stats of the tap, by reason
  foreign,    \* history: of `kernel', what Shukra did not drop and is not a full queue
  base,       \* State.shukraBase of the tap, -1 when it was never looked at
  look,       \* where a look is, and what it has read
  shown,      \* the last answer, and (history) what `foreign' was when the kernel's counts were read
  kept        \* history: since this daemon first looked the tap was attached and watched

handshakes == <<pending, out, inherited, evicted, sweep>>
drops == <<dropped, watched, kernel, foreign, base, look, shown, kept>>
tapVars == <<part, packets, moves, ticks, on, handshakes, drops>>

Packet(p) == part = p /\ packets < MaxPackets /\ packets' = packets + 1 /\ UNCHANGED <<part, moves, ticks, on>>
Move == moves < MaxMoves /\ moves' = moves + 1 /\ UNCHANGED <<part, packets, ticks>>

NoOutcomes == [syn |-> 0, ok |-> 0, refused |-> 0, retrans |-> 0, blocked |-> 0, timeout |-> 0]
NoDrops == [tc |-> 0, full |-> 0, other |-> 0]
NoSweep == [at |-> "idle", old |-> {}]
NoLook == [at |-> "idle", taps |-> 0]
Unknown == [asked |-> FALSE, otherDrops |-> 0, queueFull |-> 0, foreign |-> 0]

TapInit ==
  /\ part \in Parts /\ packets = 0 /\ moves = 0 /\ ticks = 0
  /\ on = TRUE
  /\ pending = [c \in {} |-> 0] /\ out = NoOutcomes /\ inherited = 0 /\ evicted = 0 /\ sweep = NoSweep
  /\ dropped = 0 /\ watched = TRUE /\ kernel = NoDrops /\ foreign = 0
  /\ base = -1 /\ look = NoLook /\ shown = Unknown /\ kept = TRUE

-----------------------------------------------------------------------------
(* The tap program.                                                        *)

Waits == DOMAIN pending
Without(k) == [c \in Waits \ {k} |-> pending[c]]

\* A SYN of the guest: a repeat of one that waits is a retransmit.
Syn(c) ==
  /\ Packet("handshakes") /\ on
  /\ IF c \in Waits
     THEN out' = [out EXCEPT !.retrans = @ + 1] /\ UNCHANGED pending
     ELSE /\ out' = [out EXCEPT !.syn = @ + 1]
          /\ pending' = [d \in Waits \cup {c} |-> IF d = c THEN ticks ELSE pending[d]]
  /\ UNCHANGED <<inherited, evicted, sweep, drops>>

\* One that isolation drops: an attempt that is not left pending.
SynDropped(c) ==
  /\ Packet("handshakes") /\ on
  /\ out' = [out EXCEPT !.syn = @ + 1, !.blocked = @ + 1]
  /\ UNCHANGED <<pending, inherited, evicted, sweep, drops>>

\* The peer's SYN-ACK or RST.  An answer to nothing that waits counts for nothing.
Answer(c, field) ==
  /\ Packet("handshakes") /\ on /\ c \in Waits
  /\ pending' = Without(c)
  /\ out' = [out EXCEPT ![field] = @ + 1]
  /\ UNCHANGED <<inherited, evicted, sweep, drops>>

\* pending_syn is an LRU.
Evict(c) ==
  /\ part = "handshakes" /\ Move /\ c \in Waits
  /\ pending' = Without(c)
  /\ evicted' = IF on THEN evicted + 1 ELSE evicted
  /\ UNCHANGED <<on, out, inherited, sweep, drops>>

ClockTicks ==
  /\ part = "handshakes" /\ ticks < MaxTicks /\ ticks' = ticks + 1
  /\ UNCHANGED <<part, packets, moves, on, handshakes, drops>>

-----------------------------------------------------------------------------
(* SweepPending, under tapMgr's lock: no tap is attached or detached during it. *)

OldEnough(c) == ticks - pending[c] >= MaxAge

SweepScan ==
  /\ part = "handshakes" /\ sweep.at = "idle"
  /\ \E c \in Waits : OldEnough(c)
  /\ sweep' = [at |-> "count", old |-> {c \in Waits : OldEnough(c)}]
  /\ UNCHANGED <<part, packets, moves, ticks, on, pending, out, inherited, evicted, drops>>

\* LookupAndDelete says whether the SYN was still there.
StillThereAlways(c) == TRUE
StillThere(c) == c \in Waits

SweepOne(c) ==
  /\ sweep.at = "count" /\ c \in sweep.old
  /\ pending' = Without(c)
  /\ out' = IF StillThere(c) /\ on THEN [out EXCEPT !.timeout = @ + 1] ELSE out
  /\ sweep' = IF sweep.old = {c} THEN NoSweep ELSE [sweep EXCEPT !.old = @ \ {c}]
  /\ UNCHANGED <<part, packets, moves, ticks, on, inherited, evicted, drops>>

-----------------------------------------------------------------------------
(* Drops.  What the tap program drops the kernel counts as a TC drop.      *)

Count(r) == IF watched THEN [kernel EXCEPT ![r] = @ + 1] ELSE kernel

ShukraDrops ==
  /\ Packet("drops") /\ on
  /\ dropped' = dropped + 1
  /\ kernel' = Count("tc")
  /\ UNCHANGED <<handshakes, watched, foreign, base, look, shown, kept>>

\* Another program on the tap, the stack, or a guest that does not read its queue.
ForeignDrops(r) ==
  /\ Packet("drops")
  /\ kernel' = Count(r)
  /\ foreign' = IF watched /\ r # "full" THEN foreign + 1 ELSE foreign
  /\ UNCHANGED <<handshakes, dropped, watched, base, look, shown, kept>>

\* dropInputs: the tap program's counters,
LookTaps ==
  /\ part = "drops" /\ look.at = "idle" /\ on
  /\ look' = [at |-> "drops", taps |-> dropped]
  /\ kept' = (kept /\ watched)
  /\ UNCHANGED <<part, packets, moves, ticks, on, handshakes, dropped, watched, kernel, foreign, base, shown>>

\* sinceStartLocked: what Shukra had dropped when this daemon first looked, or zero when the counter fell below.
SinceEver(d) == 0
SinceStart(d) == IF base = -1 THEN d ELSE IF d < base THEN 0 ELSE base
Least(m, n) == IF m < n THEN m ELSE n
OtherDropsPlain(k, shukra) == k.tc + k.other - shukra
\* joinTaps: Shukra's own drops are inside the TC count, and a full queue is reported on its own.
OtherDrops(k, shukra) ==
  LET total == k.tc + k.full + k.other
      other == total - Least(shukra, k.tc)
  IN  other - Least(other, k.full)

\* then the kernel's counts, and the join.
LookDrops ==
  /\ look.at = "drops"
  /\ LET b == SinceStart(look.taps)
     IN  /\ base' = b
         /\ shown' = [asked |-> TRUE, otherDrops |-> OtherDrops(kernel, look.taps - b),
                      queueFull |-> kernel.full, foreign |-> foreign]
  /\ look' = NoLook
  /\ UNCHANGED <<part, packets, moves, ticks, on, handshakes, dropped, watched, kernel, foreign, kept>>

-----------------------------------------------------------------------------
(* SyncTaps, then watchDrops.                                              *)

\* A scan missed the VM.  tap_outcomes and tap_timeouts are cleared; pending_syn and tap_stats are not.
Detach ==
  /\ on /\ sweep.at = "idle" /\ Move
  /\ on' = FALSE
  /\ out' = NoOutcomes /\ evicted' = 0 /\ inherited' = 0
  /\ kept' = FALSE
  /\ UNCHANGED <<pending, sweep, dropped, watched, kernel, foreign, base, look, shown>>

Attach ==
  /\ ~on /\ sweep.at = "idle"
  /\ on' = TRUE
  /\ inherited' = Cardinality(Waits)
  /\ UNCHANGED <<part, packets, moves, ticks, pending, out, evicted, sweep, drops>>

\* SetDropWatch: the counts of an interface that is not watched are removed.
SetDropWatch ==
  /\ part = "drops" /\ watched # on
  /\ watched' = on
  /\ kernel' = IF on THEN kernel ELSE NoDrops
  /\ foreign' = IF on THEN foreign ELSE 0
  /\ UNCHANGED <<part, packets, moves, ticks, on, handshakes, dropped, base, look, shown, kept>>

\* A restart with the tap's link and counters pinned: the drops program and pending_syn start from nothing.
RestartDaemon ==
  /\ on /\ Move
  /\ pending' = [c \in {} |-> 0] /\ evicted' = evicted + Cardinality(Waits) /\ sweep' = NoSweep
  /\ watched' = FALSE /\ kernel' = NoDrops /\ foreign' = 0
  /\ base' = -1 /\ look' = NoLook /\ shown' = Unknown /\ kept' = TRUE
  /\ UNCHANGED <<on, out, inherited, dropped>>

TapNext ==
  \/ \E c \in Conns : \/ Syn(c) \/ SynDropped(c) \/ Evict(c) \/ SweepOne(c)
                      \/ Answer(c, "ok") \/ Answer(c, "refused")
  \/ ClockTicks \/ SweepScan
  \/ ShukraDrops \/ \E r \in {"tc", "full", "other"} : ForeignDrops(r)
  \/ LookTaps \/ LookDrops
  \/ Detach \/ Attach \/ SetDropWatch \/ RestartDaemon

TapSpec == TapInit /\ [][TapNext]_tapVars

-----------------------------------------------------------------------------
(* Properties.                                                             *)

\* The variables keep their types.
TapTypeOK ==
  /\ part \in Parts /\ packets \in 0..MaxPackets /\ moves \in 0..MaxMoves /\ ticks \in 0..MaxTicks
  /\ on \in BOOLEAN /\ watched \in BOOLEAN /\ kept \in BOOLEAN
  /\ Waits \subseteq Conns /\ \A c \in Waits : pending[c] \in 0..ticks
  /\ \A f \in DOMAIN out : out[f] \in 0..MaxPackets
  /\ sweep.at \in {"idle", "count"} /\ sweep.old \subseteq Conns /\ (sweep.at = "idle") = (sweep.old = {})
  /\ dropped \in 0..MaxPackets /\ \A r \in DOMAIN kernel : kernel[r] \in 0..MaxPackets
  /\ shown.otherDrops \in 0..(2 * MaxPackets) \* an unsigned difference
  /\ base \in -1..dropped /\ look.at \in {"idle", "drops"} /\ look.taps \in 0..dropped

\* Every attempt has exactly one end (outcomes.go:38-40): answered, refused, given up, blocked, still waiting or
\* forgotten, and nothing else is counted but the SYNs that already waited when the tap was attached.  No
\* answer that overtakes a sweep is counted twice.
AttemptsAccounted ==
  on => out.syn + inherited = out.ok + out.refused + out.blocked + out.timeout + Cardinality(Waits) + evicted

\* Another program's drops are never hidden behind Shukra's own (drops.go:104-108), over restarts that keep
\* Shukra's counter and start the kernel's again, and reads that are a moment apart.
ForeignShown == shown.asked /\ kept => shown.otherDrops >= shown.foreign

\* The counters of a tap keep their types, and its handshakes add up.
HandshakesAccounted == TapTypeOK /\ AttemptsAccounted

=============================================================================
