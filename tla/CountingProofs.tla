--------------------------- MODULE CountingProofs ---------------------------
(***************************************************************************)
(* Proofs about TapCounts, that the handshakes of a tap add up and another *)
(* program's drops show; about Thresholds, that a rule tells the truth     *)
(* from a history that was cut; and about History, that what is said of a  *)
(* window is never more than what was done in it and stays as it was said. *)
(***************************************************************************)
EXTENDS TapCounts, Thresholds, History, FiniteSetTheorems, SequenceTheorems, WellFoundedInduction, TLAPS

Outcomes == [syn : Nat, ok : Nat, refused : Nat, retrans : Nat, blocked : Nat, timeout : Nat]
Reasons == [tc : Nat, full : Nat, other : Nat]

\* What both halves share.
SharedInv ==
  /\ part \in Parts /\ packets \in 0..MaxPackets /\ moves \in 0..MaxMoves /\ ticks \in 0..MaxTicks
  /\ on \in BOOLEAN

\* The handshakes: their types, no count is of more packets than there were, and a tap that is not attached
\* has no counts, its waiting SYNs being nobody's.
HandshakesInv ==
  /\ Waits \subseteq Conns /\ IsFiniteSet(Waits) /\ \A c \in Waits : pending[c] \in 0..ticks
  /\ out \in Outcomes /\ inherited \in Nat /\ evicted \in Nat
  /\ sweep \in [at : {"idle", "count"}, old : SUBSET Conns] /\ (sweep.at = "idle") = (sweep.old = {})
  /\ out.syn + out.retrans + inherited <= packets
  /\ Cardinality(Waits) <= packets
  /\ ~on => out = NoOutcomes /\ inherited = 0 /\ evicted = 0
  /\ AttemptsAccounted

DropTypes ==
  /\ watched \in BOOLEAN /\ kept \in BOOLEAN
  /\ dropped \in Nat /\ kernel \in Reasons /\ foreign \in Nat
  /\ base \in Int /\ -1 <= base /\ base <= dropped
  /\ look \in [at : {"idle", "drops"}, taps : Nat] /\ look.taps <= dropped
  /\ shown \in [asked : BOOLEAN, otherDrops : Nat, queueFull : Nat, foreign : Nat]
  /\ dropped <= packets
  /\ kernel.tc + kernel.full + kernel.other <= packets
  /\ shown.otherDrops <= packets

\* While the tap was attached and watched, whatever Shukra dropped since a look is in the kernel's TC
\* count, over and above what others dropped.
Covered ==
  /\ foreign <= kernel.tc + kernel.other
  /\ kept => on
  /\ kept /\ look.at = "drops" => watched /\ dropped - look.taps + foreign <= kernel.tc + kernel.other
  /\ kept /\ base # -1 => watched /\ dropped - base + foreign <= kernel.tc + kernel.other
  /\ look.at = "drops" => base <= look.taps

DropsInv == DropTypes /\ Covered /\ ForeignShown

\* The inductive invariant.
TapInv == SharedInv /\ HandshakesInv /\ DropsInv

-----------------------------------------------------------------------------
(* The waiting SYNs, as a set.                                             *)

\* One more SYN waits, or one less.
LEMMA WaitsCount ==
  ASSUME IsFiniteSet(Waits), NEW c
  PROVE  /\ Cardinality(Waits) \in Nat
         /\ IsFiniteSet(Waits \cup {c}) /\ IsFiniteSet(Waits \ {c})
         /\ c \notin Waits => Cardinality(Waits \cup {c}) = Cardinality(Waits) + 1
         /\ c \in Waits => Cardinality(Waits \ {c}) = Cardinality(Waits) - 1 /\ Cardinality(Waits) >= 1
         /\ c \notin Waits => Waits \ {c} = Waits
<1>1. Cardinality(Waits) \in Nat
  BY FS_CardinalityType
<1>2. IsFiniteSet(Waits \cup {c}) /\ (c \notin Waits => Cardinality(Waits \cup {c}) = Cardinality(Waits) + 1)
  BY <1>1, FS_AddElement
<1>3. IsFiniteSet(Waits \ {c}) /\ (c \in Waits => Cardinality(Waits \ {c}) = Cardinality(Waits) - 1)
  BY <1>1, FS_RemoveElement
<1>4. c \in Waits => Cardinality(Waits \ {c}) \in Nat
  BY <1>3, FS_CardinalityType
<1> QED BY <1>1, <1>2, <1>3, <1>4

\* Deleting a SYN that waits, or does not.
LEMMA WithoutOne ==
  ASSUME NEW c, pending' = Without(c), IsFiniteSet(Waits)
  PROVE  /\ Waits' = Waits \ {c} /\ IsFiniteSet(Waits)' /\ \A d \in Waits' : pending'[d] = pending[d]
         /\ c \in Waits => Cardinality(Waits)' = Cardinality(Waits) - 1
         /\ c \notin Waits => Cardinality(Waits)' = Cardinality(Waits)
         /\ Cardinality(Waits) \in Nat /\ Cardinality(Waits)' \in Nat
<1>1. Waits' = Waits \ {c} /\ \A d \in Waits' : pending'[d] = pending[d]
  BY DEF Waits, Without
<1>2. Cardinality(Waits') \in Nat
  BY <1>1, WaitsCount, FS_CardinalityType
<1> QED BY <1>1, <1>2, WaitsCount

\* What joinTaps shows is all that Shukra did not drop and no full queue did.
LEMMA JoinIsExact ==
  ASSUME NEW k \in Reasons, NEW s \in Nat
  PROVE  /\ OtherDrops(k, s) = k.tc + k.other - Least(s, k.tc)
         /\ OtherDrops(k, s) \in Nat
         /\ OtherDrops(k, s) <= k.tc + k.full + k.other
         /\ OtherDrops(k, s) >= k.tc + k.other - s
  BY DEF OtherDrops, Least, Reasons

-----------------------------------------------------------------------------
(* The invariant, action by action.                                        *)

LEMMA TapInitInv == TapInit => TapInv
<1> SUFFICES ASSUME TapInit PROVE TapInv
  OBVIOUS
<1> USE TapCountsAssumption
<1>1. Waits = {} /\ IsFiniteSet(Waits) /\ Cardinality(Waits) = 0
  BY FS_EmptySet DEF TapInit, Waits
<1>2. SharedInv
  BY DEF TapInit, SharedInv
<1>3. HandshakesInv
  BY <1>1 DEF TapInit, HandshakesInv, AttemptsAccounted, Outcomes, NoOutcomes, NoSweep
<1>4. DropsInv
  BY DEF TapInit, DropsInv, DropTypes, Covered, ForeignShown, Reasons, NoDrops, NoLook, Unknown
<1> QED BY <1>2, <1>3, <1>4 DEF TapInv

\* What a step does not touch stays as it was.
LEMMA TapFrame ==
  ASSUME TapInv, SharedInv', packets' >= packets, ticks' >= ticks, on' = on
  PROVE  (UNCHANGED handshakes => HandshakesInv') /\ (UNCHANGED drops => DropsInv')
<1> USE DEF TapInv, SharedInv
<1>1. ASSUME UNCHANGED handshakes PROVE HandshakesInv'
  <2>1. Cardinality(Waits) \in Nat
    BY WaitsCount DEF HandshakesInv
  <2> QED BY <1>1, <2>1 DEF HandshakesInv, AttemptsAccounted, Outcomes, handshakes, Waits
<1>2. ASSUME UNCHANGED drops PROVE DropsInv'
  <2>1. DropTypes'
    BY <1>2 DEF DropsInv, DropTypes, Reasons, drops
  <2>2. Covered' /\ ForeignShown'
    BY <1>2 DEF DropsInv, Covered, ForeignShown, drops
  <2> QED BY <2>1, <2>2 DEF DropsInv
<1> QED BY <1>1, <1>2

\* The kernel's side of the handshakes.
LEMMA HandshakeInv ==
  ASSUME TapInv, NEW c \in Conns,
         Syn(c) \/ SynDropped(c) \/ Evict(c) \/ Answer(c, "ok") \/ Answer(c, "refused")
  PROVE  TapInv'
<1> USE TapCountsAssumption DEF TapInv
<1>0. Cardinality(Waits) \in Nat
  BY WaitsCount DEF HandshakesInv
<1>1. SharedInv' /\ packets' >= packets /\ ticks' >= ticks /\ on' = on /\ UNCHANGED drops
  BY DEF SharedInv, Syn, SynDropped, Evict, Answer, Packet, Move
<1>2. DropsInv'
  BY <1>1, TapFrame
<1> USE DEF HandshakesInv, AttemptsAccounted, Outcomes, SharedInv
<1>3. ASSUME Syn(c) PROVE HandshakesInv'
  <2>1. CASE c \in Waits
    <3>1. out' = [out EXCEPT !.retrans = @ + 1] /\ packets' = packets + 1
          /\ UNCHANGED <<pending, inherited, evicted, sweep, on, ticks>>
      BY <1>3, <2>1 DEF Syn, Packet
    <3> QED BY <1>0, <1>1, <1>2, <1>3, <3>1 DEF Syn, Waits
  <2>2. CASE c \notin Waits
    <3>1. Waits' = Waits \cup {c} /\ \A d \in Waits' : pending'[d] = IF d = c THEN ticks ELSE pending[d]
      BY <1>3, <2>2 DEF Syn, Waits
    <3>2. IsFiniteSet(Waits)' /\ Cardinality(Waits)' = Cardinality(Waits) + 1
      BY <2>2, <3>1, WaitsCount
    <3>3. out' = [out EXCEPT !.syn = @ + 1] /\ packets' = packets + 1 /\ on
          /\ UNCHANGED <<inherited, evicted, sweep, on, ticks>>
      BY <1>3, <2>2 DEF Syn, Packet
    <3>4. AttemptsAccounted' /\ out' \in Outcomes /\ out'.syn + out'.retrans + inherited' <= packets'
      BY <1>0, <3>2, <3>3
    <3>5. \A d \in Waits' : pending'[d] \in 0..ticks'
      BY <3>1, <3>3
    <3> QED BY <1>0, <3>1, <3>2, <3>3, <3>4, <3>5
  <2> QED BY <2>1, <2>2
<1>4. ASSUME SynDropped(c) PROVE HandshakesInv'
  <2>1. out' = [out EXCEPT !.syn = @ + 1, !.blocked = @ + 1] /\ packets' = packets + 1 /\ on
        /\ UNCHANGED <<pending, inherited, evicted, sweep, on, ticks>>
    BY <1>4 DEF SynDropped, Packet
  <2>2. /\ out' \in Outcomes /\ out'.syn = out.syn + 1 /\ out'.blocked = out.blocked + 1
        /\ out'.ok = out.ok /\ out'.refused = out.refused /\ out'.retrans = out.retrans /\ out'.timeout = out.timeout
    <3> DEFINE a == [out EXCEPT !.syn = @ + 1]
    <3>1. a \in Outcomes /\ a.syn = out.syn + 1 /\ \A f \in {"ok", "refused", "retrans", "blocked", "timeout"} : a[f] = out[f]
      OBVIOUS
    <3>2. out' = [a EXCEPT !.blocked = @ + 1]
      BY <2>1, <3>1
    <3> HIDE DEF a
    <3> QED BY <3>1, <3>2
  <2>3. AttemptsAccounted' /\ out'.syn + out'.retrans + inherited' <= packets'
    BY <1>0, <2>1, <2>2 DEF Waits
  <2> QED BY <1>0, <2>1, <2>2, <2>3 DEF Waits
<1>5. ASSUME Evict(c) PROVE HandshakesInv'
  <2>1. pending' = Without(c) /\ c \in Waits /\ evicted' = (IF on THEN evicted + 1 ELSE evicted)
        /\ UNCHANGED <<on, out, inherited, sweep, packets, ticks>>
    BY <1>5 DEF Evict, Move
  <2>2. /\ Waits' = Waits \ {c} /\ IsFiniteSet(Waits)' /\ \A d \in Waits' : pending'[d] = pending[d]
        /\ Cardinality(Waits)' = Cardinality(Waits) - 1 /\ Cardinality(Waits)' \in Nat
    BY <2>1, WithoutOne
  <2>3. /\ evicted' \in Nat /\ Cardinality(Waits)' <= packets'
        /\ out'.syn + out'.retrans + inherited' <= packets'
    BY <1>0, <2>1, <2>2
  <2>5. ~on' => out' = NoOutcomes /\ inherited' = 0 /\ evicted' = 0
    BY <2>1
  <2>6. AttemptsAccounted'
    <3>1. CASE on
      <4>1. evicted' = evicted + 1
        BY <2>1, <3>1
      <4>2. out.syn + inherited = out.ok + out.refused + out.blocked + out.timeout + Cardinality(Waits) + evicted
        BY <3>1
      <4>3. /\ out.syn \in Nat /\ out.ok \in Nat /\ out.refused \in Nat /\ out.blocked \in Nat /\ out.timeout \in Nat
            /\ inherited \in Nat /\ evicted \in Nat
        OBVIOUS
      <4> HIDE DEF HandshakesInv, Outcomes, SharedInv, TapInv
      <4> QED BY <1>0, <2>1, <2>2, <4>1, <4>2, <4>3
    <3> QED BY <2>1, <3>1
  <2>4. Waits' \subseteq Conns /\ \A d \in Waits' : pending'[d] \in 0..ticks'
    BY <2>1, <2>2
  <2> QED BY <2>1, <2>2, <2>3, <2>4, <2>5, <2>6
<1>6. ASSUME NEW f \in {"ok", "refused"}, Answer(c, f) PROVE HandshakesInv'
  <2>1. pending' = Without(c) /\ c \in Waits /\ on /\ out' = [out EXCEPT ![f] = @ + 1] /\ packets' = packets + 1
        /\ UNCHANGED <<on, inherited, evicted, sweep, ticks>>
    BY <1>6 DEF Answer, Packet
  <2>2. /\ Waits' = Waits \ {c} /\ IsFiniteSet(Waits)' /\ \A d \in Waits' : pending'[d] = pending[d]
        /\ Cardinality(Waits)' = Cardinality(Waits) - 1 /\ Cardinality(Waits)' \in Nat
    BY <2>1, WithoutOne
  <2>3. /\ out' \in Outcomes /\ AttemptsAccounted' /\ Cardinality(Waits)' <= packets'
        /\ out'.syn + out'.retrans + inherited' <= packets'
    BY <1>0, <2>1, <2>2
  <2>4. Waits' \subseteq Conns /\ \A d \in Waits' : pending'[d] \in 0..ticks'
    BY <2>1, <2>2
  <2> QED BY <2>1, <2>2, <2>3, <2>4
<1> QED BY <1>1, <1>2, <1>3, <1>4, <1>5, <1>6

\* The clock, and a sweep of what waits.
LEMMA SweepInv ==
  ASSUME TapInv, ClockTicks \/ SweepScan \/ \E c \in Conns : SweepOne(c)
  PROVE  TapInv'
<1> USE TapCountsAssumption DEF TapInv
<1>0. Cardinality(Waits) \in Nat
  BY WaitsCount DEF HandshakesInv
<1>1. SharedInv' /\ packets' >= packets /\ ticks' >= ticks /\ on' = on /\ UNCHANGED drops
  BY DEF SharedInv, ClockTicks, SweepScan, SweepOne
<1>2. DropsInv'
  BY <1>1, TapFrame
<1>3. CASE ClockTicks
  BY <1>1, <1>2, <1>3, TapFrame DEF ClockTicks
<1> USE DEF HandshakesInv, AttemptsAccounted, Outcomes, SharedInv
<1>4. CASE SweepScan
  BY <1>0, <1>1, <1>2, <1>4 DEF SweepScan, Waits
<1>5. ASSUME NEW c \in Conns, SweepOne(c) PROVE HandshakesInv'
  <2>1. /\ Waits' \subseteq Waits /\ IsFiniteSet(Waits)' /\ Cardinality(Waits)' \in Nat
        /\ Cardinality(Waits)' = IF c \in Waits THEN Cardinality(Waits) - 1 ELSE Cardinality(Waits)
        /\ \A d \in Waits' : pending'[d] = pending[d]
    BY <1>5, WithoutOne DEF SweepOne
  <2>2. sweep' \in [at : {"idle", "count"}, old : SUBSET Conns] /\ (sweep'.at = "idle") = (sweep'.old = {})
    BY <1>5 DEF SweepOne, NoSweep
  <2>3. out' = (IF c \in Waits /\ on THEN [out EXCEPT !.timeout = @ + 1] ELSE out)
        /\ UNCHANGED <<packets, ticks, on, inherited, evicted>>
    BY <1>5 DEF SweepOne, StillThere
  <2>4. /\ out' \in Outcomes /\ AttemptsAccounted' /\ Cardinality(Waits)' <= packets'
        /\ out'.syn + out'.retrans + inherited' <= packets'
    BY <1>0, <2>1, <2>3
  <2>5. ~on' => out' = NoOutcomes /\ inherited' = 0 /\ evicted' = 0
    BY <2>3
  <2>6. Waits' \subseteq Conns /\ (\A d \in Waits' : pending'[d] \in 0..ticks') /\ inherited' \in Nat /\ evicted' \in Nat
    BY <2>1, <2>3
  <2> QED BY <2>1, <2>2, <2>4, <2>5, <2>6
<1> QED BY <1>1, <1>2, <1>3, <1>4, <1>5

\* Drops, and the looks at them.
LEMMA DropInv ==
  ASSUME TapInv,
         ShukraDrops \/ LookTaps \/ LookDrops \/ \E r \in {"tc", "full", "other"} : ForeignDrops(r)
  PROVE  TapInv'
<1> USE TapCountsAssumption DEF TapInv
<1>1. SharedInv' /\ packets' >= packets /\ ticks' >= ticks /\ on' = on /\ UNCHANGED handshakes
  BY DEF SharedInv, ShukraDrops, LookTaps, LookDrops, ForeignDrops, Packet
<1>2. HandshakesInv'
  BY <1>1, TapFrame
<1> USE DEF DropsInv, DropTypes, Covered, ForeignShown, Reasons, SharedInv
<1>3. CASE ShukraDrops
  <2>1. /\ dropped' = dropped + 1 /\ packets' = packets + 1
        /\ kernel' = IF watched THEN [kernel EXCEPT !.tc = @ + 1] ELSE kernel
        /\ UNCHANGED <<on, watched, foreign, base, look, shown, kept>>
    BY <1>3 DEF ShukraDrops, Packet, Count
  <2> QED BY <1>1, <1>2, <2>1
<1>4. ASSUME NEW r \in {"tc", "full", "other"}, ForeignDrops(r) PROVE DropsInv'
  <2>1. /\ foreign' = (IF watched /\ r # "full" THEN foreign + 1 ELSE foreign) /\ packets' = packets + 1
        /\ kernel' = IF watched THEN [kernel EXCEPT ![r] = @ + 1] ELSE kernel
        /\ UNCHANGED <<on, dropped, watched, base, look, shown, kept>>
    BY <1>4 DEF ForeignDrops, Packet, Count
  <2> QED BY <1>1, <2>1
<1>5. ASSUME LookTaps PROVE DropsInv'
  BY <1>1, <1>5 DEF LookTaps
<1>6. CASE LookDrops
  <2> DEFINE b == SinceStart(look.taps)
             s == look.taps - b
  <2>1. b \in Nat /\ b <= look.taps /\ s \in Nat /\ b = IF base = -1 THEN look.taps ELSE base
    BY <1>6 DEF SinceStart, LookDrops
  <2>2. /\ OtherDrops(kernel, s) \in Nat
        /\ OtherDrops(kernel, s) <= kernel.tc + kernel.full + kernel.other
        /\ OtherDrops(kernel, s) >= kernel.tc + kernel.other - s
    BY <2>1, JoinIsExact
  <2>3. kept => s + foreign <= kernel.tc + kernel.other
    BY <1>6, <2>1 DEF LookDrops
  <2>4. /\ base' = b /\ look' = NoLook
        /\ shown' = [asked |-> TRUE, otherDrops |-> OtherDrops(kernel, s), queueFull |-> kernel.full, foreign |-> foreign]
        /\ UNCHANGED <<packets, on, dropped, watched, kernel, foreign, kept>>
    BY <1>6 DEF LookDrops
  <2>5. kept /\ base' # -1 => watched /\ dropped - base' + foreign <= kernel.tc + kernel.other
    BY <1>6, <2>1, <2>4 DEF LookDrops
  <2> HIDE DEF b, s
  <2> QED BY <1>1, <1>2, <2>1, <2>2, <2>3, <2>4, <2>5 DEF NoLook
<1> QED BY <1>1, <1>2, <1>3, <1>4, <1>5, <1>6

\* A scan that misses the VM, one that finds it again, the drop watch, and a restart.
LEMMA AttachInv ==
  ASSUME TapInv, Detach \/ Attach \/ SetDropWatch \/ RestartDaemon
  PROVE  TapInv'
<1> USE TapCountsAssumption DEF TapInv
<1>0. Cardinality(Waits) \in Nat
  BY WaitsCount DEF HandshakesInv
<1>1. SharedInv' /\ UNCHANGED <<packets, ticks>>
  <2>1. CASE Detach
    <3>1. on' \in BOOLEAN
      BY <2>1 DEF Detach
    <3>2. moves' \in 0..MaxMoves /\ UNCHANGED <<part, packets, ticks>>
      BY <2>1 DEF SharedInv, Detach, Move
    <3> QED BY <3>1, <3>2 DEF SharedInv
  <2>2. CASE Attach
    BY <2>2 DEF SharedInv, Attach
  <2>3. CASE SetDropWatch
    BY <2>3 DEF SharedInv, SetDropWatch
  <2>4. CASE RestartDaemon
    BY <2>4 DEF SharedInv, RestartDaemon, Move
  <2> QED BY <2>1, <2>2, <2>3, <2>4
<1>2. CASE Detach
  <2>1. HandshakesInv'
    BY <1>0, <1>1, <1>2 DEF SharedInv, HandshakesInv, AttemptsAccounted, Outcomes, Detach, NoOutcomes, Waits
  <2>2. DropsInv'
    BY <1>1, <1>2 DEF SharedInv, DropsInv, DropTypes, Covered, ForeignShown, Reasons, Detach
  <2> QED BY <1>1, <2>1, <2>2
<1>3. CASE Attach
  <2>1. HandshakesInv'
    BY <1>0, <1>1, <1>3 DEF SharedInv, HandshakesInv, AttemptsAccounted, Outcomes, Attach, NoOutcomes, Waits
  <2>2. DropsInv'
    BY <1>1, <1>3 DEF SharedInv, DropsInv, DropTypes, Covered, ForeignShown, Reasons, Attach, drops
  <2> QED BY <1>1, <2>1, <2>2
<1>4. CASE SetDropWatch
  <2>1. HandshakesInv'
    BY <1>1, <1>4, TapFrame DEF SharedInv, SetDropWatch
  <2>2. DropsInv'
    BY <1>1, <1>4 DEF SharedInv, DropsInv, DropTypes, Covered, ForeignShown, Reasons, SetDropWatch, NoDrops
  <2> QED BY <1>1, <2>1, <2>2
<1>5. CASE RestartDaemon
  <2>1. Waits' = {} /\ IsFiniteSet(Waits)' /\ Cardinality(Waits)' = 0
    BY <1>5, FS_EmptySet DEF RestartDaemon, Waits
  <2>2. sweep' = NoSweep /\ evicted' = evicted + Cardinality(Waits) /\ on /\ UNCHANGED <<on, out, inherited>>
    BY <1>5 DEF RestartDaemon
  <2>3. HandshakesInv'
    BY <1>0, <1>1, <2>1, <2>2 DEF SharedInv, HandshakesInv, AttemptsAccounted, Outcomes, NoSweep
  <2>4. /\ kernel' = NoDrops /\ foreign' = 0 /\ base' = -1 /\ look' = NoLook /\ shown' = Unknown
        /\ on' /\ watched' = FALSE /\ kept' = TRUE /\ dropped' = dropped
    BY <1>5 DEF RestartDaemon
  <2>5. DropTypes'
    <3>1. kernel' \in Reasons /\ kernel'.tc + kernel'.full + kernel'.other = 0
      BY <2>4 DEF Reasons, NoDrops
    <3>2. look' \in [at : {"idle", "drops"}, taps : Nat] /\ look'.taps = 0
      BY <2>4 DEF NoLook
    <3>3. shown' \in [asked : BOOLEAN, otherDrops : Nat, queueFull : Nat, foreign : Nat] /\ shown'.otherDrops = 0
      BY <2>4 DEF Unknown
    <3>4. watched' \in BOOLEAN /\ kept' \in BOOLEAN
      BY <2>4
    <3> QED BY <1>1, <2>4, <3>1, <3>2, <3>3, <3>4 DEF SharedInv, DropsInv, DropTypes
  <2>6. Covered' /\ ForeignShown'
    BY <2>4 DEF Covered, ForeignShown, NoDrops, NoLook, Unknown
  <2> QED BY <1>1, <2>3, <2>5, <2>6 DEF DropsInv
<1> QED BY <1>2, <1>3, <1>4, <1>5

\* Every step keeps the invariant.
LEMMA TapNextInv == TapInv /\ [TapNext]_tapVars => TapInv'
<1> SUFFICES ASSUME TapInv, [TapNext]_tapVars PROVE TapInv'
  OBVIOUS
<1>1. CASE UNCHANGED tapVars
  <2>1. SharedInv' /\ packets' >= packets /\ ticks' >= ticks /\ on' = on /\ UNCHANGED handshakes /\ UNCHANGED drops
    BY <1>1, TapCountsAssumption DEF tapVars, TapInv, SharedInv
  <2> QED BY <2>1, TapFrame DEF TapInv
<1>2. CASE TapNext
  BY <1>2, HandshakeInv, SweepInv, DropInv, AttachInv DEF TapNext
<1> QED BY <1>1, <1>2

LEMMA TapInvHolds == TapSpec => []TapInv
  BY TapInitInv, TapNextInv, PTL DEF TapSpec

-----------------------------------------------------------------------------
\* For every number of connections, packets and restarts: the counters of a tap keep their types, no count passes
\* the packets there were, and every attempt has exactly one end, whatever answer overtakes a sweep.
THEOREM HandshakesAddUp == TapSpec => []HandshakesAccounted
<1>1. TapInv => HandshakesAccounted
  <2> SUFFICES ASSUME TapInv PROVE HandshakesAccounted
    OBVIOUS
  <2> USE TapCountsAssumption DEF TapInv, SharedInv
  <2>1. Cardinality(Waits) \in Nat
    BY WaitsCount DEF HandshakesInv
  <2>2. \A f \in DOMAIN out : out[f] \in 0..MaxPackets
    <3>1. out.syn + inherited <= MaxPackets /\ out.retrans <= MaxPackets
      BY DEF HandshakesInv, Outcomes
    <3>2. on => out.ok + out.refused + out.blocked + out.timeout <= MaxPackets
      BY <2>1, <3>1 DEF HandshakesInv, AttemptsAccounted, Outcomes
    <3>3. ~on => out.ok + out.refused + out.blocked + out.timeout <= MaxPackets
      BY DEF HandshakesInv, NoOutcomes
    <3> QED BY <3>1, <3>2, <3>3 DEF HandshakesInv, Outcomes
  <2>3. \A r \in DOMAIN kernel : kernel[r] \in 0..MaxPackets
    BY DEF DropsInv, DropTypes, Reasons
  <2>4. TapTypeOK
    BY <2>2, <2>3 DEF HandshakesInv, DropsInv, DropTypes, TapTypeOK
  <2> QED BY <2>4 DEF HandshakesInv, HandshakesAccounted
<1> QED BY <1>1, TapInvHolds, PTL

\* For every interleaving of drops, looks, detaches and restarts: another program's drops are never hidden behind
\* Shukra's own.
THEOREM ForeignDropsShown == TapSpec => []ForeignShown
<1>1. TapInv => ForeignShown
  BY DEF TapInv, DropsInv
<1> QED BY <1>1, TapInvHolds, PTL

-----------------------------------------------------------------------------
(* The threshold rules.                                                    *)

Snaps == [at : Nat, vms : UNION {[S -> [n : Nat, on : BOOLEAN]] : S \in SUBSET Guests}]
Evals == [at : Nat, vms : UNION {[S -> [n : Nat, on : BOOLEAN, real : Nat]] : S \in SUBSET Guests}]

ThrTypes ==
  /\ clk \in 0..MaxClk /\ upsets \in 0..MaxUpsets /\ rules \in RuleSets /\ inForce \in [rules -> 0..clk]
  /\ counter \in [Guests -> Nat] /\ real \in [Guests -> 0..MaxEvents] /\ program \in [Guests -> BOOLEAN]
  /\ \A v \in Guests : counter[v] <= real[v]
  /\ history \in Seq(Snaps) /\ ledger \in Seq(Evals)

\* What was cut from the front of the history.
Cut == Len(ledger) - Len(history)

\* The history is the end of the record, and is not empty unless the record is.
SameEval(a, b) ==
  /\ a.at = b.at /\ DOMAIN a.vms = DOMAIN b.vms
  /\ \A v \in DOMAIN a.vms : a.vms[v].n = b.vms[v].n /\ a.vms[v].on = b.vms[v].on
IsTheEnd ==
  /\ Len(history) <= Len(ledger) /\ (Len(ledger) > 0 => Len(history) > 0)
  /\ \A i \in 1..Len(history) : SameEval(history[i], ledger[Cut + i])

\* The record is of different times, the last of them now.
InTime ==
  /\ \A i, j \in 1..Len(ledger) : i <= j => j - i <= ledger[j].at - ledger[i].at
  /\ Len(ledger) > 0 => ledger[Len(ledger)].at = clk

\* No counter gained more than really happened.
NoGain ==
  \A i \in 1..Len(ledger) : \A v \in DOMAIN ledger[i].vms :
    /\ counter[v] - real[v] <= ledger[i].vms[v].n - ledger[i].vms[v].real
    /\ \A j \in i..Len(ledger) :
         v \in DOMAIN ledger[j].vms =>
           ledger[j].vms[v].n - ledger[j].vms[v].real <= ledger[i].vms[v].n - ledger[i].vms[v].real

\* All but the oldest snapshot are within the longest window.
WithinWindow == \A i \in 2..Len(history) : history[i].at > clk - LongestWindow

\* What is cut is older than any rule in force needs, or than the rule.
CutIsSpare ==
  Cut > 0 => \A r \in rules : history[1].at <= inForce[r] \/ history[1].at <= clk - r.window

\* What fired is what the whole record says ...
FiredIsTrue ==
  \A f \in fired :
    /\ ReferenceFires(f.rule, f.vm) /\ f.span = clk - ledger[ReferenceBase(f.rule)].at
    /\ f.delta = ledger[LastEval].vms[f.vm].n - ledger[ReferenceBase(f.rule)].vms[f.vm].n
    /\ f.rule.window \in Nat
\* ... and all of it.
FiredIsAll ==
  \A r \in rules, v \in Guests :
    ReferenceFires(r, v) /\ inForce[r] <= ledger[ReferenceBase(r)].at => \E f \in fired : f.rule = r /\ f.vm = v

\* The inductive invariant.
ThrInv == ThrTypes /\ IsTheEnd /\ InTime /\ NoGain /\ WithinWindow /\ CutIsSpare /\ FiredIsTrue /\ FiredIsAll

\* A set of naturals that is bounded has a greatest member.
LEMMA Greatest ==
  ASSUME NEW n \in Nat, NEW S \in SUBSET (0..n), S # {}
  PROVE  \E i \in S : \A j \in S : j <= i
<1> DEFINE B == {m \in Nat : \A j \in S : j <= m}
<1>1. B \subseteq Nat /\ n \in B
  OBVIOUS
<1>2. \E m \in B : \A k \in B : ~(<<k, m>> \in OpToRel(<, Nat))
  BY <1>1, NatLessThanWellFounded, WFMin
<1>3. PICK m \in B : \A k \in B : ~(k < m)
  BY <1>1, <1>2 DEF OpToRel
<1>4. m \in Nat /\ \A j \in S : j <= m
  OBVIOUS
<1>5. m \in S
  <2> SUFFICES ASSUME m \notin S PROVE FALSE
    OBVIOUS
  <2>1. \A j \in S : j \in Nat /\ j < m
    BY <1>4
  <2>2. PICK k : k \in S
    OBVIOUS
  <2>3. m - 1 \in Nat /\ \A j \in S : j <= m - 1
    BY <1>4, <2>1, <2>2
  <2>4. m - 1 \in B
    BY <2>3
  <2> HIDE DEF B
  <2> QED BY <1>3, <1>4, <2>4
<1> QED BY <1>4, <1>5

\* What BaseAt returns.
LEMMA BaseIs ==
  ASSUME NEW h, Len(h) \in Nat, NEW now, NEW w
  PROVE  LET b == BaseAt(h, now, w)
         IN  \/ b = 0 /\ \A i \in 1..Len(h) : ~(h[i].at <= now - w)
             \/ /\ b \in 1..Len(h) /\ h[b].at <= now - w
                /\ \A i \in 1..Len(h) : h[i].at <= now - w => i <= b
<1> DEFINE old == {i \in 1..Len(h) : h[i].at <= now - w}
<1>1. CASE old = {}
  <2>1. BaseAt(h, now, w) = 0
    BY <1>1 DEF BaseAt
  <2> QED BY <1>1, <2>1
<1>2. CASE old # {}
  <2>1. old \in SUBSET (0..Len(h))
    OBVIOUS
  <2>2. \E i \in old : \A j \in old : j <= i
    <3> HIDE DEF old
    <3> QED BY <1>2, <2>1, Greatest
  <2>3. BaseAt(h, now, w) = CHOOSE i \in old : \A j \in old : j <= i
    BY <1>2 DEF BaseAt
  <2>4. BaseAt(h, now, w) \in old /\ \A j \in old : j <= BaseAt(h, now, w)
    <3> HIDE DEF old
    <3> QED BY <2>2, <2>3
  <2>5. BaseAt(h, now, w) \in 1..Len(h)
    BY <2>4
  <2> QED BY <2>4, <2>5
<1> QED BY <1>1, <1>2

\* The end of a record has the base that the record has, unless it was cut.
LEMMA SameBase ==
  ASSUME NEW h, NEW l, NEW now \in Int, NEW w \in Int, Len(h) \in Nat, Len(l) \in Nat, Len(h) <= Len(l),
         \A i \in 1..Len(h) : h[i].at = l[Len(l) - Len(h) + i].at
  PROVE  /\ BaseAt(h, now, w) # 0 =>
              BaseAt(l, now, w) = Len(l) - Len(h) + BaseAt(h, now, w)
         /\ BaseAt(l, now, w) > Len(l) - Len(h) => BaseAt(h, now, w) # 0
<1> DEFINE b == BaseAt(h, now, w)
           a == BaseAt(l, now, w)
           c == Len(l) - Len(h)
<1>1. \/ b = 0 /\ \A i \in 1..Len(h) : ~(h[i].at <= now - w)
      \/ b \in 1..Len(h) /\ h[b].at <= now - w /\ \A i \in 1..Len(h) : h[i].at <= now - w => i <= b
  BY BaseIs
<1>2. \/ a = 0 /\ \A i \in 1..Len(l) : ~(l[i].at <= now - w)
      \/ a \in 1..Len(l) /\ l[a].at <= now - w /\ \A i \in 1..Len(l) : l[i].at <= now - w => i <= a
  BY BaseIs
<1>3. c \in Nat /\ \A i \in 1..Len(h) : c + i \in 1..Len(l) /\ h[i].at = l[c + i].at
  OBVIOUS
<1>4. \A i \in 1..Len(l) : i > c => i - c \in 1..Len(h) /\ h[i - c].at = l[i].at
  <2> SUFFICES ASSUME NEW i \in 1..Len(l), i > c PROVE i - c \in 1..Len(h) /\ h[i - c].at = l[i].at
    OBVIOUS
  <2>1. i - c \in 1..Len(h) /\ c + (i - c) = i
    OBVIOUS
  <2> HIDE DEF c
  <2> QED BY <1>3, <2>1
<1> SUFFICES (b # 0 => a = c + b) /\ (a > c => b # 0)
  OBVIOUS
<1> HIDE DEF a, b, c
<1>5. ASSUME b # 0 PROVE a = c + b
  <2>1. b \in 1..Len(h) /\ l[c + b].at <= now - w /\ c + b \in 1..Len(l)
    BY <1>1, <1>3, <1>5
  <2>2. a \in 1..Len(l) /\ l[a].at <= now - w /\ c + b <= a
    BY <1>2, <2>1
  <2>3. a > c /\ a - c \in 1..Len(h) /\ h[a - c].at <= now - w
    BY <1>3, <1>4, <2>1, <2>2
  <2>4. a - c <= b
    BY <1>1, <1>5, <2>3
  <2> QED BY <1>3, <2>1, <2>2, <2>4
<1>6. ASSUME a > c PROVE b # 0
  <2>1. a \in 1..Len(l) /\ l[a].at <= now - w
    BY <1>2, <1>3, <1>6
  <2>2. a - c \in 1..Len(h) /\ h[a - c].at <= now - w
    BY <1>4, <1>6, <2>1
  <2> QED BY <1>1, <2>2
<1> QED BY <1>5, <1>6

LEMMA ThrInitInv == ThrInit => ThrInv
<1> SUFFICES ASSUME ThrInit PROVE ThrInv
  OBVIOUS
<1> USE ThresholdsAssumption DEF ThrInit
<1>1. history = <<>> /\ ledger = <<>> /\ Len(history) = 0 /\ Len(ledger) = 0
  BY EmptySeq
<1>2. ThrTypes
  <2>1. history \in Seq(Snaps) /\ ledger \in Seq(Evals)
    BY <1>1, EmptySeq
  <2> QED BY <2>1 DEF ThrTypes
<1>3. \A r, v : ~ReferenceFires(r, v)
  <2>1. \A r : ReferenceBase(r) = 0
    BY <1>1 DEF ReferenceBase, LastEval
  <2> QED BY <2>1 DEF ReferenceFires
<1>4. FiredIsTrue /\ FiredIsAll
  BY <1>3 DEF FiredIsTrue, FiredIsAll
<1>5. IsTheEnd /\ InTime /\ NoGain /\ WithinWindow /\ CutIsSpare
  BY <1>1 DEF IsTheEnd, InTime, NoGain, WithinWindow, CutIsSpare, Cut
<1> QED BY <1>2, <1>4, <1>5 DEF ThrInv

\* The lengths of the record and of the history, and what is in them.
LEMMA RecordFacts ==
  ASSUME ThrInv
  PROVE  /\ Len(ledger) \in Nat /\ Len(history) \in Nat /\ Cut \in Nat
         /\ \A i \in 1..Len(ledger) :
              /\ ledger[i] \in Evals /\ ledger[i].at \in 0..clk
              /\ DOMAIN ledger[i].vms \subseteq Guests
              /\ \A v \in DOMAIN ledger[i].vms : ledger[i].vms[v].n \in Nat /\ ledger[i].vms[v].real \in Nat
         /\ \A i \in 1..Len(history) :
              /\ history[i] \in Snaps /\ history[i].at = ledger[Cut + i].at /\ Cut + i \in 1..Len(ledger)
              /\ history[i].at \in 0..clk /\ DOMAIN history[i].vms \subseteq Guests
<1> USE DEF ThrInv
<1>1. Len(ledger) \in Nat /\ Len(history) \in Nat /\ Cut \in Nat
  BY LenProperties DEF ThrTypes, IsTheEnd, Cut
<1>2. clk \in Nat
  BY ThresholdsAssumption DEF ThrTypes
<1>3. ASSUME NEW i \in 1..Len(ledger)
      PROVE  /\ ledger[i] \in Evals /\ ledger[i].at \in 0..clk
             /\ DOMAIN ledger[i].vms \subseteq Guests
             /\ \A v \in DOMAIN ledger[i].vms : ledger[i].vms[v].n \in Nat /\ ledger[i].vms[v].real \in Nat
  <2>1. ledger[i] \in Evals /\ ledger[Len(ledger)] \in Evals
    BY <1>1, ElementOfSeq DEF ThrTypes
  <2>2. /\ DOMAIN ledger[i].vms \subseteq Guests /\ ledger[i].at \in Nat
        /\ \A v \in DOMAIN ledger[i].vms : ledger[i].vms[v].n \in Nat /\ ledger[i].vms[v].real \in Nat
    BY <2>1 DEF Evals
  <2>3. Len(ledger) - i <= ledger[Len(ledger)].at - ledger[i].at /\ ledger[Len(ledger)].at = clk
    BY <1>1 DEF InTime
  <2>4. ledger[i].at <= clk
    BY <1>1, <1>2, <2>2, <2>3
  <2> QED BY <1>2, <2>1, <2>2, <2>4
<1>4. ASSUME NEW i \in 1..Len(history)
      PROVE  /\ history[i] \in Snaps /\ history[i].at = ledger[Cut + i].at /\ Cut + i \in 1..Len(ledger)
             /\ history[i].at \in 0..clk /\ DOMAIN history[i].vms \subseteq Guests
  <2>1. history[i] \in Snaps
    BY <1>1, ElementOfSeq DEF ThrTypes
  <2>2. DOMAIN history[i].vms \subseteq Guests
    BY <2>1 DEF Snaps
  <2>3. history[i].at = ledger[Cut + i].at
    BY DEF IsTheEnd, SameEval
  <2>4. Cut + i \in 1..Len(ledger)
    BY <1>1 DEF Cut
  <2> QED BY <1>3, <2>1, <2>2, <2>3, <2>4
<1> QED BY <1>1, <1>3, <1>4

\* The reference's base is older than the record's last by the rule's window.
LEMMA ReferenceBaseIs ==
  ASSUME ThrInv, NEW r, r.window \in Nat \ {0}, ReferenceBase(r) # 0
  PROVE  /\ ReferenceBase(r) \in 1..Len(ledger) /\ Len(ledger) > 0 /\ ledger[Len(ledger)].at = clk
         /\ ledger[ReferenceBase(r)].at <= clk - r.window
<1>1. Len(ledger) \in Nat /\ (Len(ledger) > 0 => ledger[Len(ledger)].at = clk)
  BY RecordFacts DEF ThrInv, InTime
<1>2. ReferenceBase(r) = BaseAt(ledger, ledger[Len(ledger)].at, r.window)
  BY DEF ReferenceBase, BaseAt, LastEval
<1>3. /\ ReferenceBase(r) \in 1..Len(ledger)
      /\ ledger[ReferenceBase(r)].at <= ledger[Len(ledger)].at - r.window
  BY <1>1, <1>2, BaseIs
<1> QED BY <1>1, <1>3

\* What was judged stays what the record says until the next Evaluate.
LEMMA JudgedFrame ==
  ASSUME UNCHANGED ledger
  PROVE  \A r, v : /\ ReferenceBase(r)' = ReferenceBase(r)
                   /\ ReferenceFires(r, v)' = ReferenceFires(r, v)
BY DEF ReferenceFires, ReferenceBase, LastEval

\* A step that leaves the record, the rules and the clock alone.
LEMMA EventsInv ==
  ASSUME ThrInv, UNCHANGED <<clk, rules, history, fired, ledger, inForce>>,
         upsets' \in 0..MaxUpsets, counter' \in [Guests -> Nat], real' \in [Guests -> 0..MaxEvents],
         program' \in [Guests -> BOOLEAN],
         \A v \in Guests : counter'[v] <= real'[v] /\ counter'[v] - real'[v] <= counter[v] - real[v]
  PROVE  ThrInv'
<1> USE DEF ThrInv
<1>1. ThrTypes'
  BY DEF ThrTypes
<1>2. (IsTheEnd /\ InTime /\ WithinWindow /\ CutIsSpare)'
  BY DEF IsTheEnd, InTime, WithinWindow, CutIsSpare, Cut
<1>3. (FiredIsTrue /\ FiredIsAll)'
  BY JudgedFrame DEF FiredIsTrue, FiredIsAll, LastEval
<1>4. NoGain'
  <2> SUFFICES ASSUME NEW i \in 1..Len(ledger), NEW v \in DOMAIN ledger[i].vms
               PROVE  counter'[v] - real'[v] <= ledger[i].vms[v].n - ledger[i].vms[v].real
    BY DEF NoGain
  <2>1. ledger[i] \in Evals
    BY ElementOfSeq DEF ThrTypes
  <2>2. v \in Guests /\ ledger[i].vms[v].n \in Nat /\ ledger[i].vms[v].real \in Nat
    BY <2>1 DEF Evals
  <2>3. counter[v] - real[v] <= ledger[i].vms[v].n - ledger[i].vms[v].real
    BY DEF NoGain
  <2>4. counter[v] \in Nat /\ real[v] \in Nat /\ counter'[v] \in Nat /\ real'[v] \in Nat
    BY <2>2, ThresholdsAssumption DEF ThrTypes
  <2> QED BY SMTT(30), <2>2, <2>3, <2>4
<1> QED BY <1>1, <1>2, <1>3, <1>4

LEMMA HappensInv ==
  ASSUME ThrInv, NEW v \in Guests, Happens(v) \/ ProgramChanges(v) \/ \E n \in 0..MaxEvents : Falls(v, n)
  PROVE  ThrInv'
<1> USE ThresholdsAssumption DEF ThrInv, ThrTypes, Upset
<1>1. CASE Happens(v)
  BY SMTT(30), <1>1, EventsInv DEF Happens
<1>2. CASE ProgramChanges(v)
  BY <1>2, EventsInv DEF ProgramChanges
<1>3. ASSUME NEW n \in 0..MaxEvents, Falls(v, n) PROVE ThrInv'
  BY <1>3, EventsInv DEF Falls
<1> QED BY <1>1, <1>2, <1>3

LEMMA ReloadInv ==
  ASSUME ThrInv, NEW R \in RuleSets, ReloadRules(R)
  PROVE  ThrInv'
<1> USE ThresholdsAssumption DEF ThrInv
<1>1. ThrTypes'
  BY DEF ThrTypes, ReloadRules, Upset
<1>2. (IsTheEnd /\ InTime /\ WithinWindow /\ NoGain)'
  BY DEF IsTheEnd, InTime, WithinWindow, NoGain, Cut, ReloadRules, Upset
<1>3. \A r \in rules' : IF r \in rules THEN inForce'[r] = inForce[r] ELSE inForce'[r] = clk
  BY DEF ReloadRules
<1>4. UNCHANGED <<clk, history, ledger, fired>>
  BY DEF ReloadRules, Upset
<1>5. CutIsSpare'
  <2> SUFFICES ASSUME Cut > 0, NEW r \in rules' PROVE history[1].at <= inForce'[r] \/ history[1].at <= clk - r.window
    BY <1>4 DEF CutIsSpare, Cut
  <2>1. CASE r \in rules
    BY <1>3, <2>1 DEF CutIsSpare
  <2>2. CASE r \notin rules
    <3>1. 1 \in 1..Len(history)
      BY RecordFacts DEF IsTheEnd, Cut
    <3> QED BY <1>3, <2>2, <3>1, RecordFacts
  <2> QED BY <2>1, <2>2
<1>6. FiredIsTrue'
  BY <1>4, JudgedFrame DEF FiredIsTrue, LastEval
<1>7. FiredIsAll'
  <2> SUFFICES ASSUME NEW r \in rules', NEW v \in Guests, ReferenceFires(r, v),
                      inForce'[r] <= ledger[ReferenceBase(r)].at
               PROVE  \E f \in fired : f.rule = r /\ f.vm = v
    BY <1>4, JudgedFrame DEF FiredIsAll
  <2>1. CASE r \in rules
    BY <1>3, <2>1 DEF FiredIsAll
  <2>2. CASE r \notin rules
    <3>1. r.window \in Nat \ {0}
      BY DEF ReloadRules
    <3>2. ledger[ReferenceBase(r)].at <= clk - r.window /\ ledger[ReferenceBase(r)].at \in 0..clk
      BY <3>1, ReferenceBaseIs, RecordFacts DEF ReferenceFires
    <3>3. clk \in Nat /\ clk <= ledger[ReferenceBase(r)].at
      BY <1>3, <2>2 DEF ThrTypes
    <3> QED BY <3>1, <3>2, <3>3
  <2> QED BY <2>1, <2>2
<1> QED BY <1>1, <1>2, <1>5, <1>6, <1>7

\* Keep is a window of a rule, and no rule's is longer.
LEMMA KeepIs ==
  ASSUME rules \in RuleSets, rules # {}
  PROVE  Keep \in 1..LongestWindow /\ \A r \in rules : r.window \in 1..LongestWindow /\ r.window <= Keep
<1> USE ThresholdsAssumption
<1> DEFINE W == {r.window : r \in rules}
<1>1. W \in SUBSET (0..LongestWindow) /\ W # {}
  OBVIOUS
<1>2. \E w \in W : \A x \in W : x <= w
  <2> HIDE DEF W
  <2> QED BY <1>1, Greatest
<1>3. \E w \in W : \A r \in rules : r.window <= w
  BY <1>2
<1>4. Keep \in W /\ \A r \in rules : r.window <= Keep
  BY <1>3 DEF Keep
<1> QED BY <1>4

\* What record keeps: the end of the history with the new snapshot, from the last that is at the edge or before.
LEMMA RecordKeeps ==
  ASSUME ThrInv, rules # {}, NEW S \in SUBSET Guests, NEW now \in Nat
  PROVE  \E first \in 1..(Len(history) + 1) :
           /\ record(S, now) \in Seq(Snaps) /\ Len(record(S, now)) = Len(history) + 2 - first
           /\ \A i \in 1..Len(record(S, now)) :
                record(S, now)[i] = IF first + i - 1 = Len(history) + 1 THEN [at |-> now, vms |-> Snap(S)]
                                    ELSE history[first + i - 1]
           /\ first = 1 \/ record(S, now)[1].at <= now - Keep
           /\ \A i \in 2..Len(record(S, now)) : ~(record(S, now)[i].at <= now - Keep)
<1> DEFINE e == [at |-> now, vms |-> Snap(S)]
           h == Append(history, e)
           edge == Edge(h, now)
           first == CHOOSE i \in edge : \A j \in edge : j <= i
<1>1. Len(history) \in Nat /\ history \in Seq(Snaps)
  BY RecordFacts DEF ThrInv, ThrTypes
<1>2. e \in Snaps
  <2>1. Snap(S) \in [S -> [n : Nat, on : BOOLEAN]]
    <3>1. \A v \in S : counter[v] \in Nat /\ program[v] \in BOOLEAN
      BY DEF ThrInv, ThrTypes
    <3> QED BY <3>1 DEF Snap
  <2>2. Snap(S) \in UNION {[T -> [n : Nat, on : BOOLEAN]] : T \in SUBSET Guests}
    BY <2>1
  <2> QED BY <2>2 DEF Snaps
<1> HIDE DEF e
<1>3. /\ h \in Seq(Snaps) /\ Len(h) = Len(history) + 1
      /\ \A i \in 1..Len(history) : h[i] = history[i]
      /\ h[Len(history) + 1] = e
  BY <1>1, <1>2, AppendProperties
<1>4. record(S, now) = SubSeq(h, first, Len(h))
  BY DEF record, e
<1> HIDE DEF h
<1>5. /\ edge \in SUBSET (0..Len(h)) /\ edge # {} /\ edge \subseteq 1..Len(h)
      /\ \A i \in edge : i = 1 \/ h[i].at <= now - Keep
      /\ \A i \in 1..Len(h) : h[i].at <= now - Keep => i \in edge
  BY <1>1, <1>3 DEF Edge
<1> HIDE DEF edge
<1>6. first \in edge /\ \A j \in edge : j <= first
  <2>1. Len(h) \in Nat
    BY <1>1, <1>3
  <2>2. edge \in SUBSET (0..Len(h)) /\ edge # {}
    BY <1>5
  <2>3. \E i \in edge : \A j \in edge : j <= i
    BY <2>1, <2>2, Greatest
  <2> QED BY <2>3
<1> HIDE DEF first
<1>7. first \in 1..Len(h)
  BY <1>5, <1>6
<1>8. \A i \in first..Len(h) : h[i] \in Snaps
  BY <1>1, <1>3, <1>7, ElementOfSeq
<1>9. /\ record(S, now) \in Seq(Snaps) /\ Len(record(S, now)) = Len(h) - first + 1
      /\ \A i \in 1..(Len(h) - first + 1) : record(S, now)[i] = h[first + i - 1]
  <2>1. first \in Int /\ Len(h) \in Int /\ first <= Len(h)
    BY <1>1, <1>3, <1>7
  <2> QED BY <1>4, <1>8, <2>1, SubSeqProperties
<1>10. \A i \in 1..Len(record(S, now)) : first + i - 1 \in first..Len(h) /\ record(S, now)[i] = h[first + i - 1]
  <2> SUFFICES ASSUME NEW i \in 1..Len(record(S, now))
               PROVE  first + i - 1 \in first..Len(h) /\ record(S, now)[i] = h[first + i - 1]
    OBVIOUS
  <2>1. i \in 1..(Len(h) - first + 1) /\ first + i - 1 \in first..Len(h)
    BY <1>1, <1>3, <1>7, <1>9
  <2> QED BY <1>9, <2>1
<1>11. record(S, now)[1] = h[first]
  BY <1>1, <1>3, <1>7, <1>9
<1>12. \A i \in 2..Len(record(S, now)) : ~(record(S, now)[i].at <= now - Keep)
  <2> SUFFICES ASSUME NEW i \in 2..Len(record(S, now)), record(S, now)[i].at <= now - Keep PROVE FALSE
    OBVIOUS
  <2>1. first + i - 1 \in 1..Len(h) /\ first + i - 1 > first /\ i \in 1..Len(record(S, now))
    BY <1>1, <1>3, <1>7, <1>9
  <2>2. first + i - 1 \in edge
    BY <1>5, <1>10, <2>1
  <2>3. first + i - 1 <= first
    BY <1>6, <2>2
  <2> QED BY <1>7, <2>1, <2>3
<1>13. \A i \in 1..Len(record(S, now)) :
         record(S, now)[i] = IF first + i - 1 = Len(history) + 1 THEN e ELSE history[first + i - 1]
  <2> SUFFICES ASSUME NEW i \in 1..Len(record(S, now))
               PROVE  record(S, now)[i] = IF first + i - 1 = Len(history) + 1 THEN e ELSE history[first + i - 1]
    OBVIOUS
  <2>1. first + i - 1 \in 1..(Len(history) + 1)
    BY <1>1, <1>3, <1>7, <1>10
  <2>2. PICK k : k = first + i - 1
    OBVIOUS
  <2>3. record(S, now)[i] = h[k] /\ k \in 1..(Len(history) + 1)
    BY <1>10, <2>1, <2>2
  <2>4. h[k] = IF k = Len(history) + 1 THEN e ELSE history[k]
    <3>1. CASE k = Len(history) + 1
      BY <1>3, <3>1
    <3>2. CASE k # Len(history) + 1
      <4>1. k \in 1..Len(history)
        BY <1>1, <2>3, <3>2
      <4> QED BY <1>3, <3>2, <4>1
    <3> QED BY <3>1, <3>2
  <2> QED BY <2>2, <2>3, <2>4
<1>14. first = 1 \/ record(S, now)[1].at <= now - Keep
  BY <1>5, <1>6, <1>11
<1>15. Len(record(S, now)) = Len(history) + 2 - first /\ first \in 1..(Len(history) + 1)
  BY <1>1, <1>3, <1>7, <1>9
<1> QED BY <1>9, <1>12, <1>13, <1>14, <1>15 DEF e

\* What an Evaluate does to the record and to the history, as the invariant sees them.
LEMMA EvaluateKeeps ==
  ASSUME ThrInv, rules # {}, NEW S \in SUBSET Guests, NEW gap \in 1..2, Evaluate(S, gap)
  PROVE  (ThrTypes /\ IsTheEnd /\ InTime /\ NoGain /\ WithinWindow /\ CutIsSpare)'
<1> USE ThresholdsAssumption
<1> DEFINE now == clk + gap
           E == [v \in S |-> [n |-> counter[v], on |-> program[v], real |-> real[v]]]
           new == [at |-> now, vms |-> E]
           N == Len(ledger)
           H == Len(history)
<1>1. /\ clk' = now /\ now <= MaxClk /\ history' = record(S, now) /\ ledger' = Append(ledger, new)
      /\ UNCHANGED <<upsets, rules, counter, program, real, inForce>>
  BY DEF Evaluate
<1>2. clk \in Nat /\ now \in Nat /\ clk < now /\ N \in Nat /\ H \in Nat /\ Cut \in Nat
  BY RecordFacts DEF ThrInv, ThrTypes
<1>3. \A v \in S : counter[v] \in Nat /\ program[v] \in BOOLEAN /\ real[v] \in Nat /\ v \in Guests
  BY DEF ThrInv, ThrTypes
<1>4. new \in Evals
  <2>1. E \in [S -> [n : Nat, on : BOOLEAN, real : Nat]]
    BY <1>3
  <2>2. E \in UNION {[T -> [n : Nat, on : BOOLEAN, real : Nat]] : T \in SUBSET Guests}
    BY <2>1
  <2> HIDE DEF E
  <2> QED BY <1>2, <2>2 DEF Evals
<1>5. new.at = now /\ new.vms = E
  OBVIOUS
<1>6. DOMAIN E = S /\ \A v \in S : E[v].n = counter[v] /\ E[v].on = program[v] /\ E[v].real = real[v]
  OBVIOUS
<1>7. Snap(S) = [v \in S |-> [n |-> counter[v], on |-> program[v]]]
  BY DEF Snap
<1>8. DOMAIN Snap(S) = S /\ \A v \in S : Snap(S)[v].n = counter[v] /\ Snap(S)[v].on = program[v]
  BY <1>7
<1> HIDE DEF new, E
<1>9. /\ ledger' \in Seq(Evals) /\ Len(ledger') = N + 1
      /\ \A i \in 1..N : ledger'[i] = ledger[i]
      /\ ledger'[N + 1] = new
  BY <1>1, <1>4, AppendProperties DEF ThrInv, ThrTypes
<1>10. PICK first \in 1..(H + 1) :
         /\ record(S, now) \in Seq(Snaps) /\ Len(record(S, now)) = H + 2 - first
         /\ \A i \in 1..Len(record(S, now)) :
              record(S, now)[i] = IF first + i - 1 = H + 1 THEN [at |-> now, vms |-> Snap(S)]
                                  ELSE history[first + i - 1]
         /\ first = 1 \/ record(S, now)[1].at <= now - Keep
         /\ \A i \in 2..Len(record(S, now)) : ~(record(S, now)[i].at <= now - Keep)
  BY <1>2, RecordKeeps
<1>11. history' \in Seq(Snaps) /\ Len(history') = H + 2 - first /\ Cut' = Cut + first - 1 /\ Cut = N - H
  <2>1. history' \in Seq(Snaps) /\ Len(history') = H + 2 - first
    BY <1>1, <1>10
  <2>2. Cut' = Len(ledger') - Len(history') /\ Cut = N - H
    BY DEF Cut
  <2>3. first \in Nat
    BY <1>2
  <2> QED BY <1>2, <1>9, <2>1, <2>2, <2>3
<1>12. ASSUME NEW i \in 1..Len(history')
       PROVE  history'[i] = IF first + i - 1 = H + 1 THEN [at |-> now, vms |-> Snap(S)] ELSE history[first + i - 1]
  BY <1>1, <1>10
<1>13. first = 1 \/ history'[1].at <= now - Keep
  BY <1>1, <1>10
<1>14. \A i \in 2..Len(history') : ~(history'[i].at <= now - Keep)
  BY <1>1, <1>10
<1>15. ThrTypes'
  <2>1. inForce \in [rules -> 0..now]
    <3>1. inForce \in [rules -> 0..clk] /\ \A x \in 0..clk : x \in 0..now
      BY <1>2 DEF ThrInv, ThrTypes
    <3> QED BY <3>1
  <2>2. clk' \in 0..MaxClk
    BY <1>1, <1>2
  <2>3. /\ upsets \in 0..MaxUpsets /\ rules \in RuleSets
        /\ counter \in [Guests -> Nat] /\ real \in [Guests -> 0..MaxEvents] /\ program \in [Guests -> BOOLEAN]
        /\ \A v \in Guests : counter[v] <= real[v]
    BY DEF ThrInv, ThrTypes
  <2>4. inForce' \in [rules' -> 0..clk']
    BY <1>1, <2>1
  <2> HIDE ThresholdsAssumption
  <2> QED BY <1>1, <1>9, <1>11, <2>2, <2>3, <2>4 DEF ThrTypes
<1>16. IsTheEnd'
  <2>1. Len(history') <= Len(ledger') /\ Len(history') > 0
    <3> HIDE DEF N, H
    <3> QED BY SMTT(30), <1>2, <1>9, <1>11
  <2>2. ASSUME NEW i \in 1..Len(history') PROVE SameEval(history'[i], ledger'[Cut' + i])
    <3>1. CASE first + i - 1 = H + 1
      <4>1. Cut' + i = N + 1
        BY <1>2, <1>11, <3>1 DEF Cut
      <4>2. history'[i] = [at |-> now, vms |-> Snap(S)] /\ ledger'[Cut' + i] = new
        BY <1>9, <1>12, <3>1, <4>1
      <4>3. history'[i].at = now /\ history'[i].vms = Snap(S)
        BY <4>2
      <4>4. ledger'[Cut' + i].at = now /\ ledger'[Cut' + i].vms = E
        BY <1>5, <4>2
      <4>5. \A v \in S : Snap(S)[v].n = E[v].n /\ Snap(S)[v].on = E[v].on
        BY <1>6, <1>8
      <4> HIDE ThresholdsAssumption
      <4> QED BY <1>6, <1>8, <4>3, <4>4, <4>5 DEF SameEval
    <3>2. CASE first + i - 1 # H + 1
      <4>1. first + i - 1 \in 1..H /\ Cut' + i \in 1..N /\ Cut' + i = Cut + (first + i - 1)
        <5>1. i \in Nat /\ 1 <= i /\ i <= H + 2 - first /\ first \in Nat /\ 1 <= first
          BY <1>2, <1>11
        <5> HIDE DEF N, H
        <5> QED BY <1>2, <1>11, <3>2, <5>1
      <4>2. history'[i] = history[first + i - 1] /\ ledger'[Cut' + i] = ledger[Cut + (first + i - 1)]
        BY <1>9, <1>12, <3>2, <4>1
      <4>3. SameEval(history[first + i - 1], ledger[Cut + (first + i - 1)])
        BY <4>1 DEF ThrInv, IsTheEnd
      <4> QED BY <4>2, <4>3
    <3> QED BY <3>1, <3>2
  <2> QED BY <2>1, <2>2 DEF IsTheEnd
<1>17. InTime'
  <2>1. ASSUME NEW i \in 1..(N + 1), NEW j \in 1..(N + 1), i <= j
        PROVE  j - i <= ledger'[j].at - ledger'[i].at
    <3>1. CASE j \in 1..N
      <4>1. i \in 1..N
        BY <1>2, <2>1, <3>1
      <4> QED BY <1>9, <2>1, <3>1, <4>1 DEF ThrInv, InTime
    <3>2. CASE j = N + 1 /\ i = N + 1
      BY <1>2, <1>5, <1>9, <3>2
    <3>3. CASE j = N + 1 /\ i \in 1..N
      <4>1. N \in 1..N /\ N - i <= ledger[N].at - ledger[i].at /\ ledger[N].at = clk
        BY <1>2, <3>3 DEF ThrInv, InTime
      <4>2. ledger[i].at \in Nat
        BY <1>2, <3>3, RecordFacts
      <4>3. ledger'[j].at = now /\ ledger'[i] = ledger[i]
        BY <1>5, <1>9, <3>3
      <4>4. i \in Nat
        BY <3>3
      <4> HIDE ThresholdsAssumption
      <4> HIDE DEF N, now
      <4> QED BY SMTT(30), <1>2, <3>3, <4>1, <4>2, <4>3, <4>4
    <3> QED BY <1>2, <2>1, <3>1, <3>2, <3>3
  <2> QED BY <1>1, <1>2, <1>5, <1>9, <2>1 DEF InTime
<1>18. NoGain'
  <2> SUFFICES ASSUME NEW i \in 1..(N + 1), NEW v \in DOMAIN ledger'[i].vms
               PROVE  /\ counter[v] - real[v] <= ledger'[i].vms[v].n - ledger'[i].vms[v].real
                      /\ \A j \in i..(N + 1) :
                           v \in DOMAIN ledger'[j].vms =>
                             ledger'[j].vms[v].n - ledger'[j].vms[v].real <= ledger'[i].vms[v].n - ledger'[i].vms[v].real
    BY <1>1, <1>9 DEF NoGain
  <2>1. CASE i = N + 1
    <3>1. v \in S /\ ledger'[i].vms[v].n = counter[v] /\ ledger'[i].vms[v].real = real[v]
      BY <1>5, <1>6, <1>9, <2>1
    <3>2. \A j \in i..(N + 1) : j = i
      BY <1>2, <2>1
    <3> QED BY <1>3, <3>1, <3>2
  <2>2. CASE i \in 1..N
    <3>1. ledger'[i] = ledger[i] /\ counter[v] - real[v] <= ledger[i].vms[v].n - ledger[i].vms[v].real
      BY <1>9, <2>2 DEF ThrInv, NoGain
    <3>2. ASSUME NEW j \in i..(N + 1), v \in DOMAIN ledger'[j].vms
          PROVE  ledger'[j].vms[v].n - ledger'[j].vms[v].real <= ledger'[i].vms[v].n - ledger'[i].vms[v].real
      <4>1. CASE j \in 1..N
        <5>1. ledger'[j] = ledger[j] /\ j \in i..N
          BY <1>2, <1>9, <2>2, <3>2, <4>1
        <5> QED BY <3>1, <3>2, <5>1 DEF ThrInv, NoGain
      <4>2. CASE j = N + 1
        <5>1. v \in S /\ ledger'[j].vms[v].n = counter[v] /\ ledger'[j].vms[v].real = real[v]
          BY <1>5, <1>6, <1>9, <3>2, <4>2
        <5> QED BY <3>1, <5>1
      <4> QED BY <1>2, <2>2, <4>1, <4>2
    <3> QED BY <3>1, <3>2
  <2> QED BY <1>2, <2>1, <2>2
<1>19. Keep \in 1..LongestWindow /\ \A r \in rules : r.window \in 1..LongestWindow /\ r.window <= Keep
  BY KeepIs DEF ThrInv, ThrTypes
<1>20. \A i \in 1..Len(history') : history'[i].at \in Nat
  <2> SUFFICES ASSUME NEW i \in 1..Len(history') PROVE history'[i].at \in Nat
    OBVIOUS
  <2>1. history'[i] \in Snaps
    BY <1>11, ElementOfSeq
  <2> QED BY <2>1 DEF Snaps
<1>21. WithinWindow'
  <2> SUFFICES ASSUME NEW i \in 2..Len(history') PROVE history'[i].at > now - LongestWindow
    BY <1>1 DEF WithinWindow
  <2>1. history'[i].at \in Nat /\ ~(history'[i].at <= now - Keep)
    BY <1>14, <1>20
  <2> QED BY <1>2, <1>19, <2>1
<1>22. CutIsSpare'
  <2> SUFFICES ASSUME Cut' > 0, NEW r \in rules PROVE history'[1].at <= inForce[r] \/ history'[1].at <= now - r.window
    BY <1>1 DEF CutIsSpare
  <2>1. 1 \in 1..Len(history') /\ history'[1].at \in Nat
    BY <1>2, <1>10, <1>11, <1>20
  <2>2. CASE history'[1].at <= now - Keep
    <3>1. r.window \in Nat /\ Keep \in Nat /\ r.window <= Keep
      BY <1>19
    <3> HIDE DEF now
    <3> QED BY SMTT(30), <1>2, <2>1, <2>2, <3>1
  <2>3. CASE first = 1
    <3>1. Cut > 0
      BY <1>2, <1>11, <2>3
    <3>2. H > 0 /\ history'[1] = history[1]
      <4>1. Cut = N - H /\ (N > 0 => H > 0)
        BY <1>11 DEF ThrInv, IsTheEnd
      <4>2. H > 0 /\ first + 1 - 1 = 1 /\ 1 # H + 1
        <5> HIDE DEF N, H
        <5> QED BY <1>2, <2>3, <3>1, <4>1
      <4>3. history'[1] = IF first + 1 - 1 = H + 1 THEN [at |-> now, vms |-> Snap(S)] ELSE history[first + 1 - 1]
        BY <1>12, <2>1
      <4> HIDE DEF N, H, now
      <4> QED BY <4>2, <4>3
    <3>3. history[1].at <= inForce[r] \/ history[1].at <= clk - r.window
      BY <3>1 DEF ThrInv, CutIsSpare
    <3> QED BY SMTT(30), <1>2, <1>19, <2>1, <3>2, <3>3
  <2> QED BY <1>13, <2>2, <2>3
<1> QED BY <1>15, <1>16, <1>17, <1>18, <1>21, <1>22

\* subOK and Sayable, of counters that are naturals.
LEMMA Says ==
  ASSUME NEW r, NEW old, NEW cur, old.n \in Nat, cur.n \in Nat
  PROVE  /\ Sayable(r, old, cur) <=> cur.n >= old.n /\ (r.needsProgram => old.on /\ cur.on)
         /\ cur.n >= old.n => Grown(old, cur) = cur.n - old.n
<1>1. subOK(cur.n, old.n).ok <=> cur.n >= old.n
  BY DEF subOK
<1>2. cur.n >= old.n => subOK(cur.n, old.n).d = cur.n - old.n
  BY DEF subOK
<1> QED BY <1>1, <1>2, Zenon DEF Sayable, Grown

\* What an Evaluate judges from the history is what the whole record says of the same base.
LEMMA JudgedIsReference ==
  ASSUME ThrInv, rules # {}, NEW S \in SUBSET Guests, NEW gap \in 1..2, Evaluate(S, gap), NEW r \in rules,
         BaseAt(history', clk', r.window) # 0
  PROVE  LET b == BaseAt(history', clk', r.window)
         IN  /\ ReferenceBase(r)' = Cut' + b /\ ledger'[Cut' + b].at = history'[b].at
             /\ LastEval' = Len(ledger') /\ ledger'[LastEval'].at = clk'
             /\ \A v : (/\ v \in S \cap DOMAIN history'[b].vms
                        /\ Sayable(r, history'[b].vms[v], Snap(S)[v])
                        /\ Crossed(r, Grown(history'[b].vms[v], Snap(S)[v]), clk' - history'[b].at))
                       <=> ReferenceFires(r, v)'
             /\ \A v : ReferenceFires(r, v)' =>
                  Grown(history'[b].vms[v], Snap(S)[v])
                    = ledger'[LastEval'].vms[v].n - ledger'[ReferenceBase(r)'].vms[v].n
<1> USE ThresholdsAssumption
<1> DEFINE b == BaseAt(history', clk', r.window)
           E == [v \in S |-> [n |-> counter[v], on |-> program[v], real |-> real[v]]]
           new == [at |-> clk', vms |-> E]
           N == Len(ledger')
<1>1. ledger' = Append(ledger, new) /\ clk' \in Nat
  BY DEF Evaluate, ThrInv, ThrTypes
<1>2. (ThrTypes /\ IsTheEnd /\ InTime)'
  BY EvaluateKeeps
<1>3. new \in Evals
  <2>1. \A v \in S : counter[v] \in Nat /\ program[v] \in BOOLEAN /\ real[v] \in Nat
    BY DEF ThrInv, ThrTypes
  <2>2. E \in [S -> [n : Nat, on : BOOLEAN, real : Nat]]
    BY <2>1
  <2>3. E \in UNION {[T -> [n : Nat, on : BOOLEAN, real : Nat]] : T \in SUBSET Guests}
    BY <2>2
  <2> HIDE DEF E
  <2> QED BY <1>1, <2>3 DEF Evals
<1>4. N \in Nat /\ N > 0 /\ ledger'[N] = new
  <2>1. Len(ledger) \in Nat /\ ledger \in Seq(Evals)
    BY RecordFacts DEF ThrInv, ThrTypes
  <2> HIDE DEF new
  <2> QED BY <1>1, <1>3, <2>1, AppendProperties
<1>5. ledger'[N].at = clk' /\ DOMAIN ledger'[N].vms = S
      /\ \A v \in S : ledger'[N].vms[v].n = counter[v] /\ ledger'[N].vms[v].on = program[v]
  BY <1>4
<1>6. Snap(S) = [v \in S |-> [n |-> counter[v], on |-> program[v]]]
  BY DEF Snap
<1>7. \A v \in S : Snap(S)[v].n = counter[v] /\ Snap(S)[v].on = program[v]
  BY <1>6
<1> HIDE DEF new, E
<1>8. Len(history') \in Nat /\ Len(history') <= N /\ Cut' = N - Len(history')
  BY <1>2, LenProperties DEF ThrTypes, IsTheEnd, Cut
<1>9. \A i \in 1..Len(history') : SameEval(history'[i], ledger'[Cut' + i])
  BY <1>2 DEF IsTheEnd
<1>10. r.window \in Nat
  BY DEF ThrInv, ThrTypes
<1>11. ReferenceBase(r)' = BaseAt(ledger', clk', r.window) /\ LastEval' = N
  BY <1>5 DEF ReferenceBase, BaseAt, LastEval
<1>12. \A i \in 1..Len(history') : history'[i].at = ledger'[N - Len(history') + i].at
  BY <1>8, <1>9 DEF SameEval
<1>13. ReferenceBase(r)' = Cut' + b
  <2>1. /\ clk' \in Int /\ r.window \in Int /\ Len(history') \in Nat /\ Len(ledger') \in Nat
        /\ Len(history') <= Len(ledger')
    BY <1>1, <1>4, <1>8, <1>10
  <2>2. \A i \in 1..Len(history') : history'[i].at = ledger'[Len(ledger') - Len(history') + i].at
    BY <1>12
  <2>3. BaseAt(ledger', clk', r.window) = Len(ledger') - Len(history') + BaseAt(history', clk', r.window)
    <3> HIDE ThresholdsAssumption
    <3> HIDE DEF b, N
    <3> QED BY <2>1, <2>2, SameBase
  <2> QED BY <1>8, <1>11, <2>3
<1>14. b \in 1..Len(history')
  BY <1>8, BaseIs
<1>15. SameEval(history'[b], ledger'[Cut' + b]) /\ Cut' + b # 0
  BY <1>4, <1>8, <1>9, <1>14
<1>16. history'[b] \in Snaps
  BY <1>2, <1>14, ElementOfSeq DEF ThrTypes
<1>17. \A v \in DOMAIN history'[b].vms : history'[b].vms[v].n \in Nat
  BY <1>16 DEF Snaps
<1> DEFINE R == Cut' + b
<1>18. /\ history'[b].at = ledger'[R].at /\ DOMAIN history'[b].vms = DOMAIN ledger'[R].vms
       /\ \A v \in DOMAIN history'[b].vms : /\ history'[b].vms[v].n = ledger'[R].vms[v].n
                                            /\ history'[b].vms[v].on = ledger'[R].vms[v].on
  BY <1>15 DEF SameEval
<1>19. \A v \in S : counter[v] \in Nat
  BY DEF ThrInv, ThrTypes
<1> HIDE DEF b, R, N
<1>20. ASSUME NEW v \in S \cap DOMAIN history'[b].vms
       PROVE  /\ Sayable(r, history'[b].vms[v], Snap(S)[v])
                   <=> /\ ledger'[N].vms[v].n >= ledger'[R].vms[v].n
                       /\ r.needsProgram => ledger'[R].vms[v].on /\ ledger'[N].vms[v].on
              /\ ledger'[N].vms[v].n >= ledger'[R].vms[v].n =>
                   Grown(history'[b].vms[v], Snap(S)[v]) = ledger'[N].vms[v].n - ledger'[R].vms[v].n
  <2>1. history'[b].vms[v].n \in Nat /\ Snap(S)[v].n \in Nat
    BY <1>7, <1>17, <1>19
  <2>2. /\ Sayable(r, history'[b].vms[v], Snap(S)[v])
             <=> /\ Snap(S)[v].n >= history'[b].vms[v].n
                 /\ r.needsProgram => history'[b].vms[v].on /\ Snap(S)[v].on
        /\ Snap(S)[v].n >= history'[b].vms[v].n =>
             Grown(history'[b].vms[v], Snap(S)[v]) = Snap(S)[v].n - history'[b].vms[v].n
    BY <2>1, Says
  <2>3. Snap(S)[v].n = ledger'[N].vms[v].n /\ history'[b].vms[v].n = ledger'[R].vms[v].n
    BY <1>5, <1>7, <1>18
  <2>4. Snap(S)[v].on = ledger'[N].vms[v].on /\ history'[b].vms[v].on = ledger'[R].vms[v].on
    BY <1>5, <1>7, <1>18
  <2> QED BY <2>2, <2>3, <2>4, Zenon
<1>21. \A v : ReferenceFires(r, v)'
          <=> /\ R # 0 /\ v \in DOMAIN ledger'[R].vms /\ v \in DOMAIN ledger'[N].vms
              /\ ledger'[N].vms[v].n >= ledger'[R].vms[v].n
              /\ r.needsProgram => ledger'[R].vms[v].on /\ ledger'[N].vms[v].on
              /\ Crossed(r, ledger'[N].vms[v].n - ledger'[R].vms[v].n, ledger'[N].at - ledger'[R].at)
  BY <1>11, <1>13, Zenon DEF ReferenceFires, R
<1>22. R # 0
  BY <1>15 DEF R
<1>23. \A v : (/\ v \in S \cap DOMAIN history'[b].vms
               /\ Sayable(r, history'[b].vms[v], Snap(S)[v])
               /\ Crossed(r, Grown(history'[b].vms[v], Snap(S)[v]), clk' - history'[b].at))
              <=> ReferenceFires(r, v)'
  <2> SUFFICES ASSUME NEW v PROVE (/\ v \in S \cap DOMAIN history'[b].vms
                                   /\ Sayable(r, history'[b].vms[v], Snap(S)[v])
                                   /\ Crossed(r, Grown(history'[b].vms[v], Snap(S)[v]), clk' - history'[b].at))
                                  <=> ReferenceFires(r, v)'
    OBVIOUS
  <2>1. v \in S \cap DOMAIN history'[b].vms <=> v \in DOMAIN ledger'[R].vms /\ v \in DOMAIN ledger'[N].vms
    BY <1>5, <1>18
  <2>2. clk' - history'[b].at = ledger'[N].at - ledger'[R].at
    BY <1>5, <1>18
  <2> QED BY <1>20, <1>21, <1>22, <2>1, <2>2, Zenon
<1>24. \A v : ReferenceFires(r, v)' =>
         Grown(history'[b].vms[v], Snap(S)[v]) = ledger'[N].vms[v].n - ledger'[R].vms[v].n
  <2> SUFFICES ASSUME NEW v, ReferenceFires(r, v)'
               PROVE  Grown(history'[b].vms[v], Snap(S)[v]) = ledger'[N].vms[v].n - ledger'[R].vms[v].n
    OBVIOUS
  <2>1. v \in S \cap DOMAIN history'[b].vms /\ ledger'[N].vms[v].n >= ledger'[R].vms[v].n
    BY <1>5, <1>18, <1>21, Zenon
  <2> QED BY <1>20, <2>1
<1> QED BY <1>5, <1>11, <1>13, <1>18, <1>23, <1>24, Zenon DEF b, R, N

\* A judgement that the record would make is of a base that the history still has.
LEMMA BaseWasKept ==
  ASSUME ThrInv, rules # {}, NEW S \in SUBSET Guests, NEW gap \in 1..2, Evaluate(S, gap), NEW r \in rules,
         ReferenceBase(r)' # 0, inForce'[r] <= ledger'[ReferenceBase(r)'].at
  PROVE  BaseAt(history', clk', r.window) # 0
<1> USE ThresholdsAssumption
<1> DEFINE a == ReferenceBase(r)'
           N == Len(ledger')
           c == Cut'
<1>1. (ThrTypes /\ IsTheEnd /\ InTime /\ CutIsSpare)' /\ clk' \in Nat /\ rules' = rules
  <2>1. (ThrTypes /\ IsTheEnd /\ InTime /\ CutIsSpare)'
    BY EvaluateKeeps
  <2>2. clk' \in Nat /\ rules' = rules
    BY DEF Evaluate, ThrInv, ThrTypes
  <2> QED BY <2>1, <2>2
<1>2. N \in Nat /\ Len(history') \in Nat /\ Len(history') <= N /\ c = N - Len(history')
  BY <1>1, LenProperties DEF ThrTypes, IsTheEnd, Cut
<1>3. \A i \in 1..N : ledger'[i].at \in Nat
  <2> SUFFICES ASSUME NEW i \in 1..N PROVE ledger'[i].at \in Nat
    OBVIOUS
  <2>1. ledger'[i] \in Evals
    BY <1>1, ElementOfSeq DEF ThrTypes
  <2> QED BY <2>1 DEF Evals
<1>4. N > 0 /\ ledger'[N].at = clk'
  <2>1. N > 0
    <3>1. ReferenceBase(r)' = BaseAt(ledger', ledger'[N].at, r.window)
      BY DEF ReferenceBase, BaseAt, LastEval
    <3>2. a \in 1..N
      BY <1>2, <3>1, BaseIs
    <3> QED BY <1>2, <3>2
  <2> QED BY <1>1, <2>1 DEF InTime
<1>5. a = BaseAt(ledger', clk', r.window)
  BY <1>4 DEF ReferenceBase, BaseAt, LastEval
<1>6. /\ a \in 1..N /\ ledger'[a].at <= clk' - r.window
      /\ \A i \in 1..N : ledger'[i].at <= clk' - r.window => i <= a
  <2> HIDE DEF a
  <2> QED BY <1>2, <1>5, BaseIs DEF a
<1>7. r.window \in Int
  BY DEF ThrInv, ThrTypes
<1>8. a > c
  <2>1. CASE c = 0
    BY <1>6, <2>1
  <2>2. CASE c > 0
    <3>1. 1 \in 1..Len(history') /\ c + 1 \in 1..N
      BY <1>1, <1>2, <1>4 DEF IsTheEnd
    <3>2. history'[1].at = ledger'[c + 1].at
      BY <1>1, <3>1 DEF IsTheEnd, SameEval
    <3>3. history'[1].at <= inForce'[r] \/ history'[1].at <= clk' - r.window
      BY <1>1, <2>2 DEF CutIsSpare
    <3>4. inForce'[r] \in Nat
      BY <1>1 DEF ThrTypes
    <3>5. CASE ledger'[c + 1].at <= clk' - r.window
      BY <1>2, <1>6, <3>1, <3>5
    <3>6. CASE ledger'[c + 1].at <= inForce'[r]
      <4>1. ledger'[c + 1].at <= ledger'[a].at
        <5> HIDE DEF c, N, a
        <5> QED BY <1>3, <1>6, <3>1, <3>4, <3>6 DEF a
      <4>2. ASSUME a <= c PROVE FALSE
        <5>1. (c + 1) - a <= ledger'[c + 1].at - ledger'[a].at
          <6>1. \A i, j \in 1..N : i <= j => j - i <= ledger'[j].at - ledger'[i].at
            BY <1>1 DEF InTime
          <6>2. a <= c + 1
            BY <1>2, <1>6, <4>2
          <6> HIDE DEF c, N, a
          <6> QED BY <1>6, <3>1, <6>1, <6>2
        <5>2. ledger'[c + 1].at \in Nat /\ ledger'[a].at \in Nat
          BY <1>3, <1>6, <3>1
        <5> HIDE DEF c, N, a
        <5> QED BY <1>2, <1>6, <4>1, <4>2, <5>1, <5>2
      <4> QED BY <1>2, <1>6, <4>2
    <3> QED BY <3>2, <3>3, <3>5, <3>6
  <2> QED BY <1>2, <2>1, <2>2
<1>9. /\ clk' \in Int /\ Len(history') \in Nat /\ Len(ledger') \in Nat /\ Len(history') <= Len(ledger')
      /\ \A i \in 1..Len(history') : history'[i].at = ledger'[Len(ledger') - Len(history') + i].at
  <2>1. \A i \in 1..Len(history') : history'[i].at = ledger'[c + i].at
    BY <1>1 DEF IsTheEnd, SameEval
  <2> QED BY <1>1, <1>2, <2>1
<1>10. BaseAt(ledger', clk', r.window) > Len(ledger') - Len(history')
  BY <1>2, <1>5, <1>8
<1> HIDE ThresholdsAssumption
<1> HIDE DEF a, N, c
<1> QED BY <1>7, <1>9, <1>10, SameBase

LEMMA EvaluateFires ==
  ASSUME ThrInv, rules # {}, NEW S \in SUBSET Guests, NEW gap \in 1..2, Evaluate(S, gap)
  PROVE  (FiredIsTrue /\ FiredIsAll)'
<1>1. rules' = rules /\ fired' = UNION {Judged(history', clk', r, S) : r \in rules}
  BY DEF Evaluate
<1>2. \A r \in rules : r.window \in Nat
  BY ThresholdsAssumption DEF ThrInv, ThrTypes
<1>3. FiredIsTrue'
  <2> SUFFICES ASSUME NEW r \in rules, NEW f \in Judged(history', clk', r, S)
               PROVE  /\ ReferenceFires(f.rule, f.vm)' /\ f.span = clk' - ledger'[ReferenceBase(f.rule)'].at
                      /\ f.delta = ledger'[LastEval'].vms[f.vm].n - ledger'[ReferenceBase(f.rule)'].vms[f.vm].n
                      /\ f.rule.window \in Nat
    BY <1>1 DEF FiredIsTrue
  <2> DEFINE b == BaseAt(history', clk', r.window)
  <2>1. b # 0
    BY DEF Judged
  <2>2. PICK v \in S \cap DOMAIN history'[b].vms :
          /\ Sayable(r, history'[b].vms[v], Snap(S)[v])
          /\ Crossed(r, Grown(history'[b].vms[v], Snap(S)[v]), clk' - history'[b].at)
          /\ f = [rule |-> r, vm |-> v, delta |-> Grown(history'[b].vms[v], Snap(S)[v]), span |-> clk' - history'[b].at]
    BY <2>1, Zenon DEF Judged
  <2>3. /\ f.rule = r /\ f.vm = v /\ f.delta = Grown(history'[b].vms[v], Snap(S)[v])
        /\ f.span = clk' - history'[b].at
    BY <2>2
  <2>4. /\ ReferenceBase(r)' = Cut' + b /\ ledger'[Cut' + b].at = history'[b].at
        /\ ReferenceFires(r, v)'
        /\ Grown(history'[b].vms[v], Snap(S)[v])
             = ledger'[LastEval'].vms[v].n - ledger'[ReferenceBase(r)'].vms[v].n
    BY <2>1, <2>2, JudgedIsReference, Zenon
  <2> HIDE DEF b
  <2>5. ReferenceFires(f.rule, f.vm)'
    BY <2>3, <2>4
  <2> QED BY <1>2, <2>3, <2>4, <2>5
<1>4. FiredIsAll'
  <2> SUFFICES ASSUME NEW r \in rules, NEW v \in Guests, ReferenceFires(r, v)',
                      inForce'[r] <= ledger'[ReferenceBase(r)'].at
               PROVE  \E f \in fired' : f.rule = r /\ f.vm = v
    BY <1>1 DEF FiredIsAll
  <2> DEFINE b == BaseAt(history', clk', r.window)
             f == [rule |-> r, vm |-> v, delta |-> Grown(history'[b].vms[v], Snap(S)[v]), span |-> clk' - history'[b].at]
  <2>1. ReferenceBase(r)' # 0
    BY DEF ReferenceFires
  <2>2. b # 0
    BY <2>1, BaseWasKept
  <2>3. /\ v \in S \cap DOMAIN history'[b].vms
        /\ Sayable(r, history'[b].vms[v], Snap(S)[v])
        /\ Crossed(r, Grown(history'[b].vms[v], Snap(S)[v]), clk' - history'[b].at)
    BY <2>2, JudgedIsReference, Zenon
  <2>4. f \in Judged(history', clk', r, S)
    BY <2>2, <2>3, Zenon DEF Judged
  <2>5. f.rule = r /\ f.vm = v
    OBVIOUS
  <2> HIDE DEF f
  <2> QED BY <1>1, <2>4, <2>5
<1> QED BY <1>3, <1>4

\* Without rules there is nothing to judge, and nothing is kept.
LEMMA EvaluateForgets ==
  ASSUME ThrInv, rules = {}, NEW S \in SUBSET Guests, NEW gap \in 1..2, Evaluate(S, gap)
  PROVE  ThrInv'
<1> USE ThresholdsAssumption
<1>1. /\ history' = <<>> /\ ledger' = <<>> /\ fired' = {} /\ clk' = clk + gap /\ clk' <= MaxClk
      /\ UNCHANGED <<upsets, rules, counter, program, real, inForce>>
  BY DEF Evaluate
<1>2. Len(history') = 0 /\ Len(ledger') = 0 /\ history' \in Seq(Snaps) /\ ledger' \in Seq(Evals)
  BY <1>1, EmptySeq
<1>3. ThrTypes'
  BY <1>1, <1>2 DEF ThrInv, ThrTypes
<1>4. (IsTheEnd /\ InTime /\ NoGain /\ WithinWindow /\ CutIsSpare)'
  BY <1>2 DEF IsTheEnd, InTime, NoGain, WithinWindow, CutIsSpare, Cut
<1>5. (FiredIsTrue /\ FiredIsAll)'
  BY <1>1 DEF FiredIsTrue, FiredIsAll
<1> QED BY <1>3, <1>4, <1>5 DEF ThrInv

LEMMA ThrNextInv == ThrInv /\ [ThrNext]_thrVars => ThrInv'
<1> SUFFICES ASSUME ThrInv, [ThrNext]_thrVars PROVE ThrInv'
  OBVIOUS
<1>1. CASE UNCHANGED thrVars
  <2>1. UNCHANGED <<clk, upsets, rules, counter, program, history, fired, real, ledger, inForce>>
    BY <1>1 DEF thrVars
  <2>2. \A v \in Guests : counter[v] \in Nat /\ real[v] \in Nat
    BY ThresholdsAssumption DEF ThrInv, ThrTypes
  <2> QED BY <2>1, <2>2, EventsInv DEF ThrInv, ThrTypes
<1>2. ASSUME NEW v \in Guests, Happens(v) \/ ProgramChanges(v) \/ \E n \in 0..MaxEvents : Falls(v, n)
      PROVE  ThrInv'
  BY <1>2, HappensInv
<1>3. ASSUME NEW R \in RuleSets, ReloadRules(R) PROVE ThrInv'
  BY <1>3, ReloadInv
<1>4. ASSUME NEW S \in SUBSET Guests, NEW gap \in 1..2, Evaluate(S, gap) PROVE ThrInv'
  <2>1. CASE rules = {}
    BY <1>4, <2>1, EvaluateForgets
  <2>2. CASE rules # {}
    BY <1>4, <2>2, EvaluateKeeps, EvaluateFires DEF ThrInv
  <2> QED BY <2>1, <2>2
<1> QED BY <1>1, <1>2, <1>3, <1>4 DEF ThrNext

\* For every set of rules and every order of events, falling counters, programs that go off and on, missed VMs,
\* uneven refreshes and reloads: a rule that fires tells the truth, cutting the history loses no judgement of a
\* rule that has been in force for its window, and the history stays within the longest window.
THEOREM RulesTellTheTruth == ThrSpec => []ThresholdsAreTrue
<1>1. ThrSpec => []ThrInv
  BY ThrInitInv, ThrNextInv, PTL DEF ThrSpec
<1>2. ThrInv => ThresholdsAreTrue
  <2> SUFFICES ASSUME ThrInv PROVE ThresholdsAreTrue
    OBVIOUS
  <2> USE ThresholdsAssumption
  <2>1. ThrTypeOK
    <3>1. /\ clk \in 0..MaxClk /\ upsets \in 0..MaxUpsets /\ rules \in RuleSets /\ DOMAIN inForce = rules
          /\ \A v \in Guests : counter[v] \in 0..real[v] /\ real[v] \in 0..MaxEvents /\ program[v] \in BOOLEAN
      BY DEF ThrInv, ThrTypes
    <3>2. \A i \in 1..Len(history), j \in 1..Len(history) : i <= j => j - i <= history[j].at - history[i].at
      <4> SUFFICES ASSUME NEW i \in 1..Len(history), NEW j \in 1..Len(history), i <= j
                   PROVE  j - i <= history[j].at - history[i].at
        OBVIOUS
      <4>1. Cut + i \in 1..Len(ledger) /\ Cut + j \in 1..Len(ledger) /\ Cut + i <= Cut + j /\ Cut \in Nat
        BY RecordFacts
      <4>2. (Cut + j) - (Cut + i) <= ledger[Cut + j].at - ledger[Cut + i].at
        BY <4>1 DEF ThrInv, InTime
      <4>3. history[i].at = ledger[Cut + i].at /\ history[j].at = ledger[Cut + j].at
        BY RecordFacts
      <4> QED BY <4>1, <4>2, <4>3
    <3>3. \A i \in 1..Len(history) : /\ history[i].at \in 0..clk
                                     /\ DOMAIN history[i].vms \subseteq Guests
                                     /\ i > 1 => history[i - 1].at < history[i].at
      <4> SUFFICES ASSUME NEW i \in 1..Len(history), i > 1 PROVE history[i - 1].at < history[i].at
        BY RecordFacts
      <4>1. i - 1 \in 1..Len(history) /\ i - 1 <= i /\ i - (i - 1) = 1
        OBVIOUS
      <4>2. 1 <= history[i].at - history[i - 1].at
        BY <3>2, <4>1
      <4>3. history[i].at \in Nat /\ history[i - 1].at \in Nat
        <5>1. \A k \in 1..Len(history) : history[k].at \in 0..clk
          BY RecordFacts
        <5>2. history[i].at \in 0..clk /\ history[i - 1].at \in 0..clk
          BY <4>1, <5>1, Zenon
        <5> QED BY <5>2
      <4> QED BY <4>2, <4>3
    <3>4. Len(history) <= LongestWindow + 1
      <4>1. Len(history) \in Nat
        BY RecordFacts
      <4>2. CASE Len(history) >= 2
        <5>1. 2 \in 1..Len(history) /\ Len(history) \in 1..Len(history) /\ 2 \in 2..Len(history)
          BY <4>1, <4>2
        <5>2. Len(history) - 2 <= history[Len(history)].at - history[2].at
          BY <3>2, <4>2, <5>1
        <5>3. history[2].at > clk - LongestWindow
          BY <5>1 DEF ThrInv, WithinWindow
        <5>4. history[Len(history)].at \in 0..clk /\ history[2].at \in 0..clk
          BY <3>3, <5>1
        <5>5. clk \in Nat
          BY <3>1
        <5> QED BY SMTT(30), <4>1, <5>2, <5>3, <5>4, <5>5
      <4> QED BY <4>1, <4>2
    <3> QED BY <3>1, <3>3, <3>4 DEF ThrTypeOK
  <2>2. NothingMissed
    BY DEF ThrInv, FiredIsTrue, FiredIsAll, NothingMissed
  <2>3. FiredIsReal
    <3> SUFFICES ASSUME NEW f \in fired
                 PROVE  \E i \in 1..LastEval :
                          /\ ledger[i].at = ledger[LastEval].at - f.span /\ f.span >= f.rule.window
                          /\ f.vm \in DOMAIN ledger[i].vms \cap DOMAIN ledger[LastEval].vms
                          /\ f.delta <= ledger[LastEval].vms[f.vm].real - ledger[i].vms[f.vm].real
                          /\ f.rule.needsProgram => ledger[i].vms[f.vm].on /\ ledger[LastEval].vms[f.vm].on
      BY DEF FiredIsReal
    <3> DEFINE b == ReferenceBase(f.rule)
    <3>1. /\ ReferenceFires(f.rule, f.vm) /\ f.span = clk - ledger[b].at
          /\ f.delta = ledger[LastEval].vms[f.vm].n - ledger[b].vms[f.vm].n /\ f.rule.window \in Nat
      BY DEF ThrInv, FiredIsTrue
    <3>2. /\ b # 0 /\ f.vm \in DOMAIN ledger[b].vms /\ f.vm \in DOMAIN ledger[LastEval].vms
          /\ f.rule.needsProgram => ledger[b].vms[f.vm].on /\ ledger[LastEval].vms[f.vm].on
      BY <3>1, Zenon DEF ReferenceFires
    <3>3. /\ b \in 1..LastEval /\ LastEval \in Nat /\ LastEval > 0 /\ ledger[LastEval].at = clk
          /\ ledger[b].at <= clk - f.rule.window
      <4>1. b = BaseAt(ledger, ledger[LastEval].at, f.rule.window) /\ LastEval \in Nat
        BY RecordFacts DEF ReferenceBase, BaseAt, LastEval
      <4>2. b \in 1..LastEval /\ ledger[b].at <= ledger[LastEval].at - f.rule.window
        <5> HIDE DEF b
        <5> QED BY <3>2, <4>1, BaseIs DEF LastEval
      <4> QED BY <4>1, <4>2 DEF ThrInv, InTime, LastEval
    <3> HIDE DEF b
    <3>4. /\ LastEval \in 1..LastEval /\ LastEval \in b..LastEval
          /\ ledger[b].at \in Nat /\ clk \in Nat
          /\ ledger[b].vms[f.vm].n \in Nat /\ ledger[b].vms[f.vm].real \in Nat
          /\ ledger[LastEval].vms[f.vm].n \in Nat /\ ledger[LastEval].vms[f.vm].real \in Nat
      <4>1. LastEval \in 1..LastEval /\ LastEval \in b..LastEval
        BY <3>3
      <4>2. clk \in Nat
        BY DEF ThrInv, ThrTypes
      <4>3. \A i \in 1..LastEval :
              /\ ledger[i].at \in 0..clk
              /\ \A v \in DOMAIN ledger[i].vms : ledger[i].vms[v].n \in Nat /\ ledger[i].vms[v].real \in Nat
        BY RecordFacts DEF LastEval
      <4> QED BY <3>2, <3>3, <4>1, <4>2, <4>3
    <3>5. ledger[LastEval].vms[f.vm].n - ledger[LastEval].vms[f.vm].real
            <= ledger[b].vms[f.vm].n - ledger[b].vms[f.vm].real
      BY <3>2, <3>3, <3>4 DEF ThrInv, NoGain, LastEval
    <3>6. f.delta <= ledger[LastEval].vms[f.vm].real - ledger[b].vms[f.vm].real
      BY <3>1, <3>4, <3>5
    <3>7. ledger[b].at = ledger[LastEval].at - f.span /\ f.span >= f.rule.window
      BY <3>1, <3>3, <3>4
    <3> QED BY <3>2, <3>3, <3>6, <3>7, Zenon
  <2> QED BY <2>1, <2>2, <2>3 DEF ThresholdsAreTrue
<1> QED BY <1>1, <1>2, PTL

-----------------------------------------------------------------------------
(* History.                                                                *)

\* A reading of the counters, and of what the threads had really done by then.
Counts == UNION {[S -> Nat] : S \in SUBSET Tids}
Works == [Tids -> Nat]
Snapped == [at : Nat \ {0}, threads : Counts, work : Works]
Line == [at : Nat \ {0}, total : Nat, vcpus : Counts, work : Works, ok : BOOLEAN]

\* From an earlier reading to a later one no thread is said to have done more than it did.
NoMore(old, oldWork, new, newWork) ==
  /\ \A t \in Tids : oldWork[t] <= newWork[t]
  /\ \A t \in DOMAIN old \cap DOMAIN new : sub(new[t], old[t]) <= newWork[t] - oldWork[t]

WorldTypes ==
  /\ setup \in Setups /\ clock \in 1..setup.clock /\ churn \in 0..setup.churn
  /\ alive \subseteq Tids /\ kern \in Counts /\ work \in [Tids -> 0..MaxWork]
  /\ \A t \in DOMAIN kern : kern[t] <= work[t]
  /\ scan \in [found : BOOLEAN, threads : SUBSET Tids]
  /\ sample \in [by : Counts, work : Works]
  /\ steady \in 0..clock /\ lastRoll \in 0..clock

\* Every snapshot is one of the past, and neither the kernel's counters nor the sample overcount from it.
SnapsTrue ==
  /\ snaps \in Seq(Snapped)
  /\ \A i \in 1..Len(snaps) :
       /\ snaps[i].at <= clock
       /\ NoMore(snaps[i].threads, snaps[i].work, kern, work)
       /\ NoMore(snaps[i].threads, snaps[i].work, sample.by, sample.work)
  /\ \A i, j \in 1..Len(snaps) : i < j => snaps[i].at < snaps[j].at

\* The oldest snapshot reaches back to the steady time or over the longest window, and between two snapshots
\* of the steady time there is never more than what trimming leaves over.
ReachesBack ==
  /\ steady > 0 => /\ Len(snaps) > 0
                   /\ snaps[1].at <= steady \/ snaps[1].at <= snaps[Len(snaps)].at - MaxWindow
  /\ \A i \in 2..Len(snaps) :
       snaps[i].at - snaps[i - 1].at <= SnapKeep - MaxWindow \/ snaps[i].at <= steady

\* The lines of one file after the other, each a reading that none after it overcounts from.
FileTrue(lines) ==
  /\ lines \in Seq(Line) /\ Len(lines) <= RollMax
  /\ \A i \in 1..Len(lines) : lines[i].at <= clock /\ NoMore(lines[i].vcpus, lines[i].work, kern, work)
  /\ \A i, j \in 1..Len(lines) : i < j => NoMore(lines[i].vcpus, lines[i].work, lines[j].vcpus, lines[j].work)
RollsTrue ==
  /\ rolls = [old |-> rolls.old, cur |-> rolls.cur]
  /\ FileTrue(rolls.old) /\ FileTrue(rolls.cur)
  /\ \A i \in 1..Len(rolls.old), j \in 1..Len(rolls.cur) :
       NoMore(rolls.old[i].vcpus, rolls.old[i].work, rolls.cur[j].vcpus, rolls.cur[j].work)

\* The inductive invariant.
HistInv == WorldTypes /\ SnapsTrue /\ ReachesBack /\ RollsTrue

-----------------------------------------------------------------------------
(* The operators.                                                          *)

LEMMA CountsAre ==
  ASSUME NEW c
  PROVE  /\ c \in Counts => DOMAIN c \subseteq Tids /\ \A t \in DOMAIN c : c[t] \in Nat
         /\ c = [t \in DOMAIN c |-> c[t]] /\ DOMAIN c \subseteq Tids /\ (\A t \in DOMAIN c : c[t] \in Nat) => c \in Counts
<1>1. c \in Counts => DOMAIN c \subseteq Tids /\ \A t \in DOMAIN c : c[t] \in Nat
  <2> SUFFICES ASSUME c \in Counts PROVE DOMAIN c \subseteq Tids /\ \A t \in DOMAIN c : c[t] \in Nat
    OBVIOUS
  <2>1. PICK S \in SUBSET Tids : c \in [S -> Nat]
    BY DEF Counts
  <2> QED BY <2>1
<1>2. ASSUME c = [t \in DOMAIN c |-> c[t]], DOMAIN c \subseteq Tids, \A t \in DOMAIN c : c[t] \in Nat
      PROVE  c \in Counts
  <2>1. c \in [DOMAIN c -> Nat]
    BY <1>2
  <2> QED BY <1>2, <2>1 DEF Counts
<1> QED BY <1>1, <1>2

LEMMA RestrictedIs ==
  ASSUME NEW c \in Counts, NEW S
  PROVE  /\ Restricted(c, S) \in Counts /\ DOMAIN Restricted(c, S) = DOMAIN c \cap S
         /\ \A t \in DOMAIN c \cap S : Restricted(c, S)[t] = c[t]
<1>1. DOMAIN Restricted(c, S) = DOMAIN c \cap S /\ \A t \in DOMAIN c \cap S : Restricted(c, S)[t] = c[t]
  BY DEF Restricted
<1>2. Restricted(c, S) = [t \in DOMAIN Restricted(c, S) |-> Restricted(c, S)[t]]
  BY DEF Restricted
<1>3. DOMAIN c \subseteq Tids /\ \A t \in DOMAIN c : c[t] \in Nat
  BY CountsAre
<1>4. DOMAIN Restricted(c, S) \subseteq Tids /\ \A t \in DOMAIN Restricted(c, S) : Restricted(c, S)[t] \in Nat
  BY <1>1, <1>3
<1> HIDE DEF Restricted
<1> QED BY <1>1, <1>2, <1>4, CountsAre

LEMMA NoThreadsIs == NoThreads \in Counts /\ DOMAIN NoThreads = {}
<1>1. DOMAIN NoThreads = {} /\ NoThreads = [t \in DOMAIN NoThreads |-> NoThreads[t]]
  BY DEF NoThreads
<1> QED BY <1>1, CountsAre

\* What a snapshot or a line holds of a reading is part of it.
LEMMA SeenIs ==
  ASSUME NEW c \in Counts
  PROVE  /\ Seen(c) \in Counts /\ DOMAIN Seen(c) \subseteq DOMAIN c
         /\ \A t \in DOMAIN Seen(c) : Seen(c)[t] = c[t]
<1>1. CASE scan.found
  <2>1. Seen(c) = Restricted(c, scan.threads)
    BY <1>1 DEF Seen
  <2>2. /\ Restricted(c, scan.threads) \in Counts /\ DOMAIN Restricted(c, scan.threads) \subseteq DOMAIN c
        /\ \A t \in DOMAIN Restricted(c, scan.threads) : Restricted(c, scan.threads)[t] = c[t]
    <3>1. PICK S : S = scan.threads
      OBVIOUS
    <3>2. /\ Restricted(c, S) \in Counts /\ DOMAIN Restricted(c, S) = DOMAIN c \cap S
          /\ \A t \in DOMAIN c \cap S : Restricted(c, S)[t] = c[t]
      BY RestrictedIs
    <3> QED BY <3>1, <3>2
  <2> QED BY <2>1, <2>2
<1>2. CASE ~scan.found
  <2>1. Seen(c) = NoThreads
    BY <1>2 DEF Seen
  <2> QED BY <2>1, NoThreadsIs
<1> QED BY <1>1, <1>2

\* The total of finitely many counts is a number, and none of them is more than it.
LEMMA TotalIs ==
  ASSUME NEW c \in Counts
  PROVE  Total(c) \in Nat /\ \A t \in DOMAIN c : c[t] <= Total(c)
<1> DEFINE Of(t) == {t} \X (1..c[t])
           All == {Of(t) : t \in DOMAIN c}
<1>1. DOMAIN c \subseteq Tids /\ \A t \in DOMAIN c : c[t] \in Nat
  BY CountsAre
<1>2. \A t \in DOMAIN c : IsFiniteSet(Of(t)) /\ Cardinality(Of(t)) = c[t]
  <2> SUFFICES ASSUME NEW t \in DOMAIN c PROVE IsFiniteSet(Of(t)) /\ Cardinality(Of(t)) = c[t]
    OBVIOUS
  <2>1. IsFiniteSet({t}) /\ Cardinality({t}) = 1
    BY FS_Singleton
  <2>2. IsFiniteSet(1..c[t]) /\ Cardinality(1..c[t]) = c[t]
    BY <1>1, FS_Interval
  <2>3. IsFiniteSet(Of(t)) /\ Cardinality(Of(t)) = 1 * c[t]
    <3>1. PICK A, B : A = {t} /\ B = 1..c[t]
      OBVIOUS
    <3>2. IsFiniteSet(A) /\ IsFiniteSet(B) /\ Cardinality(A) = 1 /\ Cardinality(B) = c[t]
      BY <2>1, <2>2, <3>1, Zenon
    <3>3. IsFiniteSet(A \X B) /\ Cardinality(A \X B) = Cardinality(A) * Cardinality(B)
      BY <3>2, FS_Product
    <3> QED BY <3>1, <3>2, <3>3, Zenon
  <2>4. c[t] \in Nat
    BY <1>1
  <2> QED BY <2>3, <2>4
<1>3. IsFiniteSet(DOMAIN c)
  BY <1>1, HistoryAssumption, FS_Subset
<1>4. IsFiniteSet(All)
  <2> HIDE DEF Of
  <2>1. [t \in DOMAIN c |-> Of(t)] \in Surjection(DOMAIN c, All)
    BY DEF Surjection
  <2> HIDE DEF All
  <2> QED BY <1>3, <2>1, FS_Surjection
<1>5. IsFiniteSet(UNION All)
  <2>1. \A T \in All : IsFiniteSet(T)
    BY <1>2
  <2> HIDE DEF All
  <2> QED BY <1>4, <2>1, FS_UNION
<1>6. Total(c) = Cardinality(UNION All)
  BY DEF Total
<1>7. ASSUME NEW t \in DOMAIN c PROVE c[t] <= Total(c)
  <2>1. Of(t) \subseteq UNION All
    <3> HIDE DEF Of
    <3> QED OBVIOUS
  <2> HIDE DEF Of, All
  <2> QED BY <1>2, <1>5, <1>6, <2>1, FS_Subset
<1> QED BY <1>5, <1>6, <1>7, FS_CardinalityType

\* A set of positive numbers has a smallest one.
LEMMA Smallest ==
  ASSUME NEW S \in SUBSET Nat, S # {}
  PROVE  Min(S) \in S /\ \A j \in S : Min(S) <= j
<1>1. \E m \in S : \A k \in S : ~(<<k, m>> \in OpToRel(<, Nat))
  BY NatLessThanWellFounded, WFMin
<1>2. PICK m \in S : \A k \in S : ~(k < m)
  BY <1>1 DEF OpToRel
<1>3. \E i \in S : \A j \in S : i <= j
  BY <1>2
<1> QED BY <1>3 DEF Min

\* What NewestBy returns.
LEMMA NewestIs ==
  ASSUME NEW s, NEW n \in Nat, NEW at
  PROVE  LET b == NewestBy(s, n, at)
         IN  \/ b = 0 /\ \A i \in 1..n : ~(s[i].at <= at)
             \/ b \in 1..n /\ s[b].at <= at /\ \A i \in 1..n : s[i].at <= at => i <= b
<1> DEFINE old == {i \in 1..n : s[i].at <= at}
<1>1. CASE old = {}
  <2>1. NewestBy(s, n, at) = 0
    BY <1>1 DEF NewestBy
  <2> QED BY <1>1, <2>1
<1>2. CASE old # {}
  <2>1. old \in SUBSET (0..n)
    OBVIOUS
  <2>2. \E i \in old : \A j \in old : j <= i
    <3> HIDE DEF old
    <3> QED BY <1>2, <2>1, Greatest
  <2>3. NewestBy(s, n, at) = Max(old)
    BY <1>2 DEF NewestBy
  <2>4. Max(old) \in old /\ \A j \in old : j <= Max(old)
    <3> HIDE DEF old
    <3>1. \E i \in old : \A j \in old : i >= j
      BY <2>1, <2>2
    <3> QED BY <2>1, <3>1 DEF Max
  <2> QED BY <2>3, <2>4
<1> QED BY <1>1, <1>2

\* Trimming takes from the front, and the last one taken was too old.
LEMMA TrimmedIs ==
  ASSUME NEW s \in Seq(Snapped), Len(s) > 0
  PROVE  \E m \in 1..Len(s) : /\ Trimmed(s) = SubSeq(s, m, Len(s))
                              /\ m > 1 => ~(clock - s[m - 1].at <= SnapKeep)
<1> DEFINE young == {i \in DOMAIN s : i = Len(s) \/ clock - s[i].at <= SnapKeep}
<1>1. DOMAIN s = 1..Len(s) /\ Len(s) \in Nat
  OBVIOUS
<1>2. young \in SUBSET Nat /\ Len(s) \in young
  BY <1>1
<1>3. Min(young) \in young /\ \A j \in young : Min(young) <= j
  <2> HIDE DEF young
  <2> QED BY <1>2, Smallest
<1>4. Trimmed(s) = SubSeq(s, Min(young), Len(s))
  BY DEF Trimmed
<1>5. Min(young) \in 1..Len(s)
  BY <1>1, <1>3
<1>6. ASSUME Min(young) > 1 PROVE ~(clock - s[Min(young) - 1].at <= SnapKeep)
  <2>1. Min(young) - 1 \in 1..Len(s) /\ ~(Min(young) <= Min(young) - 1)
    BY <1>5, <1>6
  <2>2. Min(young) - 1 \notin young
    BY <1>3, <2>1
  <2> QED BY <1>1, <2>1, <2>2
<1> HIDE DEF young
<1> QED BY <1>4, <1>5, <1>6

\* A file is read up to its first torn line.
LEMMA ReadableIs ==
  ASSUME NEW s \in Seq(Line)
  PROVE  /\ Readable(s) \in Seq(Line) /\ Len(Readable(s)) \in 0..Len(s)
         /\ \A i \in 1..Len(Readable(s)) : Readable(s)[i] = s[i] /\ s[i].ok
         /\ Len(Readable(s)) < Len(s) => ~s[Len(Readable(s)) + 1].ok
<1> DEFINE bad == {i \in DOMAIN s : ~s[i].ok}
<1>1. DOMAIN s = 1..Len(s) /\ Len(s) \in Nat
  OBVIOUS
<1>2. CASE bad = {}
  <2>1. Readable(s) = s
    BY <1>2 DEF Readable
  <2> QED BY <1>1, <1>2, <2>1
<1>3. CASE bad # {}
  <2>1. Readable(s) = SubSeq(s, 1, Min(bad) - 1)
    BY <1>3 DEF Readable
  <2>2. Min(bad) \in bad /\ \A j \in bad : Min(bad) <= j
    <3>1. bad \in SUBSET Nat
      BY <1>1
    <3> HIDE DEF bad
    <3> QED BY <1>3, <3>1, Smallest
  <2>3. Min(bad) \in 1..Len(s) /\ ~s[Min(bad)].ok
    BY <1>1, <2>2
  <2>4. \A i \in 1..(Min(bad) - 1) : i \in 1..Len(s) /\ s[i].ok
    <3> SUFFICES ASSUME NEW i \in 1..(Min(bad) - 1) PROVE i \in 1..Len(s) /\ s[i].ok
      OBVIOUS
    <3>1. i \in 1..Len(s) /\ ~(Min(bad) <= i)
      BY <2>3
    <3>2. i \notin bad
      BY <2>2, <3>1
    <3> QED BY <1>1, <3>1, <3>2
  <2> HIDE DEF bad
  <2>5. /\ SubSeq(s, 1, Min(bad) - 1) \in Seq(Line) /\ Len(SubSeq(s, 1, Min(bad) - 1)) = Min(bad) - 1
        /\ \A i \in 1..(Min(bad) - 1) : SubSeq(s, 1, Min(bad) - 1)[i] = s[i]
    <3>1. \A i \in 1..(Min(bad) - 1) : s[i] \in Line
      BY <1>1, <2>3
    <3>2. 1 \in Int /\ Min(bad) - 1 \in Int
      BY <2>3
    <3>3. /\ SubSeq(s, 1, Min(bad) - 1) \in Seq(Line)
          /\ Len(SubSeq(s, 1, Min(bad) - 1)) = IF 1 <= Min(bad) - 1 THEN Min(bad) - 1 - 1 + 1 ELSE 0
          /\ \A i \in 1..(Min(bad) - 1 - 1 + 1) : SubSeq(s, 1, Min(bad) - 1)[i] = s[1 + i - 1]
      BY <3>1, <3>2, SubSeqProperties
    <3> QED BY <2>3, <3>3
  <2>6. Len(Readable(s)) = Min(bad) - 1 /\ Min(bad) - 1 + 1 = Min(bad)
    BY <2>1, <2>3, <2>5
  <2>7. Readable(s) \in Seq(Line) /\ \A i \in 1..(Min(bad) - 1) : Readable(s)[i] = s[i] /\ s[i].ok
    BY <2>1, <2>4, <2>5
  <2> QED BY <1>1, <2>3, <2>6, <2>7
<1> QED BY <1>2, <1>3

-----------------------------------------------------------------------------
(* The invariant.                                                          *)

LEMMA HistInitInv == HistInit => HistInv
<1> SUFFICES ASSUME HistInit PROVE HistInv
  OBVIOUS
<1> USE HistoryAssumption DEF HistInit
<1>1. NoSample \in [by : Counts, work : Works] /\ NotScanned \in [found : BOOLEAN, threads : SUBSET Tids]
  BY NoThreadsIs DEF NoSample, NotScanned, Works
<1>2. WorldTypes
  BY <1>1, NoThreadsIs DEF WorldTypes
<1>3. snaps \in Seq(Snapped) /\ Len(snaps) = 0
  OBVIOUS
<1>4. SnapsTrue
  BY <1>3 DEF SnapsTrue
<1>5. ReachesBack
  BY <1>3 DEF ReachesBack
<1>6. FileTrue(<<>>)
  <2>1. <<>> \in Seq(Line) /\ Len(<<>>) = 0
    OBVIOUS
  <2> QED BY <2>1 DEF FileTrue
<1>7. RollsTrue
  BY <1>6 DEF RollsTrue
<1> QED BY <1>2, <1>4, <1>5, <1>7 DEF HistInv

\* What the threads and the maps do never makes a reading overcount.
OverAllReadings ==
  \A o \in Counts, ow \in Works : NoMore(o, ow, kern, work) => NoMore(o, ow, kern', work')

\* Counters that are lost do not.
LEMMA LosingCounts ==
  ASSUME kern \in Counts, work' = work, kern' \in Counts, DOMAIN kern' \subseteq DOMAIN kern,
         \A t \in DOMAIN kern' : kern'[t] = kern[t]
  PROVE  OverAllReadings
  BY DEF OverAllReadings, NoMore

\* A thread that works does not, also when its entry is a new one.
LEMMA WorkingCounts ==
  ASSUME NEW t \in Tids, WorldTypes, Work(t)
  PROVE  /\ OverAllReadings /\ kern' \in Counts /\ work' \in [Tids -> 0..MaxWork]
         /\ \A u \in DOMAIN kern' : kern'[u] <= work'[u]
<1> USE DEF WorldTypes
<1>1. DOMAIN kern \subseteq Tids /\ \A u \in DOMAIN kern : kern[u] \in Nat
  BY CountsAre
<1>2. MaxWork \in Nat /\ \A u \in Tids : work[u] \in Nat
  BY HistoryAssumption
<1>3. /\ kern' = [u \in DOMAIN kern \cup {t} |-> At(kern, u) + (IF u = t THEN 1 ELSE 0)]
      /\ work' = [work EXCEPT ![t] = @ + 1]
  BY DEF Work
<1>4. DOMAIN kern' = DOMAIN kern \cup {t} /\ kern' = [u \in DOMAIN kern' |-> kern'[u]]
  BY <1>3
<1>5. \A u \in DOMAIN kern' : u # t => u \in DOMAIN kern /\ kern'[u] = kern[u]
  <2> SUFFICES ASSUME NEW u \in DOMAIN kern', u # t PROVE u \in DOMAIN kern /\ kern'[u] = kern[u]
    OBVIOUS
  <2>1. u \in DOMAIN kern /\ kern'[u] = At(kern, u) + 0 /\ At(kern, u) = kern[u]
    BY <1>3, <1>4 DEF At
  <2> QED BY <1>1, <2>1
<1>6. kern'[t] = At(kern, t) + 1
  BY <1>3
<1>7. /\ t \in DOMAIN kern => kern'[t] = kern[t] + 1
      /\ t \notin DOMAIN kern => kern'[t] = 1
  BY <1>6 DEF At
<1>8. kern' \in Counts
  <2>1. \A u \in DOMAIN kern' : kern'[u] \in Nat
    BY <1>1, <1>4, <1>5, <1>7
  <2>2. DOMAIN kern' \subseteq Tids
    BY <1>1, <1>4
  <2> QED BY <1>4, <2>1, <2>2, CountsAre
<1>9. work[t] < MaxWork
  <2>1. work \in Counts /\ DOMAIN work = Tids
    BY CountsAre
  <2>2. Total(work) \in Nat /\ work[t] <= Total(work)
    BY <2>1, TotalIs
  <2>3. Total(work) < MaxWork
    BY DEF Work
  <2> QED BY <1>2, <2>2, <2>3
<1>10. work' \in [Tids -> 0..MaxWork] /\ work'[t] = work[t] + 1 /\ \A u \in Tids : u # t => work'[u] = work[u]
  BY <1>2, <1>3, <1>9
<1>11. \A u \in DOMAIN kern' : kern'[u] <= work'[u]
  <2> SUFFICES ASSUME NEW u \in DOMAIN kern' PROVE kern'[u] <= work'[u]
    OBVIOUS
  <2>1. CASE u = t
    BY <1>1, <1>2, <1>7, <1>10, <2>1
  <2>2. CASE u # t
    BY <1>1, <1>5, <1>10, <2>2
  <2> QED BY <2>1, <2>2
<1>12. OverAllReadings
  <2> SUFFICES ASSUME NEW o \in Counts, NEW ow \in Works, NoMore(o, ow, kern, work)
               PROVE  NoMore(o, ow, kern', work')
    BY DEF OverAllReadings
  <2>1. DOMAIN o \subseteq Tids /\ \A u \in DOMAIN o : o[u] \in Nat
    BY CountsAre
  <2>2. \A u \in Tids : ow[u] \in Nat /\ ow[u] <= work[u]
    BY DEF NoMore, Works
  <2>3. \A u \in Tids : ow[u] <= work'[u]
    <3> SUFFICES ASSUME NEW u \in Tids PROVE ow[u] <= work'[u]
      OBVIOUS
    <3> QED BY <1>2, <1>10, <2>2
  <2>4. ASSUME NEW u \in DOMAIN o \cap DOMAIN kern' PROVE sub(kern'[u], o[u]) <= work'[u] - ow[u]
    <3>1. CASE u # t
      <4>1. u \in DOMAIN kern /\ kern'[u] = kern[u] /\ work'[u] = work[u]
        BY <1>5, <1>10, <2>1, <3>1
      <4> QED BY <2>4, <4>1 DEF NoMore
    <3>2. CASE u = t /\ t \in DOMAIN kern
      <4>1. sub(kern[t], o[t]) <= work[t] - ow[t]
        BY <2>4, <3>2 DEF NoMore
      <4>2. kern[t] \in Nat /\ o[t] \in Nat /\ work[t] \in Nat /\ ow[t] \in Nat /\ ow[t] <= work[t]
        BY <1>1, <1>2, <2>1, <2>2, <2>4, <3>2
      <4>3. sub(kern[t] + 1, o[t]) <= work[t] + 1 - ow[t]
        BY <4>1, <4>2 DEF sub
      <4>4. kern'[u] = kern[t] + 1 /\ work'[u] = work[t] + 1 /\ o[u] = o[t] /\ ow[u] = ow[t]
        BY <1>7, <1>10, <3>2
      <4> QED BY <4>2, <4>3, <4>4 DEF sub
    <3>3. CASE u = t /\ t \notin DOMAIN kern
      <4>2. o[t] \in Nat /\ work[t] \in Nat /\ ow[t] \in Nat /\ ow[t] <= work[t]
        BY <1>1, <1>2, <2>1, <2>2, <2>4, <3>3
      <4>3. sub(1, o[t]) <= work[t] + 1 - ow[t]
        BY <4>2 DEF sub
      <4>4. kern'[u] = 1 /\ work'[u] = work[t] + 1 /\ o[u] = o[t] /\ ow[u] = ow[t]
        BY <1>7, <1>10, <3>3
      <4> QED BY <4>2, <4>3, <4>4 DEF sub
    <3> QED BY <3>1, <3>2, <3>3
  <2> QED BY <2>3, <2>4 DEF NoMore
<1> QED BY <1>8, <1>10, <1>11, <1>12

\* What a step of the world, of time or of the scan leaves of the invariant.
LEMMA HistFrame ==
  ASSUME HistInv, OverAllReadings, clock' >= clock, clock' \in Nat,
         UNCHANGED <<sample, snaps, steady, rolls>>
  PROVE  SnapsTrue' /\ ReachesBack' /\ RollsTrue'
<1> USE DEF HistInv
<1>1. clock \in Nat
  BY HistoryAssumption DEF WorldTypes
<1>2. SnapsTrue'
  <2>1. \A i \in 1..Len(snaps) : snaps[i] \in Snapped
    BY DEF SnapsTrue
  <2>2. \A i \in 1..Len(snaps) : snaps[i].at <= clock' /\ NoMore(snaps[i].threads, snaps[i].work, kern', work')
    <3> SUFFICES ASSUME NEW i \in 1..Len(snaps)
                 PROVE  snaps[i].at <= clock' /\ NoMore(snaps[i].threads, snaps[i].work, kern', work')
      OBVIOUS
    <3>1. snaps[i].threads \in Counts /\ snaps[i].work \in Works /\ snaps[i].at \in Nat
      BY <2>1 DEF Snapped
    <3>2. snaps[i].at <= clock /\ NoMore(snaps[i].threads, snaps[i].work, kern, work)
      BY DEF SnapsTrue
    <3> QED BY <1>1, <3>1, <3>2 DEF OverAllReadings
  <2> QED BY <2>2 DEF SnapsTrue, NoMore
<1>3. ReachesBack'
  BY DEF ReachesBack
<1>4. ASSUME NEW s, FileTrue(s) PROVE FileTrue(s)'
  <2>1. \A i \in 1..Len(s) : s[i].at <= clock' /\ NoMore(s[i].vcpus, s[i].work, kern', work')
    <3> SUFFICES ASSUME NEW i \in 1..Len(s)
                 PROVE  s[i].at <= clock' /\ NoMore(s[i].vcpus, s[i].work, kern', work')
      OBVIOUS
    <3>3. s[i] \in Line
      BY <1>4 DEF FileTrue
    <3>1. s[i].vcpus \in Counts /\ s[i].work \in Works /\ s[i].at \in Nat
      BY <3>3 DEF Line
    <3>2. s[i].at <= clock /\ NoMore(s[i].vcpus, s[i].work, kern, work)
      BY <1>4 DEF FileTrue
    <3> QED BY <1>1, <3>1, <3>2 DEF OverAllReadings
  <2> QED BY <1>4, <2>1 DEF FileTrue, NoMore
<1>5. RollsTrue'
  <2>1. FileTrue(rolls.old)' /\ FileTrue(rolls.cur)'
    BY <1>4 DEF RollsTrue
  <2> QED BY <2>1 DEF RollsTrue
<1> QED BY <1>2, <1>3, <1>5

\* A reading does not overcount from what is kept of it.
LEMMA NoMoreOfItself ==
  ASSUME HistInv
  PROVE  /\ Seen(kern) \in Counts /\ work \in Works
         /\ NoMore(Seen(kern), work, kern, work)
         /\ \A o \in Counts, ow \in Works : NoMore(o, ow, kern, work) => NoMore(o, ow, Seen(kern), work)
<1>1. kern \in Counts /\ work \in [Tids -> 0..MaxWork] /\ MaxWork \in Nat
  BY HistoryAssumption DEF HistInv, WorldTypes
<1>2. work \in Works
  BY <1>1 DEF Works
<1>3. /\ Seen(kern) \in Counts /\ DOMAIN Seen(kern) \subseteq DOMAIN kern
      /\ \A t \in DOMAIN Seen(kern) : Seen(kern)[t] = kern[t]
  BY <1>1, SeenIs
<1>4. DOMAIN kern \subseteq Tids /\ \A t \in DOMAIN kern : kern[t] \in Nat
  BY <1>1, CountsAre
<1>5. NoMore(Seen(kern), work, kern, work)
  <2>1. \A t \in Tids : work[t] \in Nat
    BY <1>2 DEF Works
  <2>2. ASSUME NEW t \in DOMAIN Seen(kern) \cap DOMAIN kern PROVE sub(kern[t], Seen(kern)[t]) <= work[t] - work[t]
    <3>1. Seen(kern)[t] = kern[t] /\ kern[t] \in Nat /\ work[t] \in Nat
      BY <1>3, <1>4, <2>1
    <3> QED BY <3>1 DEF sub
  <2> QED BY <2>1, <2>2 DEF NoMore
<1>6. ASSUME NEW o \in Counts, NEW ow \in Works, NoMore(o, ow, kern, work) PROVE NoMore(o, ow, Seen(kern), work)
  BY <1>3, <1>6 DEF NoMore
<1> QED BY <1>2, <1>3, <1>5, <1>6

\* What is left of the snapshots when the first ones are cut.
LEMMA FromTheEnd ==
  ASSUME NEW s \in Seq(Snapped), NEW m \in 1..Len(s), NEW q, q = SubSeq(s, m, Len(s))
  PROVE  /\ q \in Seq(Snapped) /\ Len(q) = Len(s) - m + 1
         /\ \A i \in 1..Len(q) : m + i - 1 \in 1..Len(s) /\ q[i] = s[m + i - 1]
<1>1. Len(s) \in Nat /\ \A i \in 1..Len(s) : s[i] \in Snapped
  OBVIOUS
<1>2. /\ SubSeq(s, m, Len(s)) \in Seq(Snapped)
      /\ Len(SubSeq(s, m, Len(s))) = IF m <= Len(s) THEN Len(s) - m + 1 ELSE 0
      /\ \A i \in 1..(Len(s) - m + 1) : SubSeq(s, m, Len(s))[i] = s[m + i - 1]
  BY <1>1, SubSeqProperties
<1> QED BY <1>1, <1>2

LEMMA RecordedInv ==
  ASSUME HistInv, Recorded(kern), UNCHANGED <<setup, clock, histWorld, scan>>, churn' \in 0..setup.churn
  PROVE  WorldTypes' /\ SnapsTrue' /\ ReachesBack'
<1> DEFINE K == SnapKeep - MaxWindow
           s == Append(snaps, Snapshot(kern))
           n == Len(snaps)
<1>1. /\ clock \in Nat /\ clock > 0 /\ steady \in 0..clock /\ lastRoll \in 0..clock
      /\ SnapKeep \in Nat /\ MaxWindow \in Nat /\ SnapEvery \in Nat /\ SnapEvery > 0 /\ K \in Int
  BY HistoryAssumption DEF HistInv, WorldTypes
<1>2. /\ Seen(kern) \in Counts /\ work \in Works /\ kern \in Counts
      /\ NoMore(Seen(kern), work, kern, work)
  BY NoMoreOfItself DEF HistInv, WorldTypes
<1>3. Snapshot(kern) \in Snapped /\ Snapshot(kern).at = clock /\ Snapshot(kern).threads = Seen(kern) /\ Snapshot(kern).work = work
  BY <1>1, <1>2 DEF Snapshot, Snapped
<1>4. /\ sample' = [by |-> kern, work |-> work]
      /\ snaps' = IF SnapDue THEN Trimmed(s) ELSE snaps
      /\ steady' = IF snaps = <<>> \/ clock - Last(snaps).at > K THEN clock ELSE steady
      /\ lastRoll' = IF RollDue THEN clock ELSE lastRoll
  BY DEF Recorded, recordLocked
<1>5. UNCHANGED <<clock, alive, kern, work>>
  BY DEF histWorld
<1>6. WorldTypes'
  <2>1. sample' \in [by : Counts, work : Works] /\ steady' \in 0..clock /\ lastRoll' \in 0..clock
    BY <1>1, <1>2, <1>4
  <2> QED BY <1>5, <2>1 DEF HistInv, WorldTypes
<1>7. /\ snaps \in Seq(Snapped) /\ n \in Nat /\ \A i \in 1..n : snaps[i] \in Snapped /\ snaps[i].at \in Nat /\ snaps[i].at <= clock
      /\ \A i \in 1..n : NoMore(snaps[i].threads, snaps[i].work, kern, work)
      /\ \A i, j \in 1..n : i < j => snaps[i].at < snaps[j].at
  <2>1. snaps \in Seq(Snapped) /\ n \in Nat
    BY DEF HistInv, SnapsTrue
  <2>2. \A i \in 1..n : snaps[i] \in Snapped
    BY <2>1
  <2>3. \A i \in 1..n : snaps[i].at \in Nat
    BY <2>2 DEF Snapped
  <2> QED BY <2>1, <2>2, <2>3 DEF HistInv, SnapsTrue
<1>8. /\ s \in Seq(Snapped) /\ Len(s) = n + 1 /\ s[n + 1] = Snapshot(kern)
      /\ \A i \in 1..n : s[i] = snaps[i]
  BY <1>3, <1>7, AppendProperties
<1>9. n > 0 => Last(snaps) = snaps[n] /\ snaps # <<>>
  BY <1>7 DEF Last
<1>10. n = 0 => snaps = <<>>
  BY <1>7
<1>11. /\ steady > 0 => n > 0 /\ (snaps[1].at <= steady \/ snaps[1].at <= snaps[n].at - MaxWindow)
       /\ \A i \in 2..n : snaps[i].at - snaps[i - 1].at <= K \/ snaps[i].at <= steady
  BY DEF HistInv, ReachesBack
<1>12. steady' \in Nat /\ steady <= steady' /\ steady' <= clock
  BY <1>1, <1>4
<1> HIDE DEF s, n
<1>13. CASE ~SnapDue
  <2>1. snaps' = snaps /\ n > 0
    BY <1>4, <1>10, <1>7, <1>13 DEF SnapDue
  <2>2. SnapsTrue'
    BY <1>4, <1>5, <1>7, <2>1 DEF SnapsTrue, NoMore, n
  <2>3. \A i \in 2..n : snaps[i].at - snaps[i - 1].at <= K \/ snaps[i].at <= steady'
    <3> SUFFICES ASSUME NEW i \in 2..n, ~(snaps[i].at - snaps[i - 1].at <= K) PROVE snaps[i].at <= steady'
      OBVIOUS
    <3>1. snaps[i].at <= steady /\ snaps[i].at \in Nat
      BY <1>7, <1>11
    <3> QED BY <1>1, <1>12, <3>1
  <2>4. steady' > 0 => snaps[1].at <= steady' \/ snaps[1].at <= snaps[n].at - MaxWindow
    <3>1. snaps[1].at \in Nat /\ snaps[1].at <= clock
      BY <1>7, <2>1
    <3>2. CASE steady' = clock
      BY <3>1, <3>2
    <3>3. CASE steady' # clock
      <4>1. steady' = steady
        BY <1>4, <3>3
      <4> QED BY <1>11, <4>1
    <3> QED BY <3>2, <3>3
  <2> QED BY <1>6, <2>1, <2>2, <2>3, <2>4 DEF ReachesBack, n
<1>14. CASE SnapDue
  <2>1. n > 0 => snaps[n].at < clock
    BY <1>1, <1>7, <1>9, <1>14 DEF SnapDue
  <2>2. \A i \in 1..(n + 1) : /\ s[i].at \in Nat /\ s[i].at <= clock
                              /\ NoMore(s[i].threads, s[i].work, kern, work)
    <3> SUFFICES ASSUME NEW i \in 1..(n + 1)
                 PROVE  s[i].at \in Nat /\ s[i].at <= clock /\ NoMore(s[i].threads, s[i].work, kern, work)
      OBVIOUS
    <3>1. CASE i = n + 1
      BY <1>1, <1>2, <1>3, <1>8, <3>1
    <3>2. CASE i # n + 1
      <4>1. i \in 1..n
        BY <1>7, <3>2
      <4> QED BY <1>7, <1>8, <4>1
    <3> QED BY <3>1, <3>2
  <2>3. \A i, j \in 1..(n + 1) : i < j => s[i].at < s[j].at
    <3> SUFFICES ASSUME NEW i \in 1..(n + 1), NEW j \in 1..(n + 1), i < j PROVE s[i].at < s[j].at
      OBVIOUS
    <3>1. i \in 1..n /\ s[i] = snaps[i] /\ n > 0
      BY <1>7, <1>8
    <3>2. CASE j = n + 1
      <4>1. snaps[i].at <= snaps[n].at /\ snaps[n].at < clock /\ snaps[i].at \in Nat /\ snaps[n].at \in Nat
        <5>1. i = n \/ (i < n /\ n \in 1..n)
          BY <1>7, <3>1
        <5> QED BY <1>7, <2>1, <3>1, <5>1
      <4>2. s[j].at = clock
        BY <1>3, <1>8, <3>2
      <4> QED BY <1>1, <3>1, <4>1, <4>2
    <3>3. CASE j # n + 1
      <4>1. j \in 1..n
        BY <1>7, <3>3
      <4> QED BY <1>7, <1>8, <3>1, <4>1
    <3> QED BY <3>2, <3>3
  <2>4. \A i \in 2..(n + 1) : s[i].at - s[i - 1].at <= K \/ s[i].at <= steady'
    <3> SUFFICES ASSUME NEW i \in 2..(n + 1) PROVE s[i].at - s[i - 1].at <= K \/ s[i].at <= steady'
      OBVIOUS
    <3>1. i - 1 \in 1..n /\ s[i - 1] = snaps[i - 1] /\ n > 0
      BY <1>7, <1>8
    <3>2. CASE i = n + 1
      <4>1. s[i].at = clock /\ i - 1 = n /\ s[i - 1].at = Last(snaps).at
        BY <1>3, <1>7, <1>8, <1>9, <3>1, <3>2
      <4>2. CASE clock - Last(snaps).at > K
        BY <1>1, <1>4, <4>1, <4>2
      <4>3. CASE ~(clock - Last(snaps).at > K)
        <5>1. Last(snaps).at \in Nat
          BY <1>7, <1>9, <3>1
        <5> QED BY <1>1, <4>1, <4>3, <5>1
      <4> QED BY <4>2, <4>3
    <3>3. CASE i # n + 1
      <4>1. i \in 2..n /\ i \in 1..n
        BY <1>7, <3>3
      <4>2. s[i] = snaps[i] /\ snaps[i].at \in Nat
        BY <1>7, <1>8, <4>1
      <4>3. snaps[i].at - snaps[i - 1].at <= K \/ snaps[i].at <= steady
        BY <1>11, <4>1
      <4> QED BY <1>1, <1>12, <3>1, <4>2, <4>3
    <3> QED BY <3>2, <3>3
  <2>5. PICK m \in 1..Len(s) : Trimmed(s) = SubSeq(s, m, Len(s)) /\ (m > 1 => ~(clock - s[m - 1].at <= SnapKeep))
    <3>1. PICK r : r = s
      OBVIOUS
    <3>2. r \in Seq(Snapped) /\ Len(r) > 0
      BY <1>7, <1>8, <3>1
    <3>3. \E m \in 1..Len(r) : Trimmed(r) = SubSeq(r, m, Len(r)) /\ (m > 1 => ~(clock - r[m - 1].at <= SnapKeep))
      BY <3>2, TrimmedIs
    <3> QED BY <3>1, <3>3
  <2>6. m \in 1..(n + 1) /\ m \in Nat
    BY <1>7, <1>8, <2>5
  <2>7. PICK q : q = Trimmed(s)
    OBVIOUS
  <2>8. snaps' = q
    BY <1>4, <1>14, <2>7
  <2>9. /\ q \in Seq(Snapped) /\ Len(q) = n + 1 - m + 1
        /\ \A i \in 1..Len(q) : m + i - 1 \in 1..(n + 1) /\ q[i] = s[m + i - 1]
    <3>1. PICK r : r = s
      OBVIOUS
    <3>2. r \in Seq(Snapped) /\ m \in 1..Len(r) /\ q = SubSeq(r, m, Len(r)) /\ Len(r) = n + 1
      BY <1>8, <2>5, <2>7, <3>1
    <3>3. /\ q \in Seq(Snapped) /\ Len(q) = Len(r) - m + 1
          /\ \A i \in 1..Len(q) : m + i - 1 \in 1..Len(r) /\ q[i] = r[m + i - 1]
      BY <3>2, FromTheEnd
    <3>4. /\ q \in Seq(Snapped) /\ Len(q) = (n + 1) - m + 1
          /\ \A i \in 1..Len(q) : m + i - 1 \in 1..(n + 1) /\ q[i] = r[m + i - 1]
      BY <3>2, <3>3, Zenon
    <3> QED BY <1>7, <3>1, <3>4
  <2> HIDE DEF K
  <2>10. SnapsTrue'
    <3>1. \A i \in 1..Len(q) : q[i].at <= clock /\ NoMore(q[i].threads, q[i].work, kern, work)
      BY <2>2, <2>9
    <3>2. \A i, j \in 1..Len(q) : i < j => q[i].at < q[j].at
      <4> SUFFICES ASSUME NEW i \in 1..Len(q), NEW j \in 1..Len(q), i < j PROVE q[i].at < q[j].at
        OBVIOUS
      <4>1. m + i - 1 < m + j - 1
        BY <2>6, <2>9, <1>7
      <4> QED BY <2>3, <2>9, <4>1
    <3> QED BY <1>4, <1>5, <2>8, <2>9, <3>1, <3>2 DEF SnapsTrue, NoMore
  <2>11. \A i \in 2..Len(q) : q[i].at - q[i - 1].at <= K \/ q[i].at <= steady'
    <3> SUFFICES ASSUME NEW i \in 2..Len(q) PROVE q[i].at - q[i - 1].at <= K \/ q[i].at <= steady'
      OBVIOUS
    <3>1. i \in 1..Len(q) /\ i - 1 \in 1..Len(q) /\ m + i - 1 \in 2..(n + 1) /\ m + (i - 1) - 1 = (m + i - 1) - 1
      BY <1>7, <2>6, <2>9
    <3>2. q[i] = s[m + i - 1] /\ q[i - 1] = s[(m + i - 1) - 1]
      BY <2>9, <3>1
    <3> QED BY <2>4, <3>1, <3>2
  <2>12. /\ Len(q) > 0 /\ q[1] = s[m] /\ q[Len(q)] = s[n + 1]
         /\ s[n + 1].at = clock /\ s[m].at \in Nat /\ s[m].at <= clock
    <3>1. 1 \in 1..Len(q) /\ Len(q) \in 1..Len(q) /\ m + 1 - 1 = m /\ m + Len(q) - 1 = n + 1
      BY <1>7, <2>6, <2>9
    <3>2. q[1] = s[m] /\ q[Len(q)] = s[n + 1]
      BY <2>9, <3>1
    <3> QED BY <1>3, <1>8, <2>2, <2>6, <3>1, <3>2
  <2>13. steady' > 0 => s[m].at <= steady' \/ s[m].at <= clock - MaxWindow
    <3>1. CASE steady' = clock
      BY <2>12, <3>1
    <3>2. CASE steady' # clock
      <4>1. steady' = steady /\ n > 0 /\ ~(clock - Last(snaps).at > K)
        BY <1>4, <1>7, <1>10, <3>2
      <4>2. CASE m = 1
        <5>1. s[1] = snaps[1] /\ snaps[1].at \in Nat /\ snaps[n].at \in Nat /\ snaps[n].at <= clock
          BY <1>7, <1>8, <4>1
        <5>2. steady > 0 => snaps[1].at <= steady \/ snaps[1].at <= snaps[n].at - MaxWindow
          BY <1>11
        <5>3. \A a, b, c \in Nat : a <= b - MaxWindow /\ b <= c => a <= c - MaxWindow
          BY <1>1
        <5>4. steady > 0 => snaps[1].at <= steady \/ snaps[1].at <= clock - MaxWindow
          BY <1>1, <5>1, <5>2, <5>3
        <5> QED BY <4>1, <4>2, <5>1, <5>4
      <4>3. CASE m # 1
        <5>1. m > 1 /\ m \in 2..(n + 1) /\ m - 1 \in 1..(n + 1)
          BY <1>7, <2>6, <4>3
        <5>2. ~(clock - s[m - 1].at <= SnapKeep) /\ s[m - 1].at \in Nat
          BY <2>2, <2>5, <5>1
        <5>3. s[m].at - s[m - 1].at <= K \/ s[m].at <= steady'
          BY <2>4, <5>1
        <5>4. CASE s[m].at - s[m - 1].at <= K
          <6>1. \A a, b, c \in Nat : ~(c - b <= SnapKeep) /\ a - b <= SnapKeep - MaxWindow => a <= c - MaxWindow
            BY <1>1
          <6> QED BY <1>1, <2>12, <5>2, <5>4, <6>1 DEF K
        <5> QED BY <5>3, <5>4
      <4> QED BY <4>2, <4>3
    <3> QED BY <3>1, <3>2
  <2> QED BY <1>6, <2>8, <2>10, <2>11, <2>12, <2>13 DEF ReachesBack, K
<1> QED BY <1>13, <1>14

\* One more line at the end of the history on disk, whole or torn.
LEMMA AppendedInv ==
  ASSUME HistInv, NEW line \in Line, line.at = clock, line.vcpus = Seen(kern), line.work = work,
         rolls' = Appended(rolls, line), UNCHANGED <<clock, kern, work>>
  PROVE  RollsTrue'
<1>1. RollMax \in Nat /\ RollMax > 0 /\ clock \in Nat
  BY HistoryAssumption DEF HistInv, WorldTypes
<1>2. /\ NoMore(line.vcpus, line.work, kern, work)
      /\ \A o \in Counts, ow \in Works : NoMore(o, ow, kern, work) => NoMore(o, ow, line.vcpus, line.work)
  BY NoMoreOfItself
<1>3. FileTrue(rolls.old) /\ FileTrue(rolls.cur)
  BY DEF HistInv, RollsTrue
<1>4. ASSUME NEW s, FileTrue(s)
      PROVE  FileTrue(s)' /\ \A i \in 1..Len(s) : NoMore(s[i].vcpus, s[i].work, line.vcpus, line.work)
  <2>1. FileTrue(s)'
    BY <1>4 DEF FileTrue, NoMore
  <2>2. ASSUME NEW i \in 1..Len(s) PROVE NoMore(s[i].vcpus, s[i].work, line.vcpus, line.work)
    <3>1. s[i] \in Line /\ NoMore(s[i].vcpus, s[i].work, kern, work)
      BY <1>4 DEF FileTrue
    <3>2. s[i].vcpus \in Counts /\ s[i].work \in Works
      BY <3>1 DEF Line
    <3> QED BY <1>2, <3>1, <3>2
  <2> QED BY <2>1, <2>2
<1>5. PICK c : c = rolls.cur
  OBVIOUS
<1>6. FileTrue(c) /\ c \in Seq(Line) /\ Len(c) \in Nat /\ Len(c) <= RollMax
  BY <1>3, <1>5 DEF FileTrue
<1>7. FileTrue(c)' /\ \A i \in 1..Len(c) : NoMore(c[i].vcpus, c[i].work, line.vcpus, line.work)
  BY <1>4, <1>6
<1>8. CASE Len(c) >= RollMax
  <2>1. rolls' = [old |-> c, cur |-> <<line>>]
    BY <1>5, <1>8 DEF Appended
  <2>2. <<line>> \in Seq(Line) /\ Len(<<line>>) = 1 /\ <<line>>[1] = line
    OBVIOUS
  <2>3. FileTrue(<<line>>)
    BY <1>1, <1>2, <2>2 DEF FileTrue
  <2>4. FileTrue(<<line>>)'
    BY <1>4, <2>3
  <2>5. \A i \in 1..Len(c), j \in 1..1 : NoMore(c[i].vcpus, c[i].work, <<line>>[j].vcpus, <<line>>[j].work)
    BY <1>7, <2>2
  <2> QED BY <1>7, <2>1, <2>2, <2>4, <2>5 DEF RollsTrue
<1>9. CASE ~(Len(c) >= RollMax)
  <2>1. PICK d : d = Append(c, line)
    OBVIOUS
  <2>2. PICK o : o = rolls.old
    OBVIOUS
  <2>3. rolls' = [old |-> o, cur |-> d]
    BY <1>5, <1>9, <2>1, <2>2 DEF Appended, HistInv, RollsTrue
  <2>4. /\ d \in Seq(Line) /\ Len(d) = Len(c) + 1 /\ d[Len(c) + 1] = line
        /\ \A i \in 1..Len(c) : d[i] = c[i]
    BY <1>6, <2>1, AppendProperties
  <2>5. FileTrue(d)
    <3>1. Len(d) <= RollMax
      BY <1>1, <1>6, <1>9, <2>4
    <3>2. \A i \in 1..Len(d) : d[i].at <= clock /\ NoMore(d[i].vcpus, d[i].work, kern, work)
      <4> SUFFICES ASSUME NEW i \in 1..Len(d) PROVE d[i].at <= clock /\ NoMore(d[i].vcpus, d[i].work, kern, work)
        OBVIOUS
      <4>1. CASE i = Len(c) + 1
        BY <1>1, <1>2, <2>4, <4>1
      <4>2. CASE i # Len(c) + 1
        <5>1. i \in 1..Len(c)
          BY <1>6, <2>4, <4>2
        <5> QED BY <1>6, <2>4, <5>1 DEF FileTrue
      <4> QED BY <4>1, <4>2
    <3>3. ASSUME NEW i \in 1..Len(d), NEW j \in 1..Len(d), i < j
          PROVE  NoMore(d[i].vcpus, d[i].work, d[j].vcpus, d[j].work)
      <4>1. i \in 1..Len(c) /\ d[i] = c[i]
        BY <1>6, <2>4, <3>3
      <4>2. CASE j = Len(c) + 1
        BY <1>7, <2>4, <4>1, <4>2
      <4>3. CASE j # Len(c) + 1
        <5>1. j \in 1..Len(c)
          BY <1>6, <2>4, <4>3
        <5> QED BY <1>6, <2>4, <3>3, <4>1, <5>1 DEF FileTrue
      <4> QED BY <4>2, <4>3
    <3> QED BY <2>4, <3>1, <3>2, <3>3 DEF FileTrue
  <2>6. FileTrue(o) /\ FileTrue(o)' /\ FileTrue(d)'
    BY <1>3, <1>4, <2>2, <2>5
  <2>7. ASSUME NEW i \in 1..Len(o), NEW j \in 1..Len(d) PROVE NoMore(o[i].vcpus, o[i].work, d[j].vcpus, d[j].work)
    <3>1. CASE j = Len(c) + 1
      BY <1>4, <2>4, <2>6, <3>1
    <3>2. CASE j # Len(c) + 1
      <4>1. j \in 1..Len(c) /\ d[j] = c[j]
        BY <1>6, <2>4, <3>2
      <4> QED BY <1>5, <2>2, <4>1 DEF HistInv, RollsTrue
    <3> QED BY <3>1, <3>2
  <2> QED BY <2>3, <2>6, <2>7 DEF RollsTrue
<1> QED BY <1>8, <1>9

\* A step that leaves the files and the counters alone leaves the history on disk true.
LEMMA RollsFrame ==
  ASSUME HistInv, UNCHANGED <<clock, kern, work, rolls>>
  PROVE  RollsTrue'
  BY DEF HistInv, RollsTrue, FileTrue, NoMore

\* A line, whole or torn, is a reading of now.
LEMMA LinesAre ==
  ASSUME HistInv
  PROVE  /\ RollupSnap(kern) \in Line /\ TornRoll(RollupSnap(kern)) \in Line
         /\ \A l \in {RollupSnap(kern), TornRoll(RollupSnap(kern))} :
              l.at = clock /\ l.vcpus = Seen(kern) /\ l.work = work
<1>0. clock \in Nat \ {0}
  BY HistoryAssumption DEF HistInv, WorldTypes
<1>1. Seen(kern) \in Counts /\ work \in Works
  BY NoMoreOfItself
<1>2. Total(Seen(kern)) \in Nat
  <2>1. PICK c : c = Seen(kern)
    OBVIOUS
  <2>2. Total(c) \in Nat
    BY <1>1, <2>1, TotalIs
  <2> QED BY <2>1, <2>2
<1>3. PICK v, n, k, w : v = Seen(kern) /\ n = Total(Seen(kern)) /\ k = clock /\ w = work
  OBVIOUS
<1>4. v \in Counts /\ n \in Nat /\ k \in Nat \ {0} /\ w \in Works
  BY <1>0, <1>1, <1>2, <1>3
<1>5. RollupSnap(kern) = [at |-> k, total |-> n, vcpus |-> v, work |-> w, ok |-> TRUE]
  BY <1>3 DEF RollupSnap
<1>6. [at |-> k, total |-> n, vcpus |-> v, work |-> w, ok |-> TRUE] \in Line
  BY <1>4 DEF Line
<1>7. \A r \in Line : /\ TornRoll(r) \in Line
                      /\ TornRoll(r).at = r.at /\ TornRoll(r).vcpus = r.vcpus /\ TornRoll(r).work = r.work
  BY DEF TornRoll, Line
<1>8. RollupSnap(kern) \in Line /\ RollupSnap(kern).at = k /\ RollupSnap(kern).vcpus = v /\ RollupSnap(kern).work = w
  BY <1>5, <1>6
<1> QED BY <1>3, <1>7, <1>8

LEMMA HistNextInv == HistInv /\ [HistNext]_histVars => HistInv'
<1> SUFFICES ASSUME HistInv, [HistNext]_histVars PROVE HistInv'
  OBVIOUS
<1>1. /\ setup \in Setups /\ setup.clock \in Nat /\ setup.churn \in Nat /\ clock \in 1..setup.clock /\ clock \in Nat
      /\ churn \in 0..setup.churn /\ kern \in Counts /\ WorldTypes
  BY HistoryAssumption DEF HistInv, WorldTypes
<1>2. DOMAIN kern \subseteq Tids /\ \A t \in DOMAIN kern : kern[t] \in Nat
  BY <1>1, CountsAre
<1>3. Churn => churn' \in 0..setup.churn
  BY <1>1 DEF Churn
\* The counters only lose entries.
<1>4. ASSUME kern' \in Counts, DOMAIN kern' \subseteq DOMAIN kern, \A t \in DOMAIN kern' : kern'[t] = kern[t],
             UNCHANGED <<setup, work, sample, snaps, steady, lastRoll, rolls>>, alive' \subseteq Tids,
             clock' \in clock..setup.clock, churn' \in 0..setup.churn, scan' \in [found : BOOLEAN, threads : SUBSET Tids]
      PROVE  HistInv'
  <2>1. OverAllReadings
    BY <1>1, <1>4, LosingCounts
  <2>2. SnapsTrue' /\ ReachesBack' /\ RollsTrue'
    BY <1>1, <1>4, <2>1, HistFrame
  <2>3. WorldTypes'
    <3>1. \A t \in DOMAIN kern' : kern'[t] <= work'[t]
      BY <1>1, <1>4 DEF WorldTypes
    <3>2. clock' \in 1..setup'.clock /\ steady' \in 0..clock' /\ lastRoll' \in 0..clock'
      BY <1>1, <1>4 DEF WorldTypes
    <3> QED BY <1>1, <1>4, <3>1, <3>2 DEF WorldTypes
  <2> QED BY <2>2, <2>3 DEF HistInv
<1>5. kern' = kern => kern' \in Counts /\ DOMAIN kern' \subseteq DOMAIN kern /\ \A t \in DOMAIN kern' : kern'[t] = kern[t]
  BY <1>1
<1>6. ASSUME NEW t \in Tids, kern' = Restricted(kern, Tids \ {t})
      PROVE  kern' \in Counts /\ DOMAIN kern' \subseteq DOMAIN kern /\ \A u \in DOMAIN kern' : kern'[u] = kern[u]
  <2>1. PICK k, S : k = kern /\ S = Tids \ {t}
    OBVIOUS
  <2>2. k \in Counts
    BY <1>1, <2>1
  <2>3. /\ Restricted(k, S) \in Counts /\ DOMAIN Restricted(k, S) = DOMAIN k \cap S
        /\ \A u \in DOMAIN k \cap S : Restricted(k, S)[u] = k[u]
    BY <2>2, RestrictedIs
  <2>4. kern' = Restricted(k, S)
    BY <1>6, <2>1
  <2> QED BY <2>1, <2>3, <2>4
<1>7. ASSUME NEW t \in Tids, Work(t) PROVE HistInv'
  <2>1. /\ OverAllReadings /\ kern' \in Counts /\ work' \in [Tids -> 0..MaxWork]
        /\ \A u \in DOMAIN kern' : kern'[u] <= work'[u]
    BY <1>1, <1>7, WorkingCounts
  <2>2. UNCHANGED <<setup, clock, churn, alive, scan, sample, snaps, steady, lastRoll, rolls>>
    BY <1>7 DEF Work
  <2>3. SnapsTrue' /\ ReachesBack' /\ RollsTrue'
    BY <1>1, <2>1, <2>2, HistFrame
  <2>4. WorldTypes'
    BY <1>1, <2>1, <2>2 DEF WorldTypes
  <2> QED BY <2>3, <2>4 DEF HistInv
<1>8. ASSUME NEW t \in Tids, ThreadEnds(t) PROVE HistInv'
  <2>1. CASE kern' = kern
    BY <1>1, <1>3, <1>4, <1>5, <1>8, <2>1 DEF ThreadEnds, WorldTypes
  <2>2. CASE kern' = Restricted(kern, Tids \ {t})
    <3>1. kern' \in Counts /\ DOMAIN kern' \subseteq DOMAIN kern /\ \A u \in DOMAIN kern' : kern'[u] = kern[u]
      BY <1>6, <2>2
    <3> QED BY <1>1, <1>3, <1>4, <1>8, <3>1 DEF ThreadEnds, WorldTypes
  <2> QED BY <1>8, <2>1, <2>2 DEF ThreadEnds
<1>9. ASSUME NEW t \in Tids, ThreadStarts(t) PROVE HistInv'
  BY <1>1, <1>4, <1>5, <1>9 DEF ThreadStarts, WorldTypes
<1>10. ASSUME NEW t \in Tids, EntryEvicted(t) PROVE HistInv'
  <2>1. /\ kern' = Restricted(kern, Tids \ {t}) /\ Churn
        /\ UNCHANGED <<setup, clock, alive, work, scan, sample, snaps, steady, lastRoll, rolls>>
    BY <1>10 DEF EntryEvicted
  <2>2. kern' \in Counts /\ DOMAIN kern' \subseteq DOMAIN kern /\ \A u \in DOMAIN kern' : kern'[u] = kern[u]
    BY <1>6, <2>1
  <2>3. alive' \subseteq Tids /\ clock' \in clock..setup.clock /\ scan' \in [found : BOOLEAN, threads : SUBSET Tids]
    BY <1>1, <2>1 DEF WorldTypes
  <2>4. churn' \in 0..setup.churn
    BY <1>3, <2>1
  <2> QED BY <1>4, <2>1, <2>2, <2>3, <2>4
<1>11. CASE TimePasses
  BY <1>1, <1>4, <1>5, <1>11 DEF TimePasses, WorldTypes, histWorld
<1>12. CASE ScanProc
  BY <1>1, <1>4, <1>5, <1>12 DEF ScanProc, WorldTypes, histWorld
<1>13. CASE ScanMisses
  BY <1>1, <1>3, <1>4, <1>5, <1>13 DEF ScanMisses, WorldTypes, histWorld, NotScanned
<1>14. /\ RollupSnap(kern) \in Line /\ TornRoll(RollupSnap(kern)) \in Line
       /\ \A l \in {RollupSnap(kern), TornRoll(RollupSnap(kern))} :
            l.at = clock /\ l.vcpus = Seen(kern) /\ l.work = work
  BY LinesAre
<1>15. ASSUME NEW l \in {RollupSnap(kern), TornRoll(RollupSnap(kern))}, rolls' = Appended(rolls, l),
              UNCHANGED <<clock, kern, work>>
       PROVE  RollsTrue'
  <2>1. l \in Line /\ l.at = clock /\ l.vcpus = Seen(kern) /\ l.work = work
    BY <1>14
  <2> QED BY <1>15, <2>1, AppendedInv
<1>16. CASE SetCounters
  <2>1. WorldTypes' /\ SnapsTrue' /\ ReachesBack'
    BY <1>1, <1>16, RecordedInv DEF SetCounters
  <2>2. RollsTrue'
    <3>1. UNCHANGED <<clock, kern, work>>
      BY <1>16 DEF SetCounters, histWorld
    <3> QED BY <1>15, <1>16, <3>1, RollsFrame DEF SetCounters
  <2> QED BY <2>1, <2>2 DEF HistInv
<1>17. CASE SetCountersNotStored
  <2>1. WorldTypes' /\ SnapsTrue' /\ ReachesBack'
    BY <1>1, <1>3, <1>17, RecordedInv DEF SetCountersNotStored
  <2>2. RollsTrue'
    <3>1. UNCHANGED <<clock, kern, work>>
      BY <1>17 DEF SetCountersNotStored, histWorld
    <3> QED BY <1>15, <1>17, <3>1, RollsFrame DEF SetCountersNotStored
  <2> QED BY <2>1, <2>2 DEF HistInv
<1>18. CASE Restart
  <2> USE <1>18 DEF Restart
  <2>1. kern' \in Counts /\ DOMAIN kern' = {}
    BY NoThreadsIs
  <2>2. NoSample \in [by : Counts, work : Works] /\ NotScanned \in [found : BOOLEAN, threads : SUBSET Tids]
    BY NoThreadsIs DEF NoSample, NotScanned, Works
  <2>3. WorldTypes'
    BY <1>1, <1>3, <2>1, <2>2 DEF WorldTypes
  <2>4. snaps' \in Seq(Snapped) /\ Len(snaps') = 0 /\ steady' = 0
    OBVIOUS
  <2>5. SnapsTrue' /\ ReachesBack'
    BY <2>4 DEF SnapsTrue, ReachesBack
  <2>6. RollsTrue'
    <3>1. \A o \in Counts, ow \in Works : NoMore(o, ow, kern, work) => NoMore(o, ow, kern', work')
      BY <2>1 DEF NoMore
    <3>2. ASSUME NEW s, FileTrue(s) PROVE FileTrue(s)'
      <4>1. \A i \in 1..Len(s) : s[i].at <= clock' /\ NoMore(s[i].vcpus, s[i].work, kern', work')
        <5> SUFFICES ASSUME NEW i \in 1..Len(s) PROVE s[i].at <= clock' /\ NoMore(s[i].vcpus, s[i].work, kern', work')
          OBVIOUS
        <5>1. s[i] \in Line /\ s[i].at <= clock /\ NoMore(s[i].vcpus, s[i].work, kern, work)
          BY <3>2 DEF FileTrue
        <5>2. s[i].vcpus \in Counts /\ s[i].work \in Works
          BY <5>1 DEF Line
        <5> QED BY <3>1, <5>1, <5>2
      <4> QED BY <3>2, <4>1 DEF FileTrue, NoMore
    <3>3. FileTrue(rolls.old)' /\ FileTrue(rolls.cur)'
      BY <3>2 DEF HistInv, RollsTrue
    <3> QED BY <3>3 DEF HistInv, RollsTrue
  <2> QED BY <2>3, <2>5, <2>6 DEF HistInv
<1>19. CASE UNCHANGED histVars
  BY <1>1, <1>4, <1>5, <1>19 DEF histVars, WorldTypes, histWorld
<1> QED BY <1>7, <1>8, <1>9, <1>10, <1>11, <1>12, <1>13, <1>16, <1>17, <1>18, <1>19 DEF HistNext

LEMMA HistInvHolds == HistSpec => []HistInv
  BY HistInitInv, HistNextInv, PTL DEF HistSpec

-----------------------------------------------------------------------------
(* What the invariant says of windows.                                     *)

LEMMA BaseIsASnap ==
  ASSUME HistInv, Len(snaps) > 0, NEW w \in Nat
  PROVE  \E i \in 1..Len(snaps) :
           /\ Base(w) = snaps[i]
           /\ (\E j \in 1..Len(snaps) : snaps[j].at <= clock - (IF w < MaxWindow THEN w ELSE MaxWindow)) =>
                 snaps[i].at <= clock - (IF w < MaxWindow THEN w ELSE MaxWindow)
<1> DEFINE v == IF w < MaxWindow THEN w ELSE MaxWindow
           b == NewestBy(snaps, Len(snaps), clock - v)
<1>1. Len(snaps) \in Nat /\ snaps \in Seq(Snapped)
  BY DEF HistInv, SnapsTrue
<1>2. PICK s, n, at : s = snaps /\ n = Len(snaps) /\ at = clock - v
  OBVIOUS
<1>3. \/ NewestBy(s, n, at) = 0 /\ \A i \in 1..n : ~(s[i].at <= at)
      \/ NewestBy(s, n, at) \in 1..n /\ s[NewestBy(s, n, at)].at <= at
  <2>1. n \in Nat
    BY <1>1, <1>2
  <2> QED BY <2>1, NewestIs
<1>4. b = NewestBy(s, n, at)
  BY <1>2
<1>5. Base(w) = IF b # 0 THEN snaps[b] ELSE snaps[1]
  BY <1>1 DEF Base
<1> HIDE DEF b, v
<1>6. CASE b = 0
  <2>1. 1 \in 1..Len(snaps) /\ Base(w) = snaps[1] /\ \A i \in 1..Len(snaps) : ~(snaps[i].at <= clock - v)
    BY <1>1, <1>2, <1>3, <1>4, <1>5, <1>6
  <2> QED BY <2>1 DEF v
<1>7. CASE b # 0
  <2>1. b \in 1..Len(snaps) /\ Base(w) = snaps[b] /\ snaps[b].at <= clock - v
    BY <1>2, <1>3, <1>4, <1>5, <1>7
  <2> QED BY <2>1 DEF v
<1> QED BY <1>6, <1>7

LEMMA WindowsDoNotOvercount == HistInv => WindowNeverOvercounts
<1> SUFFICES ASSUME HistInv, NEW w \in Windows, HasBase(w),
                    NEW t \in DOMAIN windowedInputs(w) \cap DOMAIN Base(w).threads
             PROVE  windowedInputs(w)[t] <= sample.work[t] - Base(w).work[t]
  BY DEF WindowNeverOvercounts
<1>1. w \in Nat /\ snaps \in Seq(Snapped) /\ snaps # <<>>
  BY HistoryAssumption DEF HistInv, SnapsTrue, HasBase
<1>2. Len(snaps) > 0
  BY <1>1
<1>3. PICK i \in 1..Len(snaps) : Base(w) = snaps[i]
  BY <1>1, <1>2, BaseIsASnap
<1>4. NoMore(snaps[i].threads, snaps[i].work, sample.by, sample.work)
  BY DEF HistInv, SnapsTrue
<1>5. sample.by \in Counts
  BY DEF HistInv, WorldTypes
<1>6. /\ DOMAIN Seen(sample.by) \subseteq DOMAIN sample.by
      /\ \A u \in DOMAIN Seen(sample.by) : Seen(sample.by)[u] = sample.by[u]
  <2>1. PICK c : c = sample.by
    OBVIOUS
  <2>2. DOMAIN Seen(c) \subseteq DOMAIN c /\ \A u \in DOMAIN Seen(c) : Seen(c)[u] = c[u]
    BY <1>5, <2>1, SeenIs
  <2> QED BY <2>1, <2>2
<1>7. t \in DOMAIN Seen(sample.by) /\ t \in DOMAIN snaps[i].threads
  BY <1>3 DEF windowedInputs, Delta
<1>8. windowedInputs(w)[t] = sub(Seen(sample.by)[t], At(snaps[i].threads, t)) /\ At(snaps[i].threads, t) = snaps[i].threads[t]
  BY <1>3, <1>7 DEF windowedInputs, Delta, At
<1>9. sub(sample.by[t], snaps[i].threads[t]) <= sample.work[t] - snaps[i].work[t]
  BY <1>4, <1>6, <1>7 DEF NoMore
<1> HIDE DEF sub, Seen, windowedInputs, Base
<1>10. windowedInputs(w)[t] = sub(sample.by[t], snaps[i].threads[t])
  BY <1>6, <1>7, <1>8
<1> QED BY <1>3, <1>9, <1>10

LEMMA WindowsAreCovered == HistInv => WindowIsCovered
<1> SUFFICES ASSUME HistInv, NEW w \in Windows, w <= MaxWindow, steady > 0, clock - steady >= w
             PROVE  snaps # <<>> /\ clock - Base(w).at >= w
  BY DEF WindowIsCovered
<1> DEFINE v == IF w < MaxWindow THEN w ELSE MaxWindow
<1>1. w \in Nat /\ MaxWindow \in Nat /\ clock \in Nat /\ steady \in Nat /\ v = w
  BY HistoryAssumption DEF HistInv, WorldTypes
<1>2. Len(snaps) > 0 /\ Len(snaps) \in Nat /\ snaps # <<>>
  BY DEF HistInv, ReachesBack, SnapsTrue
<1>3. \A i \in 1..Len(snaps) : snaps[i].at \in Nat /\ snaps[i].at <= clock
  <2>1. \A i \in 1..Len(snaps) : snaps[i] \in Snapped /\ snaps[i].at <= clock
    BY DEF HistInv, SnapsTrue
  <2> QED BY <2>1 DEF Snapped
<1>4. 1 \in 1..Len(snaps) /\ Len(snaps) \in 1..Len(snaps)
  BY <1>2
<1>5. snaps[1].at <= steady \/ snaps[1].at <= snaps[Len(snaps)].at - MaxWindow
  BY DEF HistInv, ReachesBack
<1>6. snaps[1].at <= clock - w
  BY <1>1, <1>3, <1>4, <1>5
<1>7. PICK i \in 1..Len(snaps) : Base(w) = snaps[i] /\ snaps[i].at <= clock - v
  BY <1>1, <1>2, <1>4, <1>6, BaseIsASnap
<1> QED BY <1>1, <1>2, <1>3, <1>7

\* What can be read of the lines, each with its file.
LEMMA PlacesAre ==
  ASSUME HistInv
  PROVE  /\ Places \in Seq(Line)
         /\ \A j \in 1..Len(Places) : \A i \in 1..(j - 1) :
              NoMore(Places[i].vcpus, Places[i].work, Places[j].vcpus, Places[j].work)
<1>1. PICK o, c : o = rolls.old /\ c = rolls.cur
  OBVIOUS
<1>2. FileTrue(o) /\ FileTrue(c) /\ o \in Seq(Line) /\ c \in Seq(Line)
  BY <1>1 DEF HistInv, RollsTrue, FileTrue
<1>3. PICK ro, rc : ro = Readable(o) /\ rc = Readable(c)
  OBVIOUS
<1>4. /\ ro \in Seq(Line) /\ Len(ro) \in 0..Len(o) /\ \A i \in 1..Len(ro) : ro[i] = o[i]
      /\ rc \in Seq(Line) /\ Len(rc) \in 0..Len(c) /\ \A i \in 1..Len(rc) : rc[i] = c[i]
      /\ Len(o) \in Nat /\ Len(c) \in Nat
  BY <1>2, <1>3, ReadableIs
<1>5. Places = ro \o rc
  BY <1>1, <1>3 DEF Places
<1>6. PICK p : p = ro \o rc
  OBVIOUS
<1>7. /\ p \in Seq(Line) /\ Len(p) = Len(ro) + Len(rc)
      /\ \A i \in 1..(Len(ro) + Len(rc)) : p[i] = IF i <= Len(ro) THEN ro[i] ELSE rc[i - Len(ro)]
  BY <1>4, <1>6, ConcatProperties
<1>8. ASSUME NEW j \in 1..Len(p), NEW i \in 1..(j - 1)
      PROVE  NoMore(p[i].vcpus, p[i].work, p[j].vcpus, p[j].work)
  <2>1. i \in 1..Len(p) /\ i < j /\ i \in Nat /\ j \in Nat
    BY <1>4, <1>7
  <2>2. CASE j <= Len(ro)
    <3>1. i \in 1..Len(ro) /\ j \in 1..Len(ro) /\ i \in 1..Len(o) /\ j \in 1..Len(o)
      BY <1>4, <2>1, <2>2
    <3>2. p[i] = o[i] /\ p[j] = o[j]
      BY <1>4, <1>7, <2>1, <3>1
    <3> QED BY <1>2, <2>1, <3>1, <3>2 DEF FileTrue
  <2>3. CASE ~(j <= Len(ro)) /\ i <= Len(ro)
    <3>1. i \in 1..Len(ro) /\ i \in 1..Len(o) /\ j - Len(ro) \in 1..Len(rc) /\ j - Len(ro) \in 1..Len(c)
      BY <1>4, <1>7, <2>1, <2>3
    <3>2. p[i] = o[i] /\ p[j] = c[j - Len(ro)]
      BY <1>4, <1>7, <2>1, <2>3, <3>1
    <3> QED BY <1>1, <3>1, <3>2 DEF HistInv, RollsTrue
  <2>4. CASE ~(i <= Len(ro))
    <3>1. /\ i - Len(ro) \in 1..Len(rc) /\ i - Len(ro) \in 1..Len(c) /\ ~(j <= Len(ro))
          /\ j - Len(ro) \in 1..Len(rc) /\ j - Len(ro) \in 1..Len(c) /\ i - Len(ro) < j - Len(ro)
      BY <1>4, <1>7, <2>1, <2>4
    <3>2. p[i] = c[i - Len(ro)] /\ p[j] = c[j - Len(ro)]
      BY <1>4, <1>7, <2>1, <2>4, <3>1
    <3> QED BY <1>2, <3>1, <3>2 DEF FileTrue
  <2> QED BY <2>2, <2>3, <2>4
<1> QED BY <1>5, <1>6, <1>7, <1>8

\* The two lines that Around finds.
LEMMA AroundFinds ==
  ASSUME HistInv, NEW at, NEW w, CurIndex(at) # 0, BaseIndex(at, w) # 0
  PROVE  CurIndex(at) \in 1..Len(Places) /\ BaseIndex(at, w) \in 1..(CurIndex(at) - 1)
<1>1. PICK p, n : p = Places /\ n = Len(Places)
  OBVIOUS
<1>2. n \in Nat
  BY <1>1, PlacesAre
<1>3. NewestBy(p, n, at) = 0 \/ NewestBy(p, n, at) \in 1..n
  BY <1>2, NewestIs
<1>4. CurIndex(at) = NewestBy(p, n, at)
  BY <1>1 DEF CurIndex
<1>5. PICK c : c = CurIndex(at)
  OBVIOUS
<1>6. c \in 1..n /\ c - 1 \in Nat
  BY <1>2, <1>3, <1>4, <1>5
<1>7. PICK b : b = Cur(at).at - w
  OBVIOUS
<1>8. NewestBy(p, c - 1, b) = 0 \/ NewestBy(p, c - 1, b) \in 1..(c - 1)
  BY <1>6, NewestIs
<1>9. BaseIndex(at, w) = NewestBy(p, c - 1, b)
  BY <1>1, <1>5, <1>7 DEF BaseIndex
<1> QED BY <1>1, <1>5, <1>6, <1>8, <1>9

LEMMA PastDoesNotOvercount == HistInv => PastNeverOvercounts
<1> SUFFICES ASSUME HistInv, NEW at \in 1..clock, NEW w \in Windows, Explained(at, w),
                    NEW t \in DOMAIN PastVCPUs(at, w) \cap DOMAIN RollBase(at, AtWindow(w)).vcpus
             PROVE  PastVCPUs(at, w)[t] <= Cur(at).work[t] - RollBase(at, AtWindow(w)).work[t]
  BY DEF PastNeverOvercounts
<1>1. PICK v : v = AtWindow(w)
  OBVIOUS
<1>2. CurIndex(at) # 0 /\ BaseIndex(at, v) # 0
  BY <1>1 DEF Explained
<1>3. CurIndex(at) \in 1..Len(Places) /\ BaseIndex(at, v) \in 1..(CurIndex(at) - 1)
  BY <1>2, AroundFinds
<1>4. PICK b, c : c = Cur(at) /\ b = RollBase(at, v)
  OBVIOUS
<1>5. NoMore(b.vcpus, b.work, c.vcpus, c.work)
  BY <1>3, <1>4, PlacesAre DEF Cur, RollBase
<1>6. PastVCPUs(at, w) = Delta(c.vcpus, b.vcpus)
  BY <1>1, <1>4 DEF PastVCPUs
<1>7. t \in DOMAIN c.vcpus /\ t \in DOMAIN b.vcpus
  BY <1>1, <1>4, <1>6 DEF Delta
<1>8. PastVCPUs(at, w)[t] = sub(c.vcpus[t], b.vcpus[t])
  BY <1>6, <1>7 DEF Delta, At
<1>9. sub(c.vcpus[t], b.vcpus[t]) <= c.work[t] - b.work[t]
  BY <1>5, <1>7 DEF NoMore
<1> HIDE DEF sub, PastVCPUs, Cur, RollBase
<1> QED BY <1>1, <1>4, <1>8, <1>9

LEMMA HistTypes == HistInv => HistTypeOK
<1> SUFFICES ASSUME HistInv PROVE HistTypeOK
  OBVIOUS
<1> USE DEF HistInv
<1>1. kern \in Counts /\ sample.by \in Counts
  BY DEF WorldTypes
<1>2. /\ DOMAIN kern \subseteq Tids /\ (\A t \in DOMAIN kern : kern[t] \in Nat)
      /\ DOMAIN sample.by \subseteq Tids
  BY <1>1, CountsAre
<1>3. \A t \in DOMAIN kern : kern[t] \in 0..work[t]
  <2> SUFFICES ASSUME NEW t \in DOMAIN kern PROVE kern[t] \in 0..work[t]
    OBVIOUS
  <2>1. kern[t] \in Nat /\ kern[t] <= work[t] /\ work[t] \in Nat
    BY <1>2, HistoryAssumption DEF WorldTypes
  <2> QED BY <2>1
<1>4. DOMAIN snaps = 1..Len(snaps)
  BY DEF SnapsTrue
<1>5. \A i \in 1..Len(snaps) : snaps[i].at \in 1..clock /\ DOMAIN snaps[i].threads \subseteq Tids
  <2> SUFFICES ASSUME NEW i \in 1..Len(snaps)
               PROVE  snaps[i].at \in 1..clock /\ DOMAIN snaps[i].threads \subseteq Tids
    OBVIOUS
  <2>1. snaps[i] \in Snapped /\ snaps[i].at <= clock /\ clock \in Nat
    BY HistoryAssumption DEF SnapsTrue, WorldTypes
  <2>2. snaps[i].at \in Nat \ {0} /\ snaps[i].threads \in Counts
    BY <2>1 DEF Snapped
  <2> QED BY <2>1, <2>2, CountsAre
<1>6. \A i, j \in DOMAIN snaps : i < j => snaps[i].at < snaps[j].at
  BY <1>4 DEF SnapsTrue
<1>7. Len(rolls.old) <= RollMax /\ Len(rolls.cur) <= RollMax
  BY DEF RollsTrue, FileTrue
<1> QED BY <1>2, <1>3, <1>4, <1>5, <1>6, <1>7 DEF HistTypeOK, WorldTypes

-----------------------------------------------------------------------------
(* The past is fixed.                                                      *)

\* q has what p has after its first k, and whatever else it has is later than the time.
Shifted(p, q, k, at) ==
  /\ p \in Seq(Line) /\ q \in Seq(Line) /\ k \in Nat
  /\ \A i \in 1..Len(q) : q[i].at <= at => k + i \in 1..Len(p) /\ p[k + i] = q[i]
  /\ \A j \in 1..Len(p) : j > k => j - k \in 1..Len(q) /\ q[j - k] = p[j]

\* What Around finds in the one it finds in the other.
LEMMA SameFound ==
  ASSUME NEW p, NEW q, NEW k, NEW at \in Nat, Shifted(p, q, k, at), NEW n, NEW m, NEW x \in Int, x <= at,
         n \in 0..Len(p), m \in 0..Len(q), n = k + m, NewestBy(q, m, x) # 0
  PROVE  NewestBy(p, n, x) = k + NewestBy(q, m, x) /\ p[NewestBy(p, n, x)] = q[NewestBy(q, m, x)]
<1>1. Len(p) \in Nat /\ Len(q) \in Nat /\ k \in Nat /\ n \in Nat /\ m \in Nat
  BY DEF Shifted
<1>2. PICK a, b : a = NewestBy(p, n, x) /\ b = NewestBy(q, m, x)
  OBVIOUS
<1>3. b \in 1..m /\ q[b].at <= x /\ \A i \in 1..m : q[i].at <= x => i <= b
  BY <1>1, <1>2, NewestIs
<1>4. b \in 1..Len(q) /\ q[b] \in Line
  BY <1>1, <1>3 DEF Shifted
<1>5. q[b].at <= at
  <2>1. q[b].at \in Nat
    BY <1>4 DEF Line
  <2> QED BY <1>3, <2>1
<1>6. k + b \in 1..Len(p) /\ p[k + b] = q[b] /\ k + b \in 1..n
  BY <1>1, <1>3, <1>4, <1>5 DEF Shifted
<1>7. a \in 1..n /\ p[a].at <= x /\ k + b <= a
  <2>1. \/ a = 0 /\ \A i \in 1..n : ~(p[i].at <= x)
        \/ a \in 1..n /\ p[a].at <= x /\ \A i \in 1..n : p[i].at <= x => i <= a
    BY <1>1, <1>2, NewestIs
  <2>2. p[k + b].at <= x
    BY <1>3, <1>6
  <2> QED BY <1>6, <2>1, <2>2
<1>8. a \in 1..Len(p) /\ a > k /\ a - k \in 1..m
  BY <1>1, <1>3, <1>6, <1>7
<1>9. q[a - k] = p[a]
  BY <1>8 DEF Shifted
<1>10. a - k <= b
  BY <1>3, <1>7, <1>8, <1>9
<1>11. a = k + b
  BY <1>1, <1>3, <1>7, <1>8, <1>10
<1> QED BY <1>2, <1>6, <1>11

\* The lines that a verdict about the time stands on are the same ones.
LEMMA SameLines ==
  ASSUME NEW k, NEW at \in Nat, NEW w \in Nat, Shifted(Places, Places', k, at),
         CurIndex(at)' # 0, BaseIndex(at, w)' # 0
  PROVE  Cur(at)' = Cur(at) /\ RollBase(at, w)' = RollBase(at, w)
<1>1. PICK p, q : p = Places /\ q = Places'
  OBVIOUS
<1>2. Shifted(p, q, k, at) /\ Len(p) \in Nat /\ Len(q) \in Nat /\ k \in Nat
  BY <1>1 DEF Shifted
<1>3. PICK c, d : c = NewestBy(p, Len(p), at) /\ d = NewestBy(q, Len(q), at)
  OBVIOUS
<1>4. c = CurIndex(at) /\ d = CurIndex(at)'
  BY <1>1, <1>3 DEF CurIndex
<1>5. d # 0
  BY <1>4
<1>6. d \in 1..Len(q) /\ q[d].at <= at /\ q[d] \in Line
  <2>1. d \in 1..Len(q) /\ q[d].at <= at
    BY <1>2, <1>3, <1>5, NewestIs
  <2> QED BY <1>2, <2>1 DEF Shifted
<1>7. k + d \in 1..Len(p) /\ p[k + d] = q[d] /\ q[d].at \in Nat
  BY <1>2, <1>6 DEF Shifted, Line
<1>9. c = k + d
  <2>1. c \in 1..Len(p) /\ p[c].at <= at /\ k + d <= c
    <3>1. \/ c = 0 /\ \A i \in 1..Len(p) : ~(p[i].at <= at)
          \/ c \in 1..Len(p) /\ p[c].at <= at /\ \A i \in 1..Len(p) : p[i].at <= at => i <= c
      BY <1>2, <1>3, NewestIs
    <3> QED BY <1>6, <1>7, <3>1
  <2>2. c > k /\ c - k \in Nat
    BY <1>2, <1>6, <2>1
  <2>3. c - k \in 1..Len(q) /\ q[c - k] = p[c]
    BY <1>2, <2>1, <2>2 DEF Shifted
  <2>4. \A i \in 1..Len(q) : q[i].at <= at => i <= d
    BY <1>2, <1>3, <1>5, NewestIs
  <2>5. c - k <= d
    BY <2>1, <2>3, <2>4
  <2> QED BY <1>2, <1>6, <2>1, <2>2, <2>5
<1>10. Cur(at)' = q[d] /\ Cur(at) = p[c] /\ p[c] = q[d]
  BY <1>1, <1>4, <1>7, <1>9 DEF Cur
<1>11. PICK x : x = q[d].at - w
  OBVIOUS
<1>12. x \in Int /\ x <= at
  BY <1>6, <1>7, <1>11
<1>13. NewestBy(q, d - 1, x) = BaseIndex(at, w)' /\ NewestBy(p, c - 1, x) = BaseIndex(at, w)
  BY <1>1, <1>4, <1>10, <1>11 DEF BaseIndex
<1>14. c - 1 \in 0..Len(p) /\ d - 1 \in 0..Len(q) /\ c - 1 = k + (d - 1) /\ NewestBy(q, d - 1, x) # 0
  BY <1>2, <1>6, <1>7, <1>9, <1>13
<1>15. p[NewestBy(p, c - 1, x)] = q[NewestBy(q, d - 1, x)]
  BY <1>2, <1>12, <1>14, SameFound
<1>16. RollBase(at, w)' = q[NewestBy(q, d - 1, x)] /\ RollBase(at, w) = p[NewestBy(p, c - 1, x)]
  BY <1>1, <1>13 DEF RollBase
<1> QED BY <1>10, <1>15, <1>16

\* d is c with the line at its end.
OneMore(c, line, d) ==
  /\ c \in Seq(Line) /\ d \in Seq(Line) /\ Len(d) = Len(c) + 1 /\ d[Len(c) + 1] = line
  /\ \A i \in 1..Len(c) : d[i] = c[i]

\* A line more at the end of a file adds itself to what can be read, or nothing.
LEMMA ReadableGrows ==
  ASSUME NEW c, NEW line, NEW d, OneMore(c, line, d)
  PROVE  /\ Len(Readable(d)) \in {Len(Readable(c)), Len(Readable(c)) + 1}
         /\ \A i \in 1..Len(Readable(c)) : Readable(d)[i] = Readable(c)[i]
         /\ Len(Readable(d)) = Len(Readable(c)) + 1 => Readable(d)[Len(Readable(d))] = line
<1>1. /\ d \in Seq(Line) /\ Len(d) = Len(c) + 1 /\ d[Len(c) + 1] = line /\ Len(c) \in Nat
      /\ c \in Seq(Line) /\ \A i \in 1..Len(c) : d[i] = c[i]
  BY DEF OneMore
<1>2. PICK r, u : r = Readable(c) /\ u = Readable(d)
  OBVIOUS
<1>3. /\ Len(r) \in 0..Len(c) /\ \A i \in 1..Len(r) : r[i] = c[i] /\ c[i].ok
      /\ Len(r) < Len(c) => ~c[Len(r) + 1].ok
  BY <1>1, <1>2, ReadableIs
<1>4. /\ Len(u) \in 0..Len(d) /\ \A i \in 1..Len(u) : u[i] = d[i] /\ d[i].ok
      /\ Len(u) < Len(d) => ~d[Len(u) + 1].ok
  BY <1>1, <1>2, ReadableIs
<1>5. Len(u) >= Len(r)
  <2> SUFFICES ASSUME Len(u) < Len(r) PROVE FALSE
    BY <1>1, <1>3, <1>4
  <2>1. Len(u) + 1 \in 1..Len(r) /\ Len(u) + 1 \in 1..Len(c) /\ Len(u) < Len(d)
    BY <1>1, <1>3, <1>4
  <2> QED BY <1>1, <1>3, <1>4, <2>1
<1>6. Len(r) < Len(c) => Len(u) <= Len(r)
  <2> SUFFICES ASSUME Len(r) < Len(c), Len(u) > Len(r) PROVE FALSE
    BY <1>1, <1>3, <1>4
  <2>1. Len(r) + 1 \in 1..Len(u) /\ Len(r) + 1 \in 1..Len(c)
    BY <1>1, <1>3, <1>4
  <2> QED BY <1>1, <1>3, <1>4, <2>1
<1>7. Len(u) = Len(r) \/ (Len(u) = Len(r) + 1 /\ Len(r) = Len(c))
  BY <1>1, <1>3, <1>4, <1>5, <1>6
<1>8. \A i \in 1..Len(r) : u[i] = r[i]
  <2> SUFFICES ASSUME NEW i \in 1..Len(r) PROVE u[i] = r[i]
    OBVIOUS
  <2>1. i \in 1..Len(u) /\ i \in 1..Len(c)
    BY <1>1, <1>3, <1>4, <1>5
  <2> QED BY <1>1, <1>3, <1>4, <2>1
<1>9. Len(u) = Len(r) + 1 => u[Len(u)] = line
  BY <1>1, <1>3, <1>4, <1>7
<1> QED BY <1>2, <1>7, <1>8, <1>9

\* What can be read once a later line has been appended.
LEMMA PlacesShift ==
  ASSUME HistInv, NEW line \in Line, NEW at \in Nat, at < line.at, rolls' = Appended(rolls, line)
  PROVE  \E k : Shifted(Places, Places', k, at)
<1>1. PICK o, c : o = rolls.old /\ c = rolls.cur
  OBVIOUS
<1>2. o \in Seq(Line) /\ c \in Seq(Line)
  BY <1>1 DEF HistInv, RollsTrue, FileTrue
<1>3. PICK ro, rc, p : ro = Readable(o) /\ rc = Readable(c) /\ p = ro \o rc
  OBVIOUS
<1>4. ro \in Seq(Line) /\ Len(ro) \in Nat /\ rc \in Seq(Line) /\ Len(rc) \in Nat
  BY <1>2, <1>3, ReadableIs
<1>5. Places = p
  BY <1>1, <1>3 DEF Places
<1>6. /\ p \in Seq(Line) /\ Len(p) = Len(ro) + Len(rc)
      /\ \A i \in 1..(Len(ro) + Len(rc)) : p[i] = IF i <= Len(ro) THEN ro[i] ELSE rc[i - Len(ro)]
  BY <1>3, <1>4, ConcatProperties
<1>7. line.at \in Nat
  BY DEF Line
<1>8. CASE Len(c) >= RollMax
  <2>1. PICK s, q : s = Readable(<<line>>) /\ q = rc \o s
    OBVIOUS
  <2>2. rolls' = [old |-> c, cur |-> <<line>>]
    BY <1>1, <1>8 DEF Appended
  <2>3. Places' = q
    BY <1>3, <2>1, <2>2 DEF Places
  <2>4. <<line>> \in Seq(Line) /\ Len(<<line>>) = 1 /\ <<line>>[1] = line
    OBVIOUS
  <2>5. s \in Seq(Line) /\ Len(s) \in 0..1 /\ \A i \in 1..Len(s) : s[i] = line
    <3>1. s \in Seq(Line) /\ Len(s) \in 0..Len(<<line>>) /\ \A i \in 1..Len(s) : s[i] = <<line>>[i]
      BY <2>1, <2>4, ReadableIs
    <3>2. \A i \in 1..Len(s) : i = 1
      BY <2>4, <3>1
    <3> QED BY <2>4, <3>1, <3>2
  <2>6. /\ q \in Seq(Line) /\ Len(q) = Len(rc) + Len(s)
        /\ \A i \in 1..(Len(rc) + Len(s)) : q[i] = IF i <= Len(rc) THEN rc[i] ELSE s[i - Len(rc)]
    BY <1>4, <2>1, <2>5, ConcatProperties
  <2>7. ASSUME NEW i \in 1..Len(q), q[i].at <= at PROVE Len(ro) + i \in 1..Len(p) /\ p[Len(ro) + i] = q[i]
    <3>1. i <= Len(rc)
      <4> SUFFICES ASSUME ~(i <= Len(rc)) PROVE FALSE
        OBVIOUS
      <4>1. q[i] = s[i - Len(rc)] /\ i - Len(rc) \in 1..Len(s)
        BY <1>4, <2>5, <2>6
      <4> QED BY <1>7, <2>5, <2>7, <4>1
    <3>2. q[i] = rc[i] /\ Len(ro) + i \in 1..(Len(ro) + Len(rc)) /\ ~(Len(ro) + i <= Len(ro)) /\ (Len(ro) + i) - Len(ro) = i
      BY <1>4, <2>5, <2>6, <3>1
    <3> QED BY <1>6, <3>2
  <2>8. ASSUME NEW j \in 1..Len(p), j > Len(ro) PROVE j - Len(ro) \in 1..Len(q) /\ q[j - Len(ro)] = p[j]
    <3>1. j - Len(ro) \in 1..Len(rc) /\ j - Len(ro) \in 1..(Len(rc) + Len(s)) /\ j - Len(ro) <= Len(rc) /\ ~(j <= Len(ro))
      BY <1>4, <1>6, <2>5, <2>8
    <3> QED BY <1>6, <2>6, <3>1
  <2> QED BY <1>4, <1>5, <1>6, <2>3, <2>6, <2>7, <2>8 DEF Shifted
<1>9. CASE ~(Len(c) >= RollMax)
  <2>1. PICK d, s, q : d = Append(c, line) /\ s = Readable(d) /\ q = ro \o s
    OBVIOUS
  <2>2. rolls'.old = o /\ rolls'.cur = d
    BY <1>1, <1>9, <2>1 DEF Appended, HistInv, RollsTrue
  <2>3. Places' = q
    BY <1>3, <2>1, <2>2 DEF Places
  <2>4. d \in Seq(Line)
    BY <1>2, <2>1, AppendProperties
  <2>5. s \in Seq(Line) /\ Len(s) \in Nat
    <3>1. Readable(d) \in Seq(Line)
      BY <2>4, ReadableIs
    <3>2. s = Readable(d)
      BY <2>1
    <3> QED BY <3>1, <3>2
  <2>6. /\ Len(s) \in {Len(rc), Len(rc) + 1} /\ \A i \in 1..Len(rc) : s[i] = rc[i]
        /\ Len(s) = Len(rc) + 1 => s[Len(s)] = line
    <3>1. OneMore(c, line, d)
      BY <1>2, <2>1, AppendProperties DEF OneMore
    <3>2. /\ Len(Readable(d)) \in {Len(Readable(c)), Len(Readable(c)) + 1}
          /\ \A i \in 1..Len(Readable(c)) : Readable(d)[i] = Readable(c)[i]
          /\ Len(Readable(d)) = Len(Readable(c)) + 1 => Readable(d)[Len(Readable(d))] = line
      BY <3>1, ReadableGrows
    <3>3. s = Readable(d) /\ rc = Readable(c)
      BY <1>3, <2>1
    <3> QED BY <3>2, <3>3
  <2>7. /\ q \in Seq(Line) /\ Len(q) = Len(ro) + Len(s)
        /\ \A i \in 1..(Len(ro) + Len(s)) : q[i] = IF i <= Len(ro) THEN ro[i] ELSE s[i - Len(ro)]
    BY <1>4, <2>1, <2>5, ConcatProperties
  <2>8. \A j \in 1..Len(p) : j \in 1..Len(q) /\ q[j] = p[j]
    <3> SUFFICES ASSUME NEW j \in 1..Len(p) PROVE j \in 1..Len(q) /\ q[j] = p[j]
      OBVIOUS
    <3>1. j \in 1..(Len(ro) + Len(s)) /\ j \in 1..(Len(ro) + Len(rc))
      BY <1>4, <1>6, <2>5, <2>6
    <3>2. CASE j <= Len(ro)
      BY <1>6, <2>7, <3>1, <3>2
    <3>3. CASE ~(j <= Len(ro))
      <4>1. j - Len(ro) \in 1..Len(rc)
        BY <1>4, <3>1, <3>3
      <4> QED BY <1>6, <2>6, <2>7, <3>1, <3>3, <4>1
    <3> QED BY <3>2, <3>3
  <2>9. ASSUME NEW i \in 1..Len(q), q[i].at <= at PROVE i \in 1..Len(p)
    <3> SUFFICES ASSUME i \notin 1..Len(p) PROVE FALSE
      OBVIOUS
    <3>1. i = Len(ro) + Len(rc) + 1 /\ Len(s) = Len(rc) + 1 /\ i - Len(ro) = Len(s) /\ ~(i <= Len(ro))
      BY <1>4, <1>6, <2>5, <2>6, <2>7
    <3>2. q[i] = line
      BY <2>6, <2>7, <3>1
    <3> QED BY <1>7, <2>9, <3>2
  <2>10. Shifted(p, q, 0, at)
    <3>1. \A i \in 1..Len(q) : q[i].at <= at => 0 + i \in 1..Len(p) /\ p[0 + i] = q[i]
      <4> SUFFICES ASSUME NEW i \in 1..Len(q), q[i].at <= at PROVE 0 + i \in 1..Len(p) /\ p[0 + i] = q[i]
        OBVIOUS
      <4>1. 0 + i = i /\ i \in 1..Len(p)
        BY <2>7, <2>9, <2>5, <1>4
      <4> QED BY <2>8, <4>1
    <3>2. \A j \in 1..Len(p) : j - 0 \in 1..Len(q) /\ q[j - 0] = p[j]
      <4> SUFFICES ASSUME NEW j \in 1..Len(p) PROVE j - 0 \in 1..Len(q) /\ q[j - 0] = p[j]
        OBVIOUS
      <4>1. j - 0 = j
        BY <1>4, <1>6
      <4> QED BY <2>8, <4>1
    <3> QED BY <1>6, <2>7, <3>1, <3>2 DEF Shifted
  <2> QED BY <1>5, <2>3, <2>10
<1> QED BY <1>8, <1>9

LEMMA PlacesKept ==
  ASSUME HistInv, NEW at \in Nat, rolls' = rolls
  PROVE  Shifted(Places, Places', 0, at)
<1>1. PICK p : p = Places
  OBVIOUS
<1>2. p \in Seq(Line) /\ Len(p) \in Nat
  BY <1>1, PlacesAre
<1>3. Places' = p
  BY <1>1 DEF Places
<1>4. \A i \in 1..Len(p) : 0 + i = i /\ i - 0 = i
  BY <1>2
<1>5. Shifted(p, p, 0, at)
  BY <1>2, <1>4 DEF Shifted
<1> QED BY <1>1, <1>3, <1>5

LEMMA PastStaysFixed ==
  ASSUME HistInv, [HistNext]_histVars, NEW at \in 1..(clock - 1), NEW w \in Windows, Explained(at, w)'
  PROVE  PastTotal(at, w)' = PastTotal(at, w) /\ PastVCPUs(at, w)' = PastVCPUs(at, w)
<1>1. clock \in Nat /\ at \in Nat /\ at < clock /\ w \in Nat /\ RollEvery \in Nat
  BY HistoryAssumption DEF HistInv, WorldTypes
<1>2. PICK v : v = AtWindow(w)
  OBVIOUS
<1>3. v \in Nat /\ AtWindow(w)' = v
  BY <1>1, <1>2 DEF AtWindow
<1>4. CurIndex(at)' # 0 /\ BaseIndex(at, v)' # 0
  BY <1>2, <1>3 DEF Explained
<1>5. \E k : Shifted(Places, Places', k, at)
  <2>1. ASSUME NEW l \in {RollupSnap(kern), TornRoll(RollupSnap(kern))}, rolls' = Appended(rolls, l)
        PROVE  \E k : Shifted(Places, Places', k, at)
    <3>1. l \in Line /\ l.at = clock
      BY LinesAre
    <3> QED BY <1>1, <2>1, <3>1, PlacesShift
  <2>2. \/ rolls' = rolls \/ rolls' = Appended(rolls, RollupSnap(kern))
        \/ rolls' = Appended(rolls, TornRoll(RollupSnap(kern)))
    BY DEF HistNext, histVars, Work, ThreadEnds, ThreadStarts, EntryEvicted, TimePasses, ScanProc, ScanMisses,
           SetCounters, SetCountersNotStored, Restart
  <2> QED BY <1>1, <2>1, <2>2, PlacesKept
<1>6. Cur(at)' = Cur(at) /\ RollBase(at, v)' = RollBase(at, v)
  BY <1>1, <1>3, <1>4, <1>5, SameLines
<1>7. /\ PastTotal(at, w) = sub(Cur(at).total, RollBase(at, v).total)
      /\ PastTotal(at, w)' = sub(Cur(at)'.total, RollBase(at, v)'.total)
  BY <1>2, <1>3 DEF PastTotal
<1>8. /\ PastVCPUs(at, w) = Delta(Cur(at).vcpus, RollBase(at, v).vcpus)
      /\ PastVCPUs(at, w)' = Delta(Cur(at)'.vcpus, RollBase(at, v)'.vcpus)
  BY <1>2, <1>3 DEF PastVCPUs
<1> HIDE DEF sub, Delta, PastTotal, PastVCPUs
<1> QED BY <1>6, <1>7, <1>8

\* What is said of a window, of the last minutes or of a past time, is never more than what was done in it, is
\* about a window as long as the one asked for, and stays as it was said (history.go, rollup.go, aggregate.go).
THEOREM WindowsTellTheTruth == HistSpec => WindowsAreTrue
<1>1. HistSpec => []HistInv
  BY HistInvHolds
<1>2. HistInv => HistTypeOK /\ WindowNeverOvercounts /\ WindowIsCovered /\ PastNeverOvercounts
  BY HistTypes, WindowsDoNotOvercount, WindowsAreCovered, PastDoesNotOvercount
<1>3. HistInv /\ [HistNext]_histVars =>
        [\A at \in 1..(clock - 1), w \in Windows :
           Explained(at, w) /\ Explained(at, w)' =>
             PastTotal(at, w)' = PastTotal(at, w) /\ PastVCPUs(at, w)' = PastVCPUs(at, w)]_histVars
  BY PastStaysFixed
<1> QED BY <1>1, <1>2, <1>3, PTL DEF HistSpec, WindowsAreTrue, PastIsFixed

=============================================================================
