-------------------------- MODULE TapManagerProofs --------------------------
(***************************************************************************)
(* Proofs about TapManager: what the daemon reports of a tap is what the   *)
(* kernel does for it.                                                     *)
(***************************************************************************)
EXTENDS TapManager, TLAPS

-----------------------------------------------------------------------------
(* The inductive invariant.                                                *)

Amid(op, t) == mid = [op |-> op, tap |-> t]
Carried(i) == \E t \in Taps : taps[t].ifindex = i

\* No two interfaces have one index.
InterfacesApart == \A t, u \in Taps : t # u /\ Live(t) => iface[t] # iface[u]

\* A link that is on an index is on its tap's interface, and for a tap that the process carries on the index it knows.
On(t, l) == l[t] \in Indexes => l[t] = iface[t] /\ (Carries(t) => l[t] = taps[t].ifindex)
LinksFollow == \A t \in Taps : On(t, inLink) /\ On(t, outLink)

\* A tap that is carried, and whose interface is the one it was carried on, has both links.
CarriedIsLinked ==
  \A t \in Taps : Carries(t) /\ iface[t] = taps[t].ifindex /\ ~Amid("detach", t)
                  => inLink[t] = iface[t] /\ outLink[t] = iface[t]

\* What an attach or a detach has done when the process may die in it; a daemon that is down carries nothing.
HalfDone ==
  /\ \A t \in Taps : /\ Amid("attach", t) => outLink[t] = NoLink /\ ~Carries(t)
                     /\ Amid("detach", t) => inLink[t] = NoLink /\ Carries(t)
  /\ ~up => mid = NoMid /\ \A t \in Taps : ~Carries(t)

\* An attach or a detach is of a SyncTaps that is under way.
MidOfSync == mid # NoMid => \E r \in DOMAIN refresh : Syncing(r)

\* An index that no tap of the process has, and that was not torn, has no map entries but those of
\* a tap whose two links are still on it.
ListOf(t, i) == list[i] \subseteq {t} /\ (pol[i].egress # "off" => list[i] = {t})
Empty(i) == pol[i] = Clear /\ list[i] = {}
Adoptable(i) == \E t \in Taps : inLink[t] = i /\ outLink[t] = i /\ ListOf(t, i)
NothingLeft == \A i \in Indexes : i \notin torn /\ ~Carried(i) => Empty(i) \/ Adoptable(i)

\* The body of CacheIsKernel.
Agrees(t) ==
  /\ pol[taps[t].ifindex] = [isolated |-> taps[t].isolated, egress |-> taps[t].egress]
  /\ list[taps[t].ifindex] \subseteq {t}
  /\ taps[t].egress # "off" => list[taps[t].ifindex] = {t}

HostInv == InterfacesApart /\ LinksFollow /\ CarriedIsLinked /\ HalfDone
MapInv == NothingLeft /\ CacheIsKernel
IInv == TypeOK /\ HostInv /\ MapInv /\ MidOfSync

-----------------------------------------------------------------------------
(* The constants and the shapes.                                           *)

\* An index is none of the values that stand for no index.
LEMMA IndexFacts ==
  /\ Indexes \subseteq Nat /\ 0 \notin Indexes /\ -1 \notin Indexes
  /\ NoIndex = 0 /\ Dead = 0 /\ NoLink = -1
  BY ConstantsAssumption DEF NoIndex, Dead, NoLink

\* What the process holds for a tap that it carries.
LEMMA CarriedType ==
  ASSUME TypeOK, NEW t \in Taps
  PROVE  /\ taps[t] \in TapLinks
         /\ Carries(t) => taps[t].ifindex \in Indexes /\ taps[t].isolated \in BOOLEAN /\ taps[t].egress \in Modes
                          /\ taps[t].quarantine \in BOOLEAN
         /\ taps[t].ifindex \in Indexes => Carries(t)
         /\ ~Carries(t) => taps[t] = NoTap
<1>1. taps[t] \in TapLinks
  BY DEF TypeOK
<1>2. CASE taps[t] = NoTap
  BY <1>1, <1>2, IndexFacts DEF NoTap, Carries
<1>3. CASE taps[t] \in [ifindex : Indexes, isolated : BOOLEAN, egress : Modes, quarantine : BOOLEAN]
  BY <1>1, <1>3, IndexFacts DEF Carries
<1> QED BY <1>1, <1>2, <1>3 DEF TapLinks

\* CacheIsKernel, tap by tap.
LEMMA CacheByTap ==
  CacheIsKernel <=> \A t \in Taps : Carries(t) /\ taps[t].ifindex \notin torn /\ ~Shared(taps[t].ifindex) => Agrees(t)
  BY DEF CacheIsKernel, Agrees

\* The values that a step writes have their types.
LEMMA ValueTypes ==
  /\ Clear \in Policy /\ NoTap \in TapLinks /\ NoMid \in MidState /\ Idle \in RefreshState
  /\ \A on \in BOOLEAN, m \in Modes : [isolated |-> on, egress |-> m] \in Policy
  /\ \A i \in Indexes, on \in BOOLEAN, m \in Modes, q \in BOOLEAN :
       [ifindex |-> i, isolated |-> on, egress |-> m, quarantine |-> q] \in TapLinks
  /\ \A t \in Taps : [op |-> "attach", tap |-> t] \in MidState /\ [op |-> "detach", tap |-> t] \in MidState
  BY DEF Clear, Policy, NoTap, TapLinks, NoMid, MidState, Idle, RefreshState, Stages, Modes

-----------------------------------------------------------------------------
LEMMA InitInv == Init => IInv
<1> SUFFICES ASSUME Init PROVE IInv
  OBVIOUS
<1> USE IndexFacts
<1>1. TypeOK
  <2>1. PICK s \in Setups : refresh = [r \in s.refreshers |-> Idle] /\ host = s.host /\ asks = s.asks /\ faults = s.faults
    BY DEF Init
  <2>2. s.refreshers \subseteq Refreshers /\ s.host \in 0..MaxHost /\ s.asks \in 0..MaxAsks /\ s.faults \in 0..MaxFaults
    BY ConstantsAssumption
  <2>3. DOMAIN refresh \subseteq Refreshers /\ \A r \in DOMAIN refresh : refresh[r] \in RefreshState
    BY <2>1, <2>2, ValueTypes
  <2>4. /\ iface \in [Taps -> Indexes \cup {NoIndex}] /\ inLink \in [Taps -> LinkState] /\ outLink \in [Taps -> LinkState]
        /\ pol \in [Indexes -> Policy] /\ list \in [Indexes -> SUBSET Taps] /\ taps \in [Taps -> TapLinks]
    BY ValueTypes DEF Init, LinkState
  <2>5. mid \in MidState /\ up \in BOOLEAN
    BY ValueTypes DEF Init
  <2>6. isolate \in SUBSET Taps /\ saved \in [Taps -> Modes] /\ torn \in SUBSET Indexes
    BY DEF Init, Modes
  <2> QED BY <2>1, <2>2, <2>3, <2>4, <2>5, <2>6 DEF TypeOK
<1>2. \A t \in Taps : ~Carries(t) /\ iface[t] = 0 /\ inLink[t] = -1 /\ outLink[t] = -1
  BY DEF Init, Carries, NoTap
<1>3. HostInv
  BY <1>2 DEF Init, HostInv, InterfacesApart, LinksFollow, On, CarriedIsLinked, HalfDone, Live, Amid, NoMid
<1>4. MapInv
  BY <1>2 DEF Init, MapInv, NothingLeft, CacheIsKernel, Empty
<1>5. MidOfSync
  BY DEF Init, MidOfSync
<1> QED BY <1>1, <1>3, <1>4, <1>5 DEF IInv

-----------------------------------------------------------------------------
(* What a step leaves alone.                                               *)

\* The invariant is about the host, the kernel, and what the process holds.
LEMMA Frame ==
  ASSUME IInv, TypeOK', MidOfSync', UNCHANGED <<iface, kernel, taps, torn, mid, up>>
  PROVE  IInv'
<1>1. HostInv'
  BY DEF IInv, HostInv, InterfacesApart, LinksFollow, On, CarriedIsLinked, HalfDone, Live, Amid, Carries, kernel
<1>2. MapInv'
  BY DEF IInv, MapInv, NothingLeft, CacheIsKernel, Carried, Empty, Adoptable, ListOf, Carries, Shared, kernel
<1> QED BY <1>1, <1>2 DEF IInv

-----------------------------------------------------------------------------
(* The host.                                                               *)

LEMMA InterfaceUpInv ==
  ASSUME IInv, NEW t \in Taps, NEW i \in Indexes, InterfaceUp(t, i)
  PROVE  IInv'
<1> USE IndexFacts
<1>1. /\ host < MaxHost /\ host' = host + 1 /\ iface[t] = 0 /\ taps[t].ifindex # i /\ \A u \in Taps : iface[u] # i
      /\ iface' = [iface EXCEPT ![t] = i]
      /\ UNCHANGED <<inLink, outLink, pol, list, taps, mid, up, isolate, saved, refresh, torn, asks, faults>>
  BY DEF InterfaceUp, Live, kernel, record
<1>2. TypeOK'
  BY <1>1, ConstantsAssumption DEF IInv, TypeOK
<1>3. iface'[t] = i /\ \A u \in Taps \ {t} : iface'[u] = iface[u]
  BY <1>1 DEF IInv, TypeOK
<1>4. inLink[t] \notin Indexes /\ outLink[t] \notin Indexes
  BY <1>1 DEF IInv, HostInv, LinksFollow, On
<1>5. HostInv'
  <2>1. InterfacesApart'
    BY <1>1, <1>3 DEF IInv, HostInv, InterfacesApart, Live
  <2>2. LinksFollow'
    BY <1>1, <1>3, <1>4 DEF IInv, HostInv, LinksFollow, On, Carries
  <2>3. CarriedIsLinked'
    BY <1>1, <1>3 DEF IInv, HostInv, CarriedIsLinked, Carries, Amid
  <2>4. HalfDone'
    BY <1>1 DEF IInv, HostInv, HalfDone, Carries, Amid
  <2> QED BY <2>1, <2>2, <2>3, <2>4 DEF HostInv
<1>6. MapInv'
  BY <1>1 DEF IInv, MapInv, NothingLeft, CacheIsKernel, Carried, Empty, Adoptable, ListOf, Carries, Shared
<1>7. MidOfSync'
  BY <1>1 DEF IInv, MidOfSync, Syncing
<1> QED BY <1>2, <1>5, <1>6, <1>7 DEF IInv

LEMMA InterfaceDownInv ==
  ASSUME IInv, NEW t \in Taps, InterfaceDown(t)
  PROVE  IInv'
<1> USE IndexFacts
<1> DEFINE i == iface[t]
<1>1. /\ host < MaxHost /\ host' = host + 1 /\ i # 0
      /\ inLink' = [u \in Taps |-> IF inLink[u] = i THEN 0 ELSE inLink[u]]
      /\ outLink' = [u \in Taps |-> IF outLink[u] = i THEN 0 ELSE outLink[u]]
      /\ torn' = torn \cup ({i} \ {taps[u].ifindex : u \in Taps})
      /\ iface' = [iface EXCEPT ![t] = 0]
      /\ UNCHANGED <<pol, list, taps, mid, up, isolate, saved, refresh, asks, faults>>
  BY DEF InterfaceDown, Live, record
<1>2. i \in Indexes /\ iface'[t] = 0 /\ \A u \in Taps \ {t} : iface'[u] = iface[u] /\ iface[u] # i
  BY <1>1 DEF IInv, TypeOK, HostInv, InterfacesApart, Live
<1>3. TypeOK'
  <2>1. inLink' \in [Taps -> LinkState] /\ outLink' \in [Taps -> LinkState] /\ iface' \in [Taps -> Indexes \cup {NoIndex}]
    BY <1>1 DEF IInv, TypeOK, LinkState
  <2>2. host' \in 0..MaxHost
    BY <1>1, ConstantsAssumption DEF IInv, TypeOK
  <2>3. torn' \in SUBSET Indexes
    <3>1. torn \subseteq Indexes /\ torn' \subseteq torn \cup {i}
      BY <1>1 DEF IInv, TypeOK
    <3> QED BY <1>2, <3>1
  <2> QED BY <1>1, <2>1, <2>2, <2>3 DEF IInv, TypeOK
<1>4. /\ \A u \in Taps : inLink'[u] = IF inLink[u] = i THEN 0 ELSE inLink[u]
      /\ \A u \in Taps : outLink'[u] = IF outLink[u] = i THEN 0 ELSE outLink[u]
  BY <1>1
<1> HIDE DEF i
<1>5. HostInv'
  <2>1. InterfacesApart'
    BY <1>1, <1>2 DEF IInv, HostInv, InterfacesApart, Live
  <2>2. \A u \in Taps : (inLink[u] \in Indexes => inLink[u] = iface[u]) /\ (outLink[u] \in Indexes => outLink[u] = iface[u])
    BY DEF IInv, HostInv, LinksFollow, On
  <2>3. \A u \in Taps : (inLink'[u] \in Indexes => u # t) /\ (outLink'[u] \in Indexes => u # t)
    BY <1>4, <2>2 DEF i
  <2>4. LinksFollow'
    BY <1>1, <1>2, <1>4, <2>3 DEF IInv, HostInv, LinksFollow, On, Carries
  <2>5. CarriedIsLinked'
    BY <1>1, <1>2, <1>4 DEF IInv, HostInv, CarriedIsLinked, Carries, Amid
  <2>6. HalfDone'
    BY <1>1, <1>2, <1>4 DEF IInv, HostInv, HalfDone, Carries, Amid
  <2> QED BY <2>1, <2>4, <2>5, <2>6 DEF HostInv
<1>6. NothingLeft'
  <2> SUFFICES ASSUME NEW j \in Indexes, j \notin torn', ~Carried(j)' PROVE (Empty(j) \/ Adoptable(j))'
    BY DEF NothingLeft
  <2>1. ~Carried(j) /\ j \notin torn /\ j # i
    BY <1>1, <1>2 DEF Carried
  <2>2. Empty(j) \/ Adoptable(j)
    BY <2>1 DEF IInv, MapInv, NothingLeft
  <2>3. Empty(j) => Empty(j)'
    BY <1>1 DEF Empty
  <2>4. Adoptable(j) => Adoptable(j)'
    BY <1>1, <1>4, <2>1 DEF Adoptable, ListOf
  <2> QED BY <2>2, <2>3, <2>4
<1>7. CacheIsKernel'
  BY <1>1 DEF IInv, MapInv, CacheIsKernel, Carries, Shared
<1>8. MidOfSync'
  BY <1>1 DEF IInv, MidOfSync, Syncing
<1> QED BY <1>3, <1>5, <1>6, <1>7, <1>8 DEF IInv, MapInv

-----------------------------------------------------------------------------
(* Writes of the maps.                                                     *)

\* A write for a tap touches its index and its note, and leaves them in agreement unless it counts as torn.
Wrote(t, i) ==
  /\ Carries(t) /\ i = taps[t].ifindex
  /\ taps' \in [Taps -> TapLinks] /\ taps'[t].ifindex = i /\ \A u \in Taps \ {t} : taps'[u] = taps[u]
  /\ pol' \in [Indexes -> Policy] /\ list' \in [Indexes -> SUBSET Taps] /\ torn' \in SUBSET Indexes
  /\ \A j \in Indexes \ {i} : pol'[j] = pol[j] /\ list'[j] = list[j] /\ (j \in torn' <=> j \in torn)
  /\ i \notin torn' /\ ~Shared(i) => Agrees(t)'

\* A note changes the tap's entry alone.
LEMMA NoteType ==
  ASSUME TypeOK, NEW t \in Taps, Carries(t), NEW on \in BOOLEAN, NEW m \in Modes, NEW q \in BOOLEAN, Note(t, on, m, q)
  PROVE  /\ taps' \in [Taps -> TapLinks] /\ \A u \in Taps \ {t} : taps'[u] = taps[u]
         /\ taps'[t].ifindex = taps[t].ifindex /\ taps'[t].isolated = on /\ taps'[t].egress = m
<1>1. taps[t].ifindex \in Indexes
  BY CarriedType
<1>2. [ifindex |-> taps[t].ifindex, isolated |-> on, egress |-> m, quarantine |-> q] \in TapLinks
  BY <1>1, ValueTypes
<1> QED BY <1>2 DEF Note, TypeOK

\* The calls that write are such writes.
LEMMA WritesWrite ==
  ASSUME IInv, NEW t \in Taps,
         \/ \E on \in BOOLEAN : SetTapIsolated(t, on)
         \/ SetTapQuarantine(t)
         \/ \E m \in Modes : SetTapEgress(t, m) \/ SetTapEgressFails(t, m)
  PROVE  Wrote(t, taps[t].ifindex) /\ UNCHANGED <<inLink, outLink>>
<1> DEFINE i == taps[t].ifindex
<1>1. Carries(t) /\ i \in Indexes /\ taps[t].isolated \in BOOLEAN /\ taps[t].egress \in Modes /\ taps[t].quarantine \in BOOLEAN
  <2>1. Carries(t)
    BY DEF SetTapIsolated, SetTapQuarantine, SetTapEgress, SetTapEgressFails, Writable
  <2> QED BY <2>1, CarriedType DEF IInv
<1>2. pol \in [Indexes -> Policy] /\ list \in [Indexes -> SUBSET Taps] /\ torn \in SUBSET Indexes /\ taps \in [Taps -> TapLinks] /\ TypeOK
  BY DEF IInv, TypeOK
<1>3. i \notin torn /\ ~Shared(i) => Agrees(t)
  BY <1>1, CacheByTap DEF IInv, MapInv
<1>4. ASSUME NEW on \in BOOLEAN, SetTapIsolated(t, on) PROVE Wrote(t, i) /\ UNCHANGED <<inLink, outLink>>
  <2>1. /\ pol' = [pol EXCEPT ![i] = [isolated |-> on, egress |-> taps[t].egress]]
        /\ Note(t, on, taps[t].egress, taps[t].quarantine /\ on) /\ UNCHANGED <<inLink, outLink, list, torn>>
    BY <1>4 DEF SetTapIsolated, PutPolicy
  <2>2. (taps[t].quarantine /\ on) \in BOOLEAN
    BY <1>1
  <2>3. /\ taps' \in [Taps -> TapLinks] /\ \A u \in Taps \ {t} : taps'[u] = taps[u]
        /\ taps'[t].ifindex = taps[t].ifindex /\ taps'[t].isolated = on /\ taps'[t].egress = taps[t].egress
    BY <1>1, <1>2, <2>1, <2>2, NoteType
  <2>4. [isolated |-> on, egress |-> taps[t].egress] \in Policy
    BY <1>1, ValueTypes
  <2>5. i \notin torn' /\ ~Shared(i) => Agrees(t)'
    BY <1>1, <1>2, <1>3, <2>1, <2>3 DEF Agrees
  <2> QED BY <1>1, <1>2, <2>1, <2>3, <2>4, <2>5 DEF Wrote
<1>5. ASSUME SetTapQuarantine(t) PROVE Wrote(t, i) /\ UNCHANGED <<inLink, outLink>>
  <2>1. Note(t, TRUE, taps[t].egress, TRUE) /\ UNCHANGED <<inLink, outLink, list>>
    BY <1>5 DEF SetTapQuarantine
  <2>2. /\ taps' \in [Taps -> TapLinks] /\ \A u \in Taps \ {t} : taps'[u] = taps[u]
        /\ taps'[t].ifindex = taps[t].ifindex /\ taps'[t].isolated = TRUE /\ taps'[t].egress = taps[t].egress
    BY <1>1, <1>2, <2>1, NoteType
  <2>3. CASE pol' = [pol EXCEPT ![i] = [isolated |-> TRUE, egress |-> taps[t].egress]] /\ UNCHANGED torn
    <3>1. [isolated |-> TRUE, egress |-> taps[t].egress] \in Policy
      BY <1>1, ValueTypes
    <3>2. i \notin torn' /\ ~Shared(i) => Agrees(t)'
      BY <1>1, <1>2, <1>3, <2>1, <2>2, <2>3 DEF Agrees
    <3> QED BY <1>1, <1>2, <2>1, <2>2, <2>3, <3>1, <3>2 DEF Wrote
  <2>4. CASE UNCHANGED pol /\ torn' = torn \cup {i}
    BY <1>1, <1>2, <2>1, <2>2, <2>4 DEF Wrote
  <2> QED BY <1>5, <2>3, <2>4 DEF SetTapQuarantine, PutPolicy
<1>6. ASSUME NEW m \in Modes, SetTapEgress(t, m) PROVE Wrote(t, i) /\ UNCHANGED <<inLink, outLink>>
  <2> DEFINE kept == taps[t].isolated /\ ~taps[t].quarantine
             entries == IF m = "off" THEN {} ELSE {t}
  <2>1. /\ pol' = [pol EXCEPT ![i] = [isolated |-> kept, egress |-> m]] /\ list' = [list EXCEPT ![i] = entries]
        /\ Note(t, kept, m, FALSE) /\ torn' = torn \ {i} /\ UNCHANGED <<inLink, outLink>>
    BY <1>6 DEF SetTapEgress, PutPolicy
  <2>2. kept \in BOOLEAN
    BY <1>1
  <2> HIDE DEF kept
  <2>3. /\ taps' \in [Taps -> TapLinks] /\ \A u \in Taps \ {t} : taps'[u] = taps[u]
        /\ taps'[t].ifindex = taps[t].ifindex /\ taps'[t].isolated = kept /\ taps'[t].egress = m
    BY <1>1, <1>2, <2>1, <2>2, NoteType
  <2>4. [isolated |-> kept, egress |-> m] \in Policy
    BY <2>2, ValueTypes
  <2>5. Agrees(t)'
    BY <1>1, <1>2, <2>1, <2>3 DEF Agrees
  <2> QED BY <1>1, <1>2, <2>1, <2>3, <2>4, <2>5 DEF Wrote
<1>7. ASSUME NEW m \in Modes, SetTapEgressFails(t, m) PROVE Wrote(t, i) /\ UNCHANGED <<inLink, outLink>>
  <2>1. /\ list' = [list EXCEPT ![i] = @ \cup {t}] /\ torn' = torn \cup {i} /\ UNCHANGED <<inLink, outLink, pol>>
        /\ UNCHANGED taps \/ Note(t, taps[t].isolated /\ ~taps[t].quarantine, taps[t].egress, FALSE)
    BY <1>7 DEF SetTapEgressFails
  <2>2. (taps[t].isolated /\ ~taps[t].quarantine) \in BOOLEAN
    BY <1>1
  <2>3. taps' \in [Taps -> TapLinks] /\ taps'[t].ifindex = taps[t].ifindex /\ \A u \in Taps \ {t} : taps'[u] = taps[u]
    BY <1>1, <1>2, <2>1, <2>2, NoteType
  <2> QED BY <1>1, <1>2, <2>1, <2>3 DEF Wrote
<1> QED BY <1>4, <1>5, <1>6, <1>7

\* A write keeps the invariant.
LEMMA WroteInv ==
  ASSUME IInv, NEW t \in Taps, Wrote(t, taps[t].ifindex), UNCHANGED <<iface, inLink, outLink, mid, up>>
  PROVE  HostInv' /\ MapInv'
<1> DEFINE i == taps[t].ifindex
<1>1. \A u \in Taps : taps'[u].ifindex = taps[u].ifindex
  BY DEF Wrote
<1>2. \A u \in Taps : Carries(u)' <=> Carries(u)
  BY <1>1 DEF Carries
<1>3. \A j : (Shared(j)' <=> Shared(j)) /\ (Carried(j)' <=> Carried(j))
  BY <1>1 DEF Shared, Carried
<1>4. HostInv'
  BY <1>1, <1>2 DEF IInv, HostInv, InterfacesApart, LinksFollow, On, CarriedIsLinked, HalfDone, Live, Amid
<1>5. NothingLeft'
  <2> SUFFICES ASSUME NEW j \in Indexes, j \notin torn', ~Carried(j)' PROVE (Empty(j) \/ Adoptable(j))'
    BY DEF NothingLeft
  <2>1. ~Carried(j) /\ j # i
    BY <1>3 DEF Carried
  <2>2. pol'[j] = pol[j] /\ list'[j] = list[j] /\ j \notin torn
    BY <2>1 DEF Wrote
  <2>3. Empty(j) \/ Adoptable(j)
    BY <2>1, <2>2 DEF IInv, MapInv, NothingLeft
  <2> QED BY <2>2, <2>3 DEF Empty, Adoptable, ListOf
<1>6. CacheIsKernel'
  <2> SUFFICES ASSUME NEW u \in Taps, Carries(u)', taps'[u].ifindex \notin torn', ~Shared(taps[u].ifindex)'
               PROVE  Agrees(u)'
    <3>1. ~Shared(taps[t].ifindex)' <=> ~Shared(taps[t].ifindex)
      BY <1>1, <1>3
    <3> QED BY DEF CacheIsKernel, Agrees
  <2>1. Carries(u) /\ ~Shared(taps[u].ifindex) /\ taps[u].ifindex \notin torn'
    BY <1>1, <1>2, <1>3
  <2>2. CASE u = t
    BY <2>1, <2>2 DEF Wrote
  <2>3. CASE u # t
    <3>1. taps[u].ifindex # i /\ taps[u].ifindex \in Indexes
      BY <2>1, <2>3, CarriedType DEF Shared, Wrote, IInv
    <3>2. pol'[taps[u].ifindex] = pol[taps[u].ifindex] /\ list'[taps[u].ifindex] = list[taps[u].ifindex]
          /\ taps[u].ifindex \notin torn /\ taps'[u] = taps[u]
      BY <2>1, <2>3, <3>1 DEF Wrote
    <3>3. Agrees(u)
      BY <2>1, <3>2, CacheByTap DEF IInv, MapInv
    <3> QED BY <3>2, <3>3 DEF Agrees
  <2> QED BY <2>2, <2>3
<1> QED BY <1>4, <1>5, <1>6 DEF MapInv

-----------------------------------------------------------------------------
(* The parts of a step.                                                    *)

\* A fault is counted within its bound.
LEMMA FaultType == ASSUME TypeOK, Fault \/ NoFault PROVE faults' \in 0..MaxFaults
  BY ConstantsAssumption DEF TypeOK, Fault, NoFault

\* A Refresh that moves on leaves the others where they are.
LEMMA MoveType ==
  ASSUME TypeOK, NEW r \in DOMAIN refresh, NEW x \in RefreshState, refresh' = [refresh EXCEPT ![r] = x]
  PROVE  /\ DOMAIN refresh' = DOMAIN refresh /\ DOMAIN refresh' \subseteq Refreshers
         /\ \A q \in DOMAIN refresh' : refresh'[q] \in RefreshState
         /\ refresh'[r] = x /\ \A q \in DOMAIN refresh \ {r} : refresh'[q] = refresh[q]
  BY DEF TypeOK

LEMMA StageType ==
  ASSUME TypeOK, NEW r \in DOMAIN refresh, NEW s \in Stages, Stage(r, s)
  PROVE  /\ DOMAIN refresh' = DOMAIN refresh /\ DOMAIN refresh' \subseteq Refreshers
         /\ \A q \in DOMAIN refresh' : refresh'[q] \in RefreshState
         /\ refresh'[r].at = s /\ \A q \in DOMAIN refresh \ {r} : refresh'[q] = refresh[q]
<1>1. refresh[r] \in RefreshState
  BY DEF TypeOK
<1>2. [refresh[r] EXCEPT !.at = s] \in RefreshState /\ [refresh[r] EXCEPT !.at = s].at = s
  BY <1>1 DEF RefreshState
<1>3. refresh' = [refresh EXCEPT ![r] = [refresh[r] EXCEPT !.at = s]]
  BY DEF Stage
<1> HIDE DEF Stage
<1> DEFINE x == [refresh[r] EXCEPT !.at = s]
<1>4. x \in RefreshState /\ x.at = s /\ refresh' = [refresh EXCEPT ![r] = x]
  BY <1>2, <1>3
<1> HIDE DEF x
<1> QED BY <1>4, MoveType

\* While the manager's mutex is free nothing is half done.
LEMMA FreeIsWhole == ASSUME IInv, Free PROVE mid = NoMid /\ up
  BY DEF IInv, MidOfSync, Free

\* A step that only moves a Refresh on.
LEMMA MoveInv ==
  ASSUME IInv, UNCHANGED <<iface, kernel, taps, torn, mid, up, record, host, asks>>, Fault \/ NoFault,
         DOMAIN refresh' \subseteq Refreshers, \A q \in DOMAIN refresh' : refresh'[q] \in RefreshState, MidOfSync'
  PROVE  IInv'
<1>1. faults' \in 0..MaxFaults
  BY FaultType DEF IInv
<1>2. TypeOK'
  BY <1>1 DEF IInv, TypeOK, kernel, record
<1> QED BY <1>2, Frame

\* A step that only writes.
LEMMA WriteInv ==
  ASSUME IInv, NEW t \in Taps, Wrote(t, taps[t].ifindex), Free, UNCHANGED <<iface, inLink, outLink, mid, up>>,
         isolate' \in SUBSET Taps, saved' \in [Taps -> Modes], DOMAIN refresh' \subseteq Refreshers,
         \A q \in DOMAIN refresh' : refresh'[q] \in RefreshState,
         host' \in 0..MaxHost, asks' \in 0..MaxAsks, faults' \in 0..MaxFaults
  PROVE  IInv'
<1>1. HostInv' /\ MapInv'
  BY WroteInv
<1>2. TypeOK'
  BY DEF IInv, TypeOK, Wrote
<1>3. MidOfSync'
  BY FreeIsWhole DEF MidOfSync
<1> QED BY <1>1, <1>2, <1>3 DEF IInv

-----------------------------------------------------------------------------
(* What Refresh does beside SyncTaps, and the requests of people.          *)

LEMMA ScanInv == ASSUME IInv, NEW r \in DOMAIN refresh, Scan(r) PROVE IInv'
<1>1. PICK want \in SUBSET {t \in Taps : Live(t)} :
        /\ IF \A t \in Taps : Live(t) => t \in want THEN NoFault ELSE Fault
        /\ refresh' = [refresh EXCEPT ![r] = [at |-> "scanned", want |-> want, hold |-> {}]]
  BY DEF Scan
<1>2. refresh[r].at = "idle" /\ UNCHANGED <<iface, kernel, taps, mid, up, record, torn, host, asks>>
  BY DEF Scan
<1> DEFINE x == [at |-> "scanned", want |-> want, hold |-> {}]
<1>3. x \in RefreshState /\ x.at = "scanned"
  BY DEF RefreshState, Stages
<1>4. refresh' = [refresh EXCEPT ![r] = x]
  BY <1>1
<1> HIDE DEF x
<1>5. /\ DOMAIN refresh' = DOMAIN refresh /\ DOMAIN refresh' \subseteq Refreshers
      /\ \A q \in DOMAIN refresh' : refresh'[q] \in RefreshState
      /\ refresh'[r] = x /\ \A q \in DOMAIN refresh \ {r} : refresh'[q] = refresh[q]
  BY <1>3, <1>4, MoveType DEF IInv
<1>6. MidOfSync'
  BY <1>2, <1>5 DEF IInv, MidOfSync, Syncing
<1>7. Fault \/ NoFault
  BY <1>1
<1> QED BY <1>2, <1>5, <1>6, <1>7, MoveInv

LEMMA MovesInv ==
  ASSUME IInv, NEW r \in DOMAIN refresh, SyncTaps(r) \/ HoldDone(r) \/ PolicyDone(r) \/ RefreshDone(r) \/ SyncDone(r)
  PROVE  IInv'
<1>1. mid = NoMid
  BY FreeIsWhole DEF SyncTaps, HoldDone, PolicyDone, RefreshDone, SyncDone, Syncs
<1>2. UNCHANGED <<iface, kernel, taps, mid, up, record, torn, host, asks>> /\ (Fault \/ NoFault)
  BY DEF SyncTaps, HoldDone, PolicyDone, RefreshDone, SyncDone, bounds, NoFault
<1>3. MidOfSync'
  BY <1>1, <1>2 DEF MidOfSync
<1>4. DOMAIN refresh' \subseteq Refreshers /\ \A q \in DOMAIN refresh' : refresh'[q] \in RefreshState
  <2>1. ASSUME SyncTaps(r) \/ HoldDone(r) \/ PolicyDone(r)
        PROVE  DOMAIN refresh' \subseteq Refreshers /\ \A q \in DOMAIN refresh' : refresh'[q] \in RefreshState
    <3>1. PICK s \in Stages : Stage(r, s)
      BY <2>1 DEF SyncTaps, HoldDone, PolicyDone, Stages
    <3> QED BY <3>1, StageType DEF IInv
  <2>2. CASE RefreshDone(r)
    BY <2>2, MoveType, ValueTypes DEF RefreshDone, IInv
  <2>3. CASE SyncDone(r)
    <3> DEFINE hold == IF Quarantine THEN {t \in refresh[r].want : Carries(t) /\ saved[t] = "enforce" /\ taps[t].egress # "enforce"} ELSE {}
               x == [at |-> IF Quarantine THEN "hold" ELSE "policy", want |-> refresh[r].want, hold |-> hold]
    <3>1. refresh' = [refresh EXCEPT ![r] = x]
      BY <2>3 DEF SyncDone
    <3>2. refresh[r].want \in SUBSET Taps
      BY DEF IInv, TypeOK, RefreshState
    <3>3. hold \in SUBSET Taps
      BY <3>2
    <3> HIDE DEF hold
    <3>4. x \in RefreshState
      BY <3>2, <3>3 DEF RefreshState, Stages
    <3> QED BY <3>1, <3>4, MoveType DEF IInv
  <2> QED BY <2>1, <2>2, <2>3
<1> QED BY <1>2, <1>3, <1>4, MoveInv

LEMMA WritingInv ==
  ASSUME IInv, NEW t \in Taps,
         \/ \E r \in DOMAIN refresh : AfterTaps(r, t) \/ Reapply(r, t)
         \/ EngineTick(t) \/ IsolateTap(t) \/ ReleaseTap(t)
         \/ \E m \in Modes : SetPolicy(t, m)
  PROVE  IInv'
<1>1. /\ isolate \in SUBSET Taps /\ saved \in [Taps -> Modes] /\ host \in 0..MaxHost /\ asks \in 0..MaxAsks /\ faults \in 0..MaxFaults
      /\ DOMAIN refresh \subseteq Refreshers /\ \A q \in DOMAIN refresh : refresh[q] \in RefreshState
  BY DEF IInv, TypeOK
<1>2. ASSUME ReconcileTap(t), UNCHANGED refresh PROVE IInv'
  <2>1. saved[t] \in Modes
    BY <1>1
  <2>2. Wrote(t, taps[t].ifindex) /\ UNCHANGED <<inLink, outLink>>
    BY <1>2, <2>1, WritesWrite DEF ReconcileTap
  <2>3. faults' \in 0..MaxFaults
    BY <1>2, FaultType DEF IInv, ReconcileTap, SetTapEgress, SetTapEgressFails
  <2>4. Free /\ UNCHANGED <<iface, mid, up, isolate, saved, refresh, host, asks>>
    BY <1>2 DEF ReconcileTap, record
  <2> QED BY <1>1, <2>2, <2>3, <2>4, WriteInv
<1>3. ASSUME NEW on \in BOOLEAN, SetTapIsolated(t, on), Free, isolate' \in SUBSET Taps,
             UNCHANGED <<iface, mid, up, saved, refresh, host, faults>>, Ask \/ UNCHANGED asks
      PROVE  IInv'
  <2>1. Wrote(t, taps[t].ifindex) /\ UNCHANGED <<inLink, outLink>>
    BY <1>3, WritesWrite
  <2>2. asks' \in 0..MaxAsks
    BY <1>1, <1>3, ConstantsAssumption DEF Ask
  <2> QED BY <1>1, <1>3, <2>1, <2>2, WriteInv
<1>4. ASSUME NEW r \in DOMAIN refresh, Reapply(r, t) PROVE IInv'
  BY <1>1, <1>3, <1>4 DEF Reapply, record, bounds
<1>5. CASE IsolateTap(t)
  BY <1>1, <1>3, <1>5 DEF IsolateTap
<1>6. CASE ReleaseTap(t)
  <2>1. isolate' \in SUBSET Taps
    BY <1>1, <1>6 DEF ReleaseTap
  <2> QED BY <1>3, <1>6, <2>1 DEF ReleaseTap
<1>7. ASSUME NEW m \in Modes, SetPolicy(t, m) PROVE IInv'
  <2>1. Wrote(t, taps[t].ifindex) /\ UNCHANGED <<inLink, outLink>>
    BY <1>7, WritesWrite DEF SetPolicy
  <2>2. asks' \in 0..MaxAsks /\ UNCHANGED faults
    BY <1>1, <1>7, ConstantsAssumption DEF Ask, SetPolicy, SetTapEgress, NoFault
  <2>3. saved' \in [Taps -> Modes]
    BY <1>1, <1>7 DEF SetPolicy
  <2>4. Free /\ UNCHANGED <<iface, mid, up, isolate, refresh, host>>
    BY <1>7 DEF SetPolicy
  <2> QED BY <1>1, <2>1, <2>2, <2>3, <2>4, WriteInv
<1> QED BY <1>2, <1>4, <1>5, <1>6, <1>7 DEF AfterTaps, EngineTick

LEMMA HoldOneInv == ASSUME IInv, NEW r \in DOMAIN refresh, NEW t \in Taps, HoldOne(r, t) PROVE IInv'
<1> DEFINE x == [refresh[r] EXCEPT !.hold = @ \ {t}]
<1>1. Free /\ refresh' = [refresh EXCEPT ![r] = x] /\ UNCHANGED <<iface, mid, up, isolate, saved, host, asks>>
  BY DEF HoldOne, record
<1>2. x \in RefreshState
  BY DEF IInv, TypeOK, RefreshState
<1> HIDE DEF x
<1>3. DOMAIN refresh' \subseteq Refreshers /\ \A q \in DOMAIN refresh' : refresh'[q] \in RefreshState
  BY <1>1, <1>2, MoveType DEF IInv
<1>4. CASE SetTapQuarantine(t)
  <2>1. Wrote(t, taps[t].ifindex) /\ UNCHANGED <<inLink, outLink>>
    BY <1>4, WritesWrite
  <2>2. faults' \in 0..MaxFaults
    BY <1>4, FaultType DEF IInv, SetTapQuarantine
  <2>3. isolate' \in SUBSET Taps /\ saved' \in [Taps -> Modes] /\ host' \in 0..MaxHost /\ asks' \in 0..MaxAsks
    BY <1>1 DEF IInv, TypeOK
  <2> QED BY <1>1, <1>3, <2>1, <2>2, <2>3, WriteInv
<1>5. CASE UNCHANGED <<kernel, taps, torn, faults>>
  <2>1. MidOfSync'
    BY <1>1, FreeIsWhole DEF MidOfSync
  <2>2. NoFault /\ UNCHANGED <<iface, kernel, taps, torn, mid, up, record, host, asks>>
    BY <1>1, <1>5 DEF NoFault, record
  <2> QED BY <1>3, <2>1, <2>2, MoveInv
<1> QED BY <1>4, <1>5 DEF HoldOne

-----------------------------------------------------------------------------
(* SyncTaps.                                                               *)

\* An attach is not a detach, and neither is none.
LEMMA MidFacts ==
  ASSUME NEW t, NEW u
  PROVE  /\ NoMid # [op |-> "attach", tap |-> t] /\ NoMid # [op |-> "detach", tap |-> t]
         /\ [op |-> "attach", tap |-> t] # [op |-> "detach", tap |-> u]
         /\ [op |-> "attach", tap |-> t] = [op |-> "attach", tap |-> u] => t = u
         /\ [op |-> "detach", tap |-> t] = [op |-> "detach", tap |-> u] => t = u
<1>1. NoMid.op = "none"
  BY DEF NoMid
<1>2. [op |-> "attach", tap |-> t].op = "attach" /\ [op |-> "detach", tap |-> t].op = "detach" /\ [op |-> "detach", tap |-> u].op = "detach"
  OBVIOUS
<1>3. [op |-> "attach", tap |-> t].tap = t /\ [op |-> "attach", tap |-> u].tap = u
      /\ [op |-> "detach", tap |-> t].tap = t /\ [op |-> "detach", tap |-> u].tap = u
  OBVIOUS
<1>4. NoMid # [op |-> "attach", tap |-> t] /\ NoMid # [op |-> "detach", tap |-> t]
  BY <1>1, <1>2
<1>5. [op |-> "attach", tap |-> t] # [op |-> "detach", tap |-> u]
  BY <1>2
<1> QED BY <1>3, <1>4, <1>5

\* The facts of the invariant that the proofs below use, tap by tap.
LEMMA TapFacts ==
  ASSUME IInv, NEW t \in Taps
  PROVE  /\ inLink[t] \in Indexes => inLink[t] = iface[t] /\ (Carries(t) => inLink[t] = taps[t].ifindex)
         /\ outLink[t] \in Indexes => outLink[t] = iface[t] /\ (Carries(t) => outLink[t] = taps[t].ifindex)
         /\ Carries(t) /\ iface[t] = taps[t].ifindex /\ ~Amid("detach", t) => inLink[t] = iface[t] /\ outLink[t] = iface[t]
         /\ Amid("attach", t) => outLink[t] = NoLink /\ ~Carries(t)
         /\ Amid("detach", t) => inLink[t] = NoLink /\ Carries(t)
         /\ \A u \in Taps : iface[t] \in Indexes /\ iface[u] = iface[t] => u = t
  BY IndexFacts DEF IInv, HostInv, LinksFollow, On, CarriedIsLinked, HalfDone, InterfacesApart, Live

\* An index that only taps on their own interface have is not shared, and what is in the maps fits its tap.
LEMMA OnItsOwn ==
  ASSUME IInv, NEW u \in Taps, Carries(u), taps[u].ifindex \notin torn,
         \A w \in Taps : taps[w].ifindex = taps[u].ifindex => iface[w] = taps[w].ifindex /\ ~Amid("detach", w)
  PROVE  inLink[u] = taps[u].ifindex /\ outLink[u] = taps[u].ifindex /\ ListOf(u, taps[u].ifindex)
<1>1. iface[u] = taps[u].ifindex /\ taps[u].ifindex \in Indexes
  BY CarriedType DEF IInv
<1>2. ~Shared(taps[u].ifindex)
  BY <1>1, IndexFacts DEF Shared, IInv, HostInv, InterfacesApart, Live
<1>3. Agrees(u)
  BY <1>2, CacheByTap DEF IInv, MapInv
<1>4. ListOf(u, taps[u].ifindex)
  BY <1>3 DEF Agrees, ListOf
<1> QED BY <1>1, <1>4, TapFacts

LEMMA DetachInInv == ASSUME IInv, NEW r \in DOMAIN refresh, NEW t \in Taps, DetachIn(r, t) PROVE IInv'
<1> USE IndexFacts
<1>1. /\ up /\ mid = NoMid /\ refresh[r].at = "detach" /\ Carries(t)
      /\ inLink' = [inLink EXCEPT ![t] = NoLink] /\ mid' = [op |-> "detach", tap |-> t]
      /\ UNCHANGED <<iface, outLink, pol, list, taps, up, isolate, saved, refresh, torn, host, asks, faults>>
  BY DEF DetachIn, Syncs, MustDetach, record, bounds
<1>2. inLink'[t] = NoLink /\ \A u \in Taps \ {t} : inLink'[u] = inLink[u]
  BY <1>1 DEF IInv, TypeOK
<1>3. TypeOK'
  <2>1. inLink' \in [Taps -> LinkState] /\ mid' \in MidState
    BY <1>1, ValueTypes DEF IInv, TypeOK, LinkState
  <2> QED BY <1>1, <2>1 DEF IInv, TypeOK
<1>4. \A u \in Taps : ~Amid("attach", u) /\ ~Amid("detach", u) /\ ~Amid("attach", u)' /\ (Amid("detach", u)' <=> u = t)
  BY <1>1, MidFacts DEF Amid
<1>5. \A u \in Taps : Carries(u)' <=> Carries(u)
  BY <1>1 DEF Carries
<1>6. HostInv'
  <2>1. InterfacesApart'
    BY <1>1 DEF IInv, HostInv, InterfacesApart, Live
  <2>2. LinksFollow'
    BY <1>1, <1>2, <1>5 DEF IInv, HostInv, LinksFollow, On
  <2>3. CarriedIsLinked'
    BY <1>1, <1>2, <1>4, <1>5 DEF IInv, HostInv, CarriedIsLinked
  <2>4. HalfDone'
    BY <1>1, <1>2, <1>4, <1>5 DEF HalfDone
  <2> QED BY <2>1, <2>2, <2>3, <2>4 DEF HostInv
<1>7. NothingLeft'
  <2> SUFFICES ASSUME NEW j \in Indexes, j \notin torn', ~Carried(j)' PROVE (Empty(j) \/ Adoptable(j))'
    BY DEF NothingLeft
  <2>1. ~Carried(j) /\ j \notin torn /\ taps[t].ifindex # j
    BY <1>1 DEF Carried
  <2>2. Empty(j) \/ Adoptable(j)
    BY <2>1 DEF IInv, MapInv, NothingLeft
  <2>3. inLink[t] # j
    BY <1>1, <2>1, TapFacts
  <2> QED BY <1>1, <1>2, <2>2, <2>3 DEF Empty, Adoptable, ListOf
<1>8. CacheIsKernel'
  BY <1>1 DEF IInv, MapInv, CacheIsKernel, Carries, Shared
<1>9. MidOfSync'
  BY <1>1 DEF MidOfSync, Syncing
<1> QED BY <1>3, <1>6, <1>7, <1>8, <1>9 DEF IInv, MapInv

LEMMA DetachRestInv == ASSUME IInv, NEW t \in Taps, DetachRest(t) PROVE IInv'
<1> USE IndexFacts
<1> DEFINE i == taps[t].ifindex
<1>1. /\ up /\ mid = [op |-> "detach", tap |-> t] /\ mid' = NoMid
      /\ outLink' = [outLink EXCEPT ![t] = NoLink] /\ pol' = [pol EXCEPT ![i] = Clear] /\ list' = [list EXCEPT ![i] = {}]
      /\ taps' = [taps EXCEPT ![t] = NoTap] /\ torn' = IF Shared(i) THEN torn \cup {i} ELSE torn \ {i}
      /\ UNCHANGED <<iface, inLink, up, isolate, saved, refresh, host, asks, faults>>
  BY DEF DetachRest, HeldIndex, record, bounds
<1>2. Carries(t) /\ inLink[t] = NoLink /\ i \in Indexes
  BY <1>1, TapFacts, CarriedType DEF Amid, IInv
<1>3. TypeOK'
  <2>1. outLink' \in [Taps -> LinkState] /\ pol' \in [Indexes -> Policy] /\ list' \in [Indexes -> SUBSET Taps]
        /\ taps' \in [Taps -> TapLinks] /\ mid' \in MidState
    BY <1>1, ValueTypes DEF IInv, TypeOK, LinkState
  <2>2. torn' \in SUBSET Indexes
    BY <1>1, <1>2 DEF IInv, TypeOK
  <2> QED BY <1>1, <2>1, <2>2 DEF IInv, TypeOK
<1>4. /\ outLink'[t] = NoLink /\ \A u \in Taps \ {t} : outLink'[u] = outLink[u]
      /\ taps'[t] = NoTap /\ taps'[t].ifindex = 0 /\ \A u \in Taps \ {t} : taps'[u] = taps[u]
      /\ pol'[i] = Clear /\ list'[i] = {} /\ \A j \in Indexes \ {i} : pol'[j] = pol[j] /\ list'[j] = list[j]
      /\ \A j \in Indexes \ {i} : j \in torn' <=> j \in torn
  BY <1>1, <1>2 DEF IInv, TypeOK, NoTap
<1>5. \A u \in Taps : ~Amid("attach", u) /\ (Amid("detach", u) <=> u = t) /\ ~Amid("attach", u)' /\ ~Amid("detach", u)'
  BY <1>1, MidFacts DEF Amid
<1>6. ~Carries(t)' /\ \A u \in Taps \ {t} : Carries(u)' <=> Carries(u)
  BY <1>4 DEF Carries
<1> HIDE DEF i
<1>7. HostInv'
  <2>1. InterfacesApart'
    BY <1>1 DEF IInv, HostInv, InterfacesApart, Live
  <2>2. LinksFollow'
    BY <1>1, <1>2, <1>4, <1>6 DEF IInv, HostInv, LinksFollow, On
  <2>3. CarriedIsLinked'
    BY <1>1, <1>4, <1>5, <1>6 DEF IInv, HostInv, CarriedIsLinked
  <2>4. HalfDone'
    BY <1>1, <1>5 DEF HalfDone
  <2> QED BY <2>1, <2>2, <2>3, <2>4 DEF HostInv
<1>8. NothingLeft'
  <2> SUFFICES ASSUME NEW j \in Indexes, j \notin torn', ~Carried(j)', j # i PROVE (Empty(j) \/ Adoptable(j))'
    BY <1>4 DEF NothingLeft, Empty
  <2>1. ~Carried(j) /\ j \notin torn
    BY <1>4 DEF Carried, i
  <2>2. Empty(j) \/ Adoptable(j)
    BY <2>1 DEF IInv, MapInv, NothingLeft
  <2> QED BY <1>1, <1>2, <1>4, <2>2 DEF Empty, Adoptable, ListOf
<1>9. CacheIsKernel'
  <2> SUFFICES ASSUME NEW u \in Taps, Carries(u)', taps'[u].ifindex \notin torn', ~(Shared(taps[u].ifindex)')
               PROVE  Agrees(u)'
    BY DEF CacheIsKernel, Agrees
  <2>1. u # t /\ taps'[u] = taps[u] /\ Carries(u) /\ taps[u].ifindex \in Indexes
    BY <1>4, <1>6, CarriedType DEF IInv
  <2>2. taps[u].ifindex # i
    BY <1>1, <2>1 DEF Shared, i
  <2>3. ~Shared(taps[u].ifindex)
    BY <1>4, <2>1, <2>2 DEF Shared, i
  <2>4. Agrees(u)
    BY <1>4, <2>1, <2>2, <2>3, CacheByTap DEF IInv, MapInv
  <2> QED BY ZenonT(60), <1>4, <2>1, <2>2, <2>4 DEF Agrees
<1>10. MidOfSync'
  BY <1>1 DEF MidOfSync
<1> QED BY <1>3, <1>7, <1>8, <1>9, <1>10 DEF IInv, MapInv

LEMMA DropOrphansInv == ASSUME IInv, NEW r \in DOMAIN refresh, DropOrphans(r) PROVE IInv'
<1> USE IndexFacts
<1> DEFINE gone == Orphans(refresh[r].want)
           indexes == {inLink[t] : t \in gone} \ {Dead}
<1>1. /\ up /\ mid = NoMid /\ \A t \in Taps : ~MustDetach(r, t)
      /\ inLink' = [t \in Taps |-> IF t \in gone THEN NoLink ELSE inLink[t]]
      /\ outLink' = [t \in Taps |-> IF t \in gone THEN NoLink ELSE outLink[t]]
      /\ pol' = [i \in Indexes |-> IF i \in indexes THEN Clear ELSE pol[i]]
      /\ list' = [i \in Indexes |-> IF i \in indexes THEN {} ELSE list[i]]
      /\ torn' = torn \ indexes /\ Stage(r, "attach")
      /\ UNCHANGED <<iface, taps, mid, up, isolate, saved, host, asks, faults>>
  BY DEF DropOrphans, Syncs, record, bounds
<1>2. gone \subseteq Taps /\ \A t \in gone : ~Carries(t) /\ inLink[t] # NoLink
  BY DEF Orphans
<1>3. \A j \in indexes : \E g \in gone : inLink[g] = j /\ j \in Indexes /\ iface[g] = j
  <2> SUFFICES ASSUME NEW g \in gone, inLink[g] # Dead PROVE inLink[g] \in Indexes /\ iface[g] = inLink[g]
    OBVIOUS
  <2>1. g \in Taps /\ inLink[g] \in LinkState /\ inLink[g] # NoLink
    BY <1>2 DEF IInv, TypeOK
  <2> QED BY <2>1, TapFacts DEF LinkState
<1>4. \A u \in Taps : Carries(u) => u \notin gone /\ iface[u] = taps[u].ifindex /\ taps[u].ifindex \in Indexes /\ taps[u].ifindex \notin indexes
  <2> SUFFICES ASSUME NEW u \in Taps, Carries(u)
               PROVE  u \notin gone /\ iface[u] = taps[u].ifindex /\ taps[u].ifindex \in Indexes /\ taps[u].ifindex \notin indexes
    OBVIOUS
  <2>1. u \notin gone /\ iface[u] = taps[u].ifindex /\ taps[u].ifindex \in Indexes
    BY <1>1, <1>2, CarriedType DEF MustDetach, IInv
  <2>2. \A g \in gone : iface[g] # taps[u].ifindex
    BY <1>2, <2>1, TapFacts
  <2> QED BY <1>3, <2>1, <2>2
<1> HIDE DEF gone, indexes
<1>5. /\ \A u \in Taps : inLink'[u] = IF u \in gone THEN NoLink ELSE inLink[u]
      /\ \A u \in Taps : outLink'[u] = IF u \in gone THEN NoLink ELSE outLink[u]
      /\ \A j \in Indexes : pol'[j] = IF j \in indexes THEN Clear ELSE pol[j]
      /\ \A j \in Indexes : list'[j] = IF j \in indexes THEN {} ELSE list[j]
  BY <1>1
<1>6. TypeOK'
  <2>1. inLink' \in [Taps -> LinkState] /\ outLink' \in [Taps -> LinkState]
    BY <1>1 DEF IInv, TypeOK, LinkState
  <2>2. pol' \in [Indexes -> Policy] /\ list' \in [Indexes -> SUBSET Taps] /\ torn' \in SUBSET Indexes
    BY <1>1, ValueTypes DEF IInv, TypeOK
  <2>3. "attach" \in Stages
    BY DEF Stages
  <2>4. DOMAIN refresh' \subseteq Refreshers /\ \A q \in DOMAIN refresh' : refresh'[q] \in RefreshState
    BY <1>1, <2>3, StageType DEF IInv
  <2> QED BY <1>1, <2>1, <2>2, <2>4 DEF IInv, TypeOK
<1>7. \A u \in Taps : ~Amid("attach", u) /\ ~Amid("detach", u) /\ ~Amid("attach", u)' /\ ~Amid("detach", u)'
  BY <1>1, MidFacts DEF Amid
<1>8. \A u \in Taps : Carries(u)' <=> Carries(u)
  BY <1>1 DEF Carries
<1>9. HostInv'
  <2>1. InterfacesApart'
    BY <1>1 DEF IInv, HostInv, InterfacesApart, Live
  <2>2. LinksFollow'
    BY <1>1, <1>5, <1>8 DEF IInv, HostInv, LinksFollow, On
  <2>3. CarriedIsLinked'
    BY <1>1, <1>4, <1>5, <1>7, <1>8 DEF IInv, HostInv, CarriedIsLinked
  <2>4. HalfDone'
    BY <1>1, <1>7 DEF HalfDone
  <2> QED BY <2>1, <2>2, <2>3, <2>4 DEF HostInv
<1>10. NothingLeft'
  <2> SUFFICES ASSUME NEW j \in Indexes, j \notin torn', ~Carried(j)', j \notin indexes PROVE (Empty(j) \/ Adoptable(j))'
    BY <1>5 DEF NothingLeft, Empty
  <2>1. ~Carried(j) /\ j \notin torn /\ pol'[j] = pol[j] /\ list'[j] = list[j]
    BY <1>1, <1>5 DEF Carried
  <2>2. Empty(j) \/ Adoptable(j)
    BY <2>1 DEF IInv, MapInv, NothingLeft
  <2>3. \A u \in Taps : inLink[u] = j => u \notin gone
    BY DEF indexes
  <2> QED BY <1>5, <2>1, <2>2, <2>3 DEF Empty, Adoptable, ListOf
<1>11. CacheIsKernel'
  <2> SUFFICES ASSUME NEW u \in Taps, Carries(u)', taps'[u].ifindex \notin torn', ~(Shared(taps[u].ifindex)')
               PROVE  Agrees(u)'
    BY DEF CacheIsKernel, Agrees
  <2>1. Carries(u) /\ ~Shared(taps[u].ifindex) /\ taps[u].ifindex \notin torn
    BY <1>1, <1>4, <1>8 DEF Shared
  <2>2. Agrees(u)
    BY <2>1, CacheByTap DEF IInv, MapInv
  <2> QED BY <1>1, <1>4, <1>5, <2>1, <2>2 DEF Agrees
<1>12. MidOfSync'
  BY <1>1 DEF MidOfSync
<1> QED BY <1>6, <1>9, <1>10, <1>11, <1>12 DEF IInv, MapInv

\* A tap comes to be carried on its interface's index, as the maps have it.
LEMMA CarryInv ==
  ASSUME IInv, NEW t \in Taps, ~Carries(t), iface[t] \in Indexes, inLink[t] = iface[t], up, up', TypeOK',
         ListOf(t, iface[t]) \/ iface[t] \in torn \/ Carried(iface[t]),
         taps'[t].ifindex = iface[t],
         pol[iface[t]] = [isolated |-> taps'[t].isolated, egress |-> taps'[t].egress] \/ iface[t] \in torn \/ Carried(iface[t]),
         \A u \in Taps \ {t} : taps'[u] = taps[u] /\ outLink'[u] = outLink[u] /\ ~Amid("detach", u),
         outLink'[t] = iface[t], mid' = NoMid, UNCHANGED <<iface, inLink, pol, list, torn>>
  PROVE  IInv'
<1> USE IndexFacts
<1> DEFINE i == iface[t]
<1>1. Carries(t)' /\ \A u \in Taps \ {t} : Carries(u)' <=> Carries(u)
  BY DEF Carries
<1>2. \A u \in Taps : ~Amid("attach", u)' /\ ~Amid("detach", u)'
  BY MidFacts DEF Amid
<1>3. HostInv'
  <2>1. InterfacesApart'
    BY DEF IInv, HostInv, InterfacesApart, Live
  <2>2. LinksFollow'
    BY <1>1 DEF IInv, HostInv, LinksFollow, On
  <2>3. CarriedIsLinked'
    BY <1>1, <1>2 DEF IInv, HostInv, CarriedIsLinked
  <2>4. HalfDone'
    BY <1>2 DEF HalfDone
  <2> QED BY <2>1, <2>2, <2>3, <2>4 DEF HostInv
<1>4. NothingLeft'
  <2> SUFFICES ASSUME NEW j \in Indexes, j \notin torn', ~Carried(j)' PROVE (Empty(j) \/ Adoptable(j))'
    BY DEF NothingLeft
  <2>1. j # i /\ ~Carried(j) /\ j \notin torn
    <3>1. \A u \in Taps \ {t} : taps[u].ifindex # j
      BY DEF Carried
    <3>2. taps[t].ifindex # j /\ j # i
      BY DEF Carried, Carries
    <3> QED BY <3>1, <3>2 DEF Carried
  <2>2. Empty(j) \/ Adoptable(j)
    BY <2>1 DEF IInv, MapInv, NothingLeft
  <2> QED BY <2>1, <2>2 DEF Empty, Adoptable, ListOf
<1>5. CacheIsKernel'
  <2> SUFFICES ASSUME NEW u \in Taps, Carries(u)', taps'[u].ifindex \notin torn', ~(Shared(taps[u].ifindex)')
               PROVE  Agrees(u)'
    BY DEF CacheIsKernel, Agrees
  <2>1. CASE u = t
    <3>1. ~Carried(i)
      BY <2>1 DEF Carried, Shared, Carries
    <3>2. ListOf(t, i) /\ pol[i] = [isolated |-> taps'[t].isolated, egress |-> taps'[t].egress]
      BY <2>1, <3>1
    <3>3. pol[i].egress = taps'[t].egress
      BY <3>2
    <3> QED BY <2>1, <3>2, <3>3 DEF Agrees, ListOf
  <2>2. CASE u # t
    <3>1. Carries(u) /\ taps'[u] = taps[u]
      BY <1>1, <2>2
    <3>2. ~Shared(taps[u].ifindex)
      <4>1. ASSUME NEW a \in Taps, NEW b \in Taps, a # b, taps[a].ifindex = taps[u].ifindex, taps[b].ifindex = taps[u].ifindex
            PROVE  FALSE
        <5>1. a # t /\ b # t
          BY <3>1, <4>1 DEF Carries
        <5> QED BY <3>1, <4>1, <5>1 DEF Shared
      <4> QED BY <4>1 DEF Shared
    <3>3. Agrees(u)
      BY <3>1, <3>2, CacheByTap DEF IInv, MapInv
    <3> QED BY <3>1, <3>3 DEF Agrees
  <2> QED BY <2>1, <2>2
<1>6. MidOfSync'
  BY DEF MidOfSync
<1> QED BY <1>3, <1>4, <1>5, <1>6 DEF IInv, MapInv

LEMMA AdoptInv == ASSUME IInv, NEW r \in DOMAIN refresh, NEW t \in Taps, Adopt(r, t) PROVE IInv'
<1> USE IndexFacts
<1> DEFINE i == iface[t]
           x == [ifindex |-> i, isolated |-> pol[i].isolated, egress |-> pol[i].egress, quarantine |-> FALSE]
<1>1. /\ up /\ mid = NoMid /\ Live(t) /\ ~Carries(t) /\ inLink[t] = i /\ outLink[t] = i
      /\ taps' = [taps EXCEPT ![t] = x]
      /\ UNCHANGED <<iface, inLink, outLink, pol, list, mid, up, isolate, saved, refresh, torn, host, asks, faults>>
  BY DEF Adopt, Syncs, ToAttach, MayAdopt, kernel, record, bounds
<1>2. i \in Indexes /\ pol[i] \in Policy
  BY <1>1 DEF IInv, TypeOK, Live
<1>3. x \in TapLinks
  BY <1>2, ValueTypes DEF Policy
<1>4. taps'[t] = x /\ \A u \in Taps \ {t} : taps'[u] = taps[u]
  BY <1>1 DEF IInv, TypeOK
<1>5. pol[i] = [isolated |-> x.isolated, egress |-> x.egress] /\ x.ifindex = i
  BY <1>2 DEF Policy
<1>6. taps' \in [Taps -> TapLinks]
  BY <1>1, <1>3 DEF IInv, TypeOK
<1> HIDE DEF x
<1>7. TypeOK'
  BY <1>1, <1>6 DEF IInv, TypeOK
<1>8. ListOf(t, i) \/ i \in torn \/ Carried(i)
  <2> SUFFICES ASSUME i \notin torn, ~Carried(i) PROVE ListOf(t, i)
    OBVIOUS
  <2>1. CASE Empty(i)
    BY <2>1 DEF Empty, ListOf, Clear
  <2>2. CASE Adoptable(i)
    <3>1. PICK w \in Taps : inLink[w] = i /\ ListOf(w, i)
      BY <2>2 DEF Adoptable
    <3>2. w = t
      BY <1>2, <3>1, TapFacts
    <3> QED BY <3>1, <3>2
  <2> QED BY <1>2, <2>1, <2>2 DEF IInv, MapInv, NothingLeft
<1>9. \A u \in Taps : ~Amid("detach", u)
  BY <1>1, MidFacts DEF Amid
<1> QED BY <1>1, <1>2, <1>4, <1>5, <1>7, <1>8, <1>9, CarryInv

\* A link of a tap that is not carried goes, or half an attach is done: the maps and what is carried stay.
LEMMA RelinkInv ==
  ASSUME IInv, NEW t \in Taps, ~Carries(t), up, up', TypeOK', ~(inLink[t] = outLink[t] /\ outLink[t] \in Indexes),
         inLink'[t] \in {iface[t], NoLink}, outLink'[t] = NoLink,
         \A u \in Taps \ {t} : inLink'[u] = inLink[u] /\ outLink'[u] = outLink[u] /\ ~Amid("detach", u) /\ ~Amid("attach", u)',
         \A u \in Taps : ~Amid("detach", u)', UNCHANGED <<iface, taps, pol, list, torn>>, MidOfSync'
  PROVE  IInv'
<1> USE IndexFacts
<1>1. \A u \in Taps : Carries(u)' <=> Carries(u)
  BY DEF Carries
<1>2. HostInv'
  <2>1. InterfacesApart'
    BY DEF IInv, HostInv, InterfacesApart, Live
  <2>2. LinksFollow'
    BY <1>1 DEF IInv, HostInv, LinksFollow, On
  <2>3. CarriedIsLinked'
    BY <1>1 DEF IInv, HostInv, CarriedIsLinked
  <2>4. HalfDone'
    BY <1>1 DEF HalfDone
  <2> QED BY <2>1, <2>2, <2>3, <2>4 DEF HostInv
<1>3. NothingLeft'
  <2> SUFFICES ASSUME NEW j \in Indexes, j \notin torn', ~Carried(j)' PROVE (Empty(j) \/ Adoptable(j))'
    BY DEF NothingLeft
  <2>1. Empty(j) \/ Adoptable(j)
    BY DEF IInv, MapInv, NothingLeft, Carried
  <2>2. ~(inLink[t] = j /\ outLink[t] = j)
    OBVIOUS
  <2> QED BY <2>1, <2>2 DEF Empty, Adoptable, ListOf
<1>4. CacheIsKernel'
  BY DEF IInv, MapInv, CacheIsKernel, Carries, Shared
<1> QED BY <1>2, <1>3, <1>4 DEF IInv, MapInv

LEMMA AttachInInv == ASSUME IInv, NEW r \in DOMAIN refresh, NEW t \in Taps, AttachIn(r, t) PROVE IInv'
<1> USE IndexFacts
<1>1. /\ up /\ mid = NoMid /\ refresh[r].at = "attach" /\ Live(t) /\ ~Carries(t) /\ ~(inLink[t] = iface[t] /\ outLink[t] = iface[t])
      /\ inLink' = [inLink EXCEPT ![t] = iface[t]] /\ outLink' = [outLink EXCEPT ![t] = NoLink]
      /\ mid' = [op |-> "attach", tap |-> t]
      /\ UNCHANGED <<iface, pol, list, taps, up, isolate, saved, refresh, torn, host, asks, faults>>
  BY DEF AttachIn, Syncs, ToAttach, MayAdopt, record, bounds
<1>2. iface[t] \in Indexes
  BY <1>1 DEF IInv, TypeOK, Live
<1>3. TypeOK'
  <2>1. inLink' \in [Taps -> LinkState] /\ outLink' \in [Taps -> LinkState] /\ mid' \in MidState
    BY <1>1, <1>2, ValueTypes DEF IInv, TypeOK, LinkState
  <2> QED BY <1>1, <2>1 DEF IInv, TypeOK
<1>4. /\ inLink'[t] = iface[t] /\ outLink'[t] = NoLink
      /\ \A u \in Taps \ {t} : inLink'[u] = inLink[u] /\ outLink'[u] = outLink[u]
  BY <1>1 DEF IInv, TypeOK
<1>5. \A u \in Taps : ~Amid("detach", u) /\ ~Amid("detach", u)' /\ (Amid("attach", u)' => u = t)
  BY <1>1, MidFacts DEF Amid
<1>6. ~(inLink[t] = outLink[t] /\ outLink[t] \in Indexes)
  BY <1>1, TapFacts
<1>7. MidOfSync'
  BY <1>1 DEF MidOfSync, Syncing
<1> QED BY <1>1, <1>3, <1>4, <1>5, <1>6, <1>7, RelinkInv

LEMMA AttachOutInv == ASSUME IInv, NEW t \in Taps, AttachOut(t) PROVE IInv'
<1> USE IndexFacts
<1> DEFINE i == iface[t]
           x == [ifindex |-> i, isolated |-> FALSE, egress |-> "off", quarantine |-> FALSE]
<1>1. /\ up /\ mid = [op |-> "attach", tap |-> t] /\ mid' = NoMid
      /\ UNCHANGED <<iface, pol, list, up, isolate, saved, refresh, torn, host, asks>>
  BY DEF AttachOut, record
<1>2. ~Carries(t) /\ outLink[t] = NoLink
  BY <1>1, TapFacts DEF Amid
<1>3. /\ \A u \in Taps : ~Amid("detach", u) /\ ~Amid("detach", u)' /\ ~Amid("attach", u)'
      /\ mid' \in MidState /\ MidOfSync'
  BY <1>1, MidFacts, ValueTypes DEF Amid, MidOfSync
<1>4. faults' \in 0..MaxFaults
  <2>1. Fault \/ NoFault
    BY DEF AttachOut
  <2> QED BY <2>1, FaultType DEF IInv
<1>5. CASE /\ inLink[t] = i /\ Live(t) /\ outLink' = [outLink EXCEPT ![t] = i] /\ taps' = [taps EXCEPT ![t] = x] /\ UNCHANGED inLink
  <2>1. i \in Indexes
    BY <1>5 DEF IInv, TypeOK, Live
  <2>3. x \in TapLinks /\ x.ifindex = i /\ Clear = [isolated |-> x.isolated, egress |-> x.egress]
    BY <2>1, ValueTypes DEF Clear, Modes
  <2> HIDE DEF x
  <2>4. taps' \in [Taps -> TapLinks] /\ taps'[t] = x /\ \A u \in Taps \ {t} : taps'[u] = taps[u]
    BY <1>5, <2>3 DEF IInv, TypeOK
  <2>5. outLink' \in [Taps -> LinkState] /\ outLink'[t] = i /\ \A u \in Taps \ {t} : outLink'[u] = outLink[u]
    BY <1>5, <2>1 DEF IInv, TypeOK, LinkState
  <2>6. TypeOK'
    BY <1>1, <1>3, <1>4, <1>5, <2>4, <2>5 DEF IInv, TypeOK
  <2>7. Empty(i) \/ i \in torn \/ Carried(i)
    <3> SUFFICES ASSUME i \notin torn, ~Carried(i), Adoptable(i) PROVE FALSE
      BY <2>1 DEF IInv, MapInv, NothingLeft
    <3>1. PICK w \in Taps : inLink[w] = i /\ outLink[w] = i
      BY DEF Adoptable
    <3>2. w = t
      BY <2>1, <3>1, TapFacts
    <3> QED BY <1>2, <2>1, <3>1, <3>2
  <2>8. ListOf(t, i) \/ i \in torn \/ Carried(i)
    BY <2>7 DEF Empty, ListOf, Clear
  <2>9. pol[i] = [isolated |-> taps'[t].isolated, egress |-> taps'[t].egress] \/ i \in torn \/ Carried(i)
    BY <2>3, <2>4, <2>7 DEF Empty
  <2> QED BY <1>1, <1>2, <1>3, <1>5, <2>1, <2>3, <2>4, <2>5, <2>6, <2>8, <2>9, CarryInv
<1>6. CASE inLink' = [inLink EXCEPT ![t] = NoLink] /\ UNCHANGED <<outLink, taps>>
  <2>1. inLink' \in [Taps -> LinkState] /\ inLink'[t] = NoLink /\ \A u \in Taps \ {t} : inLink'[u] = inLink[u]
    BY <1>6 DEF IInv, TypeOK, LinkState
  <2>2. TypeOK'
    BY <1>1, <1>3, <1>4, <1>6, <2>1 DEF IInv, TypeOK
  <2> QED BY <1>1, <1>2, <1>3, <1>6, <2>1, <2>2, RelinkInv
<1> QED BY <1>5, <1>6 DEF AttachOut

-----------------------------------------------------------------------------
(* The daemon.                                                             *)

\* A daemon that stops holds nothing.
LEMMA Forgotten ==
  ASSUME IInv, Forget
  PROVE  /\ taps' \in [Taps -> TapLinks] /\ mid' \in MidState /\ up' \in BOOLEAN /\ DOMAIN refresh' \subseteq Refreshers
         /\ \A r \in DOMAIN refresh' : refresh'[r] \in RefreshState
         /\ \A t \in Taps : ~Carries(t)' /\ ~Amid("attach", t)' /\ ~Amid("detach", t)'
         /\ mid' = NoMid /\ ~up'
<1>1. taps' = [t \in Taps |-> NoTap] /\ mid' = NoMid /\ up' = FALSE /\ refresh' = [r \in DOMAIN refresh |-> Idle]
  BY DEF Forget
<1>2. \A t \in Taps : taps'[t].ifindex = NoIndex
  BY <1>1 DEF NoTap
<1>3. \A t \in Taps : ~Carries(t)' /\ ~Amid("attach", t)' /\ ~Amid("detach", t)'
  BY <1>1, <1>2, MidFacts DEF Carries, Amid
<1>4. DOMAIN refresh' \subseteq Refreshers /\ \A r \in DOMAIN refresh' : refresh'[r] \in RefreshState
  BY <1>1, ValueTypes DEF IInv, TypeOK
<1> QED BY <1>1, <1>3, <1>4, ValueTypes

\* With nothing carried, only the links and what they leave in the maps matter.
LEMMA StopInv ==
  ASSUME IInv, TypeOK', Forget, UNCHANGED iface, NothingLeft',
         \A t \in Taps : inLink'[t] \in {inLink[t], NoLink} /\ outLink'[t] \in {outLink[t], NoLink}
  PROVE  IInv'
<1> USE IndexFacts, Forgotten
<1>1. InterfacesApart'
  BY DEF IInv, HostInv, InterfacesApart, Live
<1>2. LinksFollow'
  <2> SUFFICES ASSUME NEW t \in Taps PROVE (On(t, inLink) /\ On(t, outLink))'
    BY DEF LinksFollow
  <2>1. ~Carries(t)' /\ iface'[t] = iface[t]
    OBVIOUS
  <2> QED BY <2>1, TapFacts DEF On
<1>3. CarriedIsLinked' /\ HalfDone'
  BY DEF CarriedIsLinked, HalfDone
<1>4. CacheIsKernel'
  BY DEF CacheIsKernel
<1>5. MidOfSync'
  BY DEF MidOfSync
<1> QED BY <1>1, <1>2, <1>3, <1>4, <1>5 DEF IInv, HostInv, MapInv

LEMMA StartInv == ASSUME IInv, Start PROVE IInv'
<1>1. ~up /\ up' = TRUE /\ UNCHANGED <<iface, inLink, outLink, pol, list, taps, mid, isolate, saved, refresh, torn, host, asks, faults>>
  BY DEF Start, kernel, record, bounds
<1>2. TypeOK'
  BY <1>1 DEF IInv, TypeOK
<1>3. HostInv'
  BY <1>1 DEF IInv, HostInv, InterfacesApart, LinksFollow, On, CarriedIsLinked, HalfDone, Live, Amid, Carries
<1>4. MapInv'
  BY <1>1 DEF IInv, MapInv, NothingLeft, CacheIsKernel, Carried, Empty, Adoptable, ListOf, Carries, Shared
<1>5. MidOfSync'
  BY <1>1 DEF IInv, MidOfSync, Syncing
<1> QED BY <1>2, <1>3, <1>4, <1>5 DEF IInv

LEMMA CrashInv == ASSUME IInv, Crash PROVE IInv'
<1> USE IndexFacts
<1>1. Fault /\ Forget /\ torn' = torn \cup Lose /\ UNCHANGED <<iface, inLink, outLink, pol, list, isolate, saved, host, asks>>
  BY DEF Crash, kernel, record
<1>2. Lose \subseteq Indexes
  BY CarriedType DEF Lose, IInv
<1>3. TypeOK'
  <2>1. faults' \in 0..MaxFaults
    BY <1>1, FaultType DEF IInv
  <2>2. torn' \in SUBSET Indexes
    BY <1>1, <1>2 DEF IInv, TypeOK
  <2> QED BY <1>1, <2>1, <2>2, Forgotten DEF IInv, TypeOK
<1>4. \A u \in Taps : Carries(u) /\ taps[u].ifindex \notin Lose => iface[u] = taps[u].ifindex /\ ~Amid("detach", u)
  BY DEF Lose, Amid
<1>5. NothingLeft'
  <2> SUFFICES ASSUME NEW j \in Indexes, j \notin torn, j \notin Lose PROVE (Empty(j) \/ Adoptable(j))'
    BY <1>1 DEF NothingLeft
  <2>1. CASE Carried(j)
    <3>1. PICK u \in Taps : taps[u].ifindex = j
      BY <2>1 DEF Carried
    <3>2. \A w \in Taps : taps[w].ifindex = j => Carries(w)
      BY CarriedType DEF IInv
    <3>3. inLink[u] = j /\ outLink[u] = j /\ ListOf(u, j)
      BY <1>4, <3>1, <3>2, OnItsOwn
    <3> QED BY <1>1, <3>3 DEF Adoptable, ListOf
  <2>2. CASE ~Carried(j)
    <3>1. Empty(j) \/ Adoptable(j)
      BY <2>2 DEF IInv, MapInv, NothingLeft
    <3> QED BY <1>1, <3>1 DEF Empty, Adoptable, ListOf
  <2> QED BY <2>1, <2>2
<1> QED BY <1>1, <1>3, <1>5, StopInv

LEMMA ShutdownTapsInv == ASSUME IInv, ShutdownTaps PROVE IInv'
<1> USE IndexFacts
<1> DEFINE let == {t \in Taps : Carries(t)} \ Kept
           indexes == {taps[t].ifindex : t \in let}
           off == {taps[t].ifindex : t \in {u \in Kept : iface[u] # taps[u].ifindex}}
<1>1. /\ Free /\ Forget /\ Fault
      /\ inLink' = [t \in Taps |-> IF t \in let THEN NoLink ELSE inLink[t]]
      /\ outLink' = [t \in Taps |-> IF t \in let THEN NoLink ELSE outLink[t]]
      /\ pol' = [i \in Indexes |-> IF i \in indexes THEN Clear ELSE pol[i]]
      /\ list' = [i \in Indexes |-> IF i \in indexes THEN {} ELSE list[i]]
      /\ torn' = (torn \ indexes) \cup off
      /\ UNCHANGED <<iface, isolate, saved, host, asks>>
  BY DEF ShutdownTaps, record
<1>2. off \subseteq Indexes
  BY CarriedType DEF IInv, Kept
<1>3. \A u \in Taps : Carries(u) /\ taps[u].ifindex \notin indexes => u \notin let /\ (taps[u].ifindex \notin off => iface[u] = taps[u].ifindex)
  OBVIOUS
<1>4. \A u \in Taps : u \in let => Carries(u) /\ taps[u].ifindex \in indexes
  OBVIOUS
<1> HIDE DEF let, indexes, off
<1>5. TypeOK'
  <2>1. faults' \in 0..MaxFaults
    BY <1>1, FaultType DEF IInv
  <2>2. inLink' \in [Taps -> LinkState] /\ outLink' \in [Taps -> LinkState]
    BY <1>1 DEF IInv, TypeOK, LinkState
  <2>3. pol' \in [Indexes -> Policy] /\ list' \in [Indexes -> SUBSET Taps]
    BY <1>1, ValueTypes DEF IInv, TypeOK
  <2>4. torn' \in SUBSET Indexes
    BY <1>1, <1>2 DEF IInv, TypeOK
  <2> QED BY <1>1, <2>1, <2>2, <2>3, <2>4, Forgotten DEF IInv, TypeOK
<1>6. /\ \A u \in Taps : inLink'[u] = IF u \in let THEN NoLink ELSE inLink[u]
      /\ \A u \in Taps : outLink'[u] = IF u \in let THEN NoLink ELSE outLink[u]
      /\ \A j \in Indexes : pol'[j] = IF j \in indexes THEN Clear ELSE pol[j]
      /\ \A j \in Indexes : list'[j] = IF j \in indexes THEN {} ELSE list[j]
  BY <1>1
<1>7. \A u \in Taps : ~Amid("detach", u)
  BY <1>1, FreeIsWhole, MidFacts DEF Amid
<1>8. NothingLeft'
  <2> SUFFICES ASSUME NEW j \in Indexes, j \notin torn', j \notin indexes PROVE (Empty(j) \/ Adoptable(j))'
    BY <1>6 DEF NothingLeft, Empty
  <2>1. j \notin torn /\ j \notin off /\ pol'[j] = pol[j] /\ list'[j] = list[j]
    BY <1>1, <1>6
  <2>2. CASE Carried(j)
    <3>1. PICK u \in Taps : taps[u].ifindex = j
      BY <2>2 DEF Carried
    <3>2. \A w \in Taps : taps[w].ifindex = j => Carries(w) /\ w \notin let /\ iface[w] = taps[w].ifindex
      BY <1>3, <2>1, CarriedType DEF IInv
    <3>3. inLink[u] = j /\ outLink[u] = j /\ ListOf(u, j)
      BY <1>7, <2>1, <3>1, <3>2, OnItsOwn
    <3> QED BY <1>6, <2>1, <3>1, <3>2, <3>3 DEF Adoptable, ListOf
  <2>3. CASE ~Carried(j)
    <3>1. Empty(j) \/ Adoptable(j)
      BY <2>1, <2>3 DEF IInv, MapInv, NothingLeft
    <3>2. \A u \in Taps : inLink[u] = j => u \notin let
      BY <1>4, TapFacts
    <3> QED BY <1>6, <2>1, <3>1, <3>2 DEF Empty, Adoptable, ListOf
  <2> QED BY <2>2, <2>3
<1> QED BY <1>1, <1>5, <1>6, <1>8, StopInv

LEMMA WipePinsInv == ASSUME IInv, WipePins PROVE IInv'
<1> USE IndexFacts
<1>1. /\ ~up /\ Fault /\ inLink' = [t \in Taps |-> NoLink] /\ outLink' = [t \in Taps |-> NoLink]
      /\ pol' = [i \in Indexes |-> Clear] /\ list' = [i \in Indexes |-> {}] /\ torn' = {}
      /\ UNCHANGED <<iface, taps, mid, up, isolate, saved, refresh, host, asks>>
  BY DEF WipePins, record
<1>2. mid = NoMid /\ \A t \in Taps : ~Carries(t)' /\ ~Amid("attach", t)' /\ ~Amid("detach", t)'
  BY <1>1, MidFacts DEF IInv, HostInv, HalfDone, Carries, Amid
<1>3. TypeOK'
  <2>1. faults' \in 0..MaxFaults
    BY <1>1, FaultType DEF IInv
  <2>2. inLink' \in [Taps -> LinkState] /\ outLink' \in [Taps -> LinkState] /\ pol' \in [Indexes -> Policy]
        /\ list' \in [Indexes -> SUBSET Taps] /\ torn' \in SUBSET Indexes
    BY <1>1, ValueTypes DEF LinkState
  <2> QED BY <1>1, <2>1, <2>2 DEF IInv, TypeOK
<1>4. HostInv'
  BY <1>1, <1>2 DEF IInv, HostInv, InterfacesApart, LinksFollow, On, CarriedIsLinked, HalfDone, Live
<1>5. MapInv'
  BY <1>1, <1>2 DEF MapInv, NothingLeft, Empty, CacheIsKernel
<1>6. MidOfSync'
  BY <1>1, <1>2 DEF MidOfSync
<1> QED BY <1>3, <1>4, <1>5, <1>6 DEF IInv

-----------------------------------------------------------------------------
LEMMA NextInv == IInv /\ [Next]_vars => IInv'
<1> SUFFICES ASSUME IInv, [Next]_vars PROVE IInv'
  OBVIOUS
<1>1. CASE UNCHANGED vars
  <2>1. TypeOK' /\ MidOfSync' /\ UNCHANGED <<iface, kernel, taps, torn, mid, up>>
    BY <1>1 DEF vars, kernel, IInv, TypeOK, MidOfSync, Syncing
  <2> QED BY <2>1, Frame
<1>2. ASSUME NEW r \in DOMAIN refresh, Scan(r) \/ Sync(r) \/ AfterSync(r) PROVE IInv'
  BY <1>2, ScanInv, MovesInv, DetachInInv, AdoptInv, AttachInInv, DropOrphansInv, HoldOneInv, WritingInv DEF Sync, AfterSync
<1>3. CASE Middle
  BY <1>3, DetachRestInv, AttachOutInv DEF Middle
<1>4. ASSUME NEW t \in Taps, EngineTick(t) \/ IsolateTap(t) \/ ReleaseTap(t) \/ \E m \in Modes : SetPolicy(t, m) PROVE IInv'
  BY <1>4, WritingInv
<1> QED BY <1>1, <1>2, <1>3, <1>4, InterfaceUpInv, InterfaceDownInv, StartInv, CrashInv, ShutdownTapsInv, WipePinsInv DEF Next

\* What the daemon reports of a tap is what the kernel does for it, for every set of taps, indexes and goroutines
\* and through every crash, restart and interface that goes: SyncTaps, adoptLocked, detachTapLocked and
\* dropOrphansLocked keep tapLinks and the maps together.
THEOREM ReportAlwaysTrue == Spec => []ReportIsTrue
<1>1. IInv => ReportIsTrue
  BY DEF IInv, MapInv, ReportIsTrue
<1> QED BY <1>1, InitInv, NextInv, PTL DEF Spec

=============================================================================
