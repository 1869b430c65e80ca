--------------------------- MODULE DetectionProofs ---------------------------
(***************************************************************************)
(* Proofs about Agent (its netlink findings, the keys of what its rules    *)
(* raise, what it tells of a VM's life) and about Baselines.               *)
(***************************************************************************)
EXTENDS Agent, Baselines, FiniteSetTheorems, SequenceTheorems, TLAPS

-----------------------------------------------------------------------------
(* Link messages.  As long as none was lost, the queue tells the life of   *)
(* the index from where the agent's memory stops to where the kernel is.   *)

Lossless == ~overrun /\ ~claim.warned

Messages == [action : {"new", "delete"}, gen : Nat, mtu : Nat, master : Nat, down : BOOLEAN]
LinkTypes ==
  /\ link \in [exists : BOOLEAN, gen : Nat, mtu : Nat, master : Nat, down : BOOLEAN]
  /\ queue \in Seq(Messages) /\ overrun \in BOOLEAN
  /\ netlinks \in [known : BOOLEAN, gen : Nat, mtu : Nat, master : Nat]
  /\ DOMAIN claim = {"rule", "real", "warned"} /\ claim.warned \in BOOLEAN

\* The agent remembers the interface that the next message is about, or knows none.
HeadFits == queue # <<>> /\ netlinks.known => netlinks.gen = queue[1].gen

\* Only a deletion stands between messages of two interfaces.
QueueFits ==
  \A i \in 1..Len(queue) : i + 1 \in 1..Len(queue) /\ queue[i].action # "delete" => queue[i + 1].gen = queue[i].gen

\* The last message, or what the agent remembers when there is none, is about the interface that is there.
LastFits ==
  /\ queue # <<>> => IF queue[Len(queue)].action = "delete" THEN ~link.exists
                     ELSE link.exists /\ link.gen = queue[Len(queue)].gen
  /\ queue = <<>> /\ netlinks.known => link.exists /\ link.gen = netlinks.gen

LinkInv == LinkTypes /\ (Lossless => HeadFits /\ QueueFits /\ LastFits) /\ ChangeIsReal

\* A message of the interface as it is now, or of its end, that is queued or lost.
LEMMA SendFits ==
  ASSUME LinkInv, NEW m \in Messages, Send(m), UNCHANGED <<netlinks, claim>>,
         link' \in [exists : BOOLEAN, gen : Nat, mtu : Nat, master : Nat, down : BOOLEAN],
         link'.gen = m.gen, link'.exists <=> m.action # "delete",
         link.exists => m.gen = link.gen
  PROVE  LinkInv'
<1>1. ChangeIsReal'
  BY DEF LinkInv, ChangeIsReal
<1>2. LinkTypes'
  <2>1. LinkTypes
    BY DEF LinkInv
  <2>2. queue' \in Seq(Messages)
    <3>1. queue' = Append(queue, m) \/ queue' = queue
      BY DEF Send
    <3>2. queue \in Seq(Messages)
      BY <2>1 DEF LinkTypes
    <3>3. Append(queue, m) \in Seq(Messages)
      BY <3>2
    <3> QED BY <3>1, <3>2, <3>3
  <2>3. overrun' \in BOOLEAN
    BY <2>1, Zenon DEF LinkTypes, Send
  <2> QED BY <2>1, <2>2, <2>3 DEF LinkTypes
<1>3. ASSUME Lossless' PROVE (HeadFits /\ QueueFits /\ LastFits)'
  <2>1. Lossless /\ queue' = Append(queue, m)
    BY <1>3 DEF Lossless, Send
  <2>2. queue \in Seq(Messages) /\ HeadFits /\ QueueFits /\ LastFits
    BY <2>1 DEF LinkInv, LinkTypes
  <2>3. /\ Len(queue') = Len(queue) + 1 /\ queue' # <<>> /\ queue'[Len(queue) + 1] = m /\ Len(queue) \in Nat
        /\ \A i \in 1..Len(queue) : queue'[i] = queue[i]
    BY <2>1, <2>2
  <2>4. LastFits'
    BY <2>3 DEF LastFits
  <2>5. HeadFits'
    <3>1. CASE queue = <<>>
      BY <2>2, <2>3, <3>1 DEF HeadFits, LastFits
    <3>2. CASE queue # <<>>
      <4>1. 1 \in 1..Len(queue)
        BY <2>2, <3>2
      <4> QED BY <2>2, <2>3, <3>2, <4>1 DEF HeadFits
    <3> QED BY <3>1, <3>2
  <2>6. QueueFits'
    <3> SUFFICES ASSUME NEW i \in 1..Len(queue'), i + 1 \in 1..Len(queue'), queue'[i].action # "delete"
                 PROVE  queue'[i + 1].gen = queue'[i].gen
      BY DEF QueueFits
    <3>1. CASE i + 1 \in 1..Len(queue)
      BY <2>2, <2>3, <3>1 DEF QueueFits
    <3>2. CASE i = Len(queue)
      BY <2>2, <2>3, <3>2 DEF LastFits
    <3> QED BY <2>3, <3>1, <3>2
  <2> QED BY <2>4, <2>5, <2>6
<1> QED BY <1>1, <1>2, <1>3 DEF LinkInv

\* The agent reads a message.
LEMMA IngestFits ==
  ASSUME LinkInv, IngestNetlink
  PROVE  LinkInv'
<1> DEFINE m == Head(queue)
<1>1. /\ ~overrun /\ queue # <<>> /\ netlinks' = Remembered(m) /\ queue' = Tail(queue)
      /\ claim' = [claim EXCEPT !.rule = LinkFinding(m, listed # {}), !.real = netlinks.gen = m.gen]
      /\ UNCHANGED <<link, overrun>>
  BY DEF IngestNetlink
<1>2. queue \in Seq(Messages) /\ m \in Messages /\ m = queue[1] /\ Len(queue) \in Nat /\ Len(queue) >= 1
  BY <1>1 DEF LinkInv, LinkTypes
<1>3. /\ Tail(queue) \in Seq(Messages) /\ Len(Tail(queue)) = Len(queue) - 1
      /\ \A i \in 1..(Len(queue) - 1) : Tail(queue)[i] = queue[i + 1]
  BY <1>1, <1>2
<1> HIDE DEF m
<1>4. /\ netlinks' \in [known : BOOLEAN, gen : Nat, mtu : Nat, master : Nat]
      /\ netlinks'.known => m.action # "delete" /\ netlinks'.gen = m.gen
  BY <1>1, <1>2 DEF Remembered, NoLinkState, Messages
<1>5. /\ DOMAIN claim' = {"rule", "real", "warned"} /\ claim'.warned = claim.warned
      /\ claim'.rule = LinkFinding(m, listed # {}) /\ claim'.real = (netlinks.gen = m.gen)
  BY <1>1 DEF LinkInv, LinkTypes
<1>6. LinkTypes'
  BY <1>1, <1>3, <1>4, <1>5 DEF LinkInv, LinkTypes
<1>7. ChangeIsReal'
  <2> SUFFICES ASSUME LinkFinding(m, listed # {}) \in {"tap-mtu-changed", "tap-master-changed"}, ~claim.warned
               PROVE  netlinks.gen = m.gen
    BY <1>5 DEF ChangeIsReal
  <2>1. netlinks.known
    BY DEF LinkFinding
  <2> QED BY <1>1, <1>2, <2>1 DEF LinkInv, Lossless, HeadFits
<1>8. ASSUME Lossless' PROVE (HeadFits /\ QueueFits /\ LastFits)'
  <2>1. QueueFits /\ LastFits
    BY <1>1, <1>5, <1>8 DEF LinkInv, Lossless
  <2>2. HeadFits'
    <3> SUFFICES ASSUME queue' # <<>>, m.action # "delete" PROVE m.gen = queue'[1].gen
      BY <1>4 DEF HeadFits
    <3>1. Len(queue) - 1 >= 1
      BY <1>1, <1>2, <1>3
    <3>2. queue'[1] = queue[2] /\ 1 \in 1..Len(queue) /\ 1 + 1 \in 1..Len(queue)
      BY <1>1, <1>2, <1>3, <3>1
    <3> QED BY <1>2, <2>1, <3>2 DEF QueueFits
  <2>3. QueueFits'
    <3> SUFFICES ASSUME NEW i \in 1..Len(queue'), i + 1 \in 1..Len(queue'), queue'[i].action # "delete"
                 PROVE  queue'[i + 1].gen = queue'[i].gen
      BY DEF QueueFits
    <3>1. queue'[i] = queue[i + 1] /\ queue'[i + 1] = queue[(i + 1) + 1] /\ i + 1 \in 1..Len(queue) /\ (i + 1) + 1 \in 1..Len(queue)
      BY <1>1, <1>2, <1>3
    <3> QED BY <2>1, <3>1 DEF QueueFits
  <2>4. LastFits'
    <3>1. CASE queue' = <<>>
      <4>1. Len(Tail(queue)) = 0
        <5>1. Tail(queue) = <<>>
          BY <1>1, <3>1
        <5> QED BY <5>1, EmptySeq
      <4>2. Len(queue) = 1
        BY <1>2, <1>3, <4>1
      <4> QED BY <1>1, <1>2, <1>4, <2>1, <3>1, <4>2 DEF LastFits
    <3>2. CASE queue' # <<>>
      <4>1. Len(queue') >= 1 /\ queue'[Len(queue')] = queue[Len(queue)]
        BY <1>1, <1>2, <1>3, <3>2
      <4> QED BY <1>1, <2>1, <3>2, <4>1 DEF LastFits
    <3> QED BY <3>1, <3>2
  <2> QED BY <2>2, <2>3, <2>4
<1> QED BY <1>6, <1>7, <1>8 DEF LinkInv

\* Every step of the agent.
LEMMA LinkStep ==
  ASSUME LinkInv, [AgNext]_agVars
  PROVE  LinkInv'
<1>1. ASSUME UNCHANGED linking PROVE LinkInv'
  BY <1>1 DEF linking, LinkInv, LinkTypes, Lossless, HeadFits, QueueFits, LastFits, ChangeIsReal
<1>2. ASSUME NEW j \in 1..2, NEW k \in 1..2, NEW d \in BOOLEAN, LinkChanges(j, k, d)
      PROVE  LinkInv'
  <2> DEFINE l == [exists |-> TRUE, gen |-> link.gen, mtu |-> j, master |-> k, down |-> d]
  <2>0. link.gen \in Nat
    BY DEF LinkInv, LinkTypes
  <2>1. l \in [exists : BOOLEAN, gen : Nat, mtu : Nat, master : Nat, down : BOOLEAN] /\ l.exists /\ l.gen = link.gen
    BY <2>0
  <2>2. link.exists /\ link' = l /\ Send(Message(l, "new")) /\ UNCHANGED <<netlinks, claim>>
    BY <1>2 DEF LinkChanges
  <2> HIDE DEF l
  <2>3. Message(l, "new") \in Messages /\ Message(l, "new").gen = l.gen /\ Message(l, "new").action = "new"
    BY <2>1 DEF Message, Messages
  <2> QED BY <2>1, <2>2, <2>3, SendFits
<1>3. CASE LinkDeleted
  <2> DEFINE l == [link EXCEPT !.exists = FALSE]
  <2>1. /\ l \in [exists : BOOLEAN, gen : Nat, mtu : Nat, master : Nat, down : BOOLEAN]
        /\ ~l.exists /\ l.gen = link.gen
    BY DEF LinkInv, LinkTypes
  <2>2. link.exists /\ link' = l /\ Send(Message(link, "delete")) /\ UNCHANGED <<netlinks, claim>>
    BY <1>3 DEF LinkDeleted
  <2> HIDE DEF l
  <2>3. Message(link, "delete") \in Messages /\ Message(link, "delete").gen = link.gen /\ Message(link, "delete").action = "delete"
    BY DEF Message, Messages, LinkInv, LinkTypes
  <2> QED BY <2>1, <2>2, <2>3, SendFits
<1>4. ASSUME NEW j \in 1..2, LinkCreated(j) PROVE LinkInv'
  <2> DEFINE l == [exists |-> TRUE, gen |-> link.gen + 1, mtu |-> j, master |-> 1, down |-> FALSE]
  <2>1. l \in [exists : BOOLEAN, gen : Nat, mtu : Nat, master : Nat, down : BOOLEAN] /\ l.exists
    BY DEF LinkInv, LinkTypes
  <2>2. ~link.exists /\ link' = l /\ Send(Message(l, "new")) /\ UNCHANGED <<netlinks, claim>>
    BY <1>4 DEF LinkCreated
  <2> HIDE DEF l
  <2>3. Message(l, "new") \in Messages /\ Message(l, "new").gen = l.gen /\ Message(l, "new").action = "new"
    BY <2>1 DEF Message, Messages
  <2> QED BY <2>1, <2>2, <2>3, SendFits
<1>5. CASE IngestOverrun
  <2>1. claim' = [rule |-> "netlink-overrun", real |-> TRUE, warned |-> TRUE] /\ overrun' = FALSE
        /\ UNCHANGED <<link, queue, netlinks>>
    BY <1>5 DEF IngestOverrun
  <2> QED BY <2>1 DEF LinkInv, LinkTypes, Lossless, ChangeIsReal
<1>6. \/ UNCHANGED linking \/ LinkDeleted \/ IngestNetlink \/ IngestOverrun
      \/ \E j, k \in 1..2, d \in BOOLEAN : LinkChanges(j, k, d)
      \/ \E j \in 1..2 : LinkCreated(j)
  BY Zenon DEF AgNext, agVars, linking, Starts, Ends, SetVMs, TrackVMs, Scan, RestartAgent, Ingest, Reload, ScanOwner
<1> QED BY <1>1, <1>2, <1>3, <1>4, <1>5, <1>6, IngestFits

LEMMA LinksInvariant == AgSpec => []LinkInv
<1>1. ASSUME AgInit PROVE LinkInv
  <2>1. /\ link = [exists |-> TRUE, gen |-> 1, mtu |-> 1, master |-> 1, down |-> FALSE] /\ queue = <<>> /\ overrun = FALSE
        /\ netlinks = [known |-> FALSE, gen |-> 0, mtu |-> 0, master |-> 0]
        /\ claim = [rule |-> "none", real |-> TRUE, warned |-> FALSE]
    BY <1>1 DEF AgInit, NoLinkState, NoClaim
  <2>2. LinkTypes
    <3>1. link \in [exists : BOOLEAN, gen : Nat, mtu : Nat, master : Nat, down : BOOLEAN]
      BY <2>1
    <3>2. netlinks \in [known : BOOLEAN, gen : Nat, mtu : Nat, master : Nat]
      BY <2>1
    <3>3. queue \in Seq(Messages) /\ overrun \in BOOLEAN
      BY <2>1, EmptySeq
    <3>4. DOMAIN claim = {"rule", "real", "warned"} /\ claim.warned \in BOOLEAN
      BY <2>1
    <3> QED BY <3>1, <3>2, <3>3, <3>4 DEF LinkTypes
  <2>3. HeadFits /\ QueueFits /\ LastFits /\ ChangeIsReal
    BY <2>1 DEF HeadFits, QueueFits, LastFits, ChangeIsReal
  <2> QED BY <2>2, <2>3 DEF LinkInv
<1>2. LinkInv /\ [AgNext]_agVars => LinkInv'
  BY LinkStep
<1> QED BY <1>1, <1>2, PTL DEF AgSpec

\* A change of an interface is claimed only of one interface, unless a loss of messages was reported before:
\* for every queue length, number of changes and order of reading (netlink.go, updateNetlinkState and
\* classifyNetlink).
THEOREM ClaimedChangesAreReal == AgSpec => []ChangeIsReal
<1>1. LinkInv => ChangeIsReal
  BY DEF LinkInv
<1> QED BY <1>1, LinksInvariant, PTL

-----------------------------------------------------------------------------
(* The keys of detections.  A key that holds a detection back tells the    *)
(* whole of the fact, so that what it stands for has been raised.          *)

Told(rule, vm, how, dir, proto, port, object, who) ==
  [rule |-> rule, vm |-> vm, how |-> how, dir |-> dir, proto |-> proto, port |-> port, object |-> object, who |-> who]

\* The fact that a key stands for.
Meaning(k) ==
  CASE k[1] = "dest" -> Told(k[2], k[3], k[4], "out", k[5], 0, k[6], "")
    [] k[1] = "dest-in" -> Told(k[2], k[3], k[4], "in", "tcp", 0, k[5], "")
    [] k[1] = "port" -> Told(k[2], k[3], k[4], "out", k[5], k[7], k[6], "")
    [] k[1] = "port-in" -> Told(k[2], k[3], "guest-tap", "in", "tcp", k[5], k[4], "")
    [] k[1] = "policy" -> Told(IF k[2] = "audit" THEN "egress-policy-audit" ELSE "egress-policy-blocked",
                               k[3], "", "", k[5], 0, k[4], "")
    [] k[1] \in {"dns", "tls"} -> Told(k[2], k[3], "", "", "", 0, k[4], "")
    [] k[1] = "exec" -> Told("unexpected-exec", k[2], "", "", "", 0, k[3], "")
    [] k[1] = "vmm-open" -> Told("vmm-sensitive-open", k[2], "", "", "", 0, k[3], k[4])
    [] k[1] = "vmm-call" -> Told("vmm-syscall", k[2], "", "", "", 0, k[3], k[4])
    [] k[1] = "vmm-flood" -> Told("vmm-flood", k[2], "", "", "", 0, "flood", k[3])

\* The inductive invariant: whatever is held has been raised.
FactInv == (\A k \in held : Meaning(k) \in raised) /\ NoFactHidden

LEMMA PeerKeyTells ==
  ASSUME NEW e \in Events, NEW rule, Dir(e) = "in" => Joins(e)
  PROVE  /\ Fact(e, [rule |-> rule, of |-> "peer", key |-> DestKey(e, rule)]) = Meaning(DestKey(e, rule))
         /\ Fact(e, [rule |-> rule, of |-> "port", key |-> PortKey(e, rule)]) = Meaning(PortKey(e, rule))
<1>1. /\ Fact(e, [rule |-> rule, of |-> "peer", key |-> DestKey(e, rule)])
           = Told(rule, JoinedVM(e), Attribution(e), Dir(e), e.proto, 0, e.peer, "")
      /\ Fact(e, [rule |-> rule, of |-> "port", key |-> PortKey(e, rule)])
           = Told(rule, JoinedVM(e), Attribution(e), Dir(e), e.proto, e.port, e.peer, "")
  BY DEF Fact, Told
<1>2. CASE Dir(e) = "in"
  <2>1. e.kind = "guest_inbound"
    BY <1>2 DEF Dir
  <2>2. e.proto = "tcp" /\ Attribution(e) = "guest-tap"
    BY <1>2, <2>1, AgentAssumption DEF Attribution, GuestKinds
  <2>3. /\ DestKey(e, rule) = <<"dest-in", rule, JoinedVM(e), Attribution(e), e.peer>>
        /\ PortKey(e, rule) = <<"port-in", rule, JoinedVM(e), e.peer, e.port>>
    BY <1>2 DEF DestKey, PortKey
  <2>4. Meaning(DestKey(e, rule)) = Told(rule, JoinedVM(e), Attribution(e), "in", "tcp", 0, e.peer, "")
    BY <2>3 DEF Meaning
  <2>5. Meaning(PortKey(e, rule)) = Told(rule, JoinedVM(e), "guest-tap", "in", "tcp", e.port, e.peer, "")
    BY <2>3 DEF Meaning
  <2> QED BY <1>1, <1>2, <2>2, <2>4, <2>5
<1>3. CASE Dir(e) # "in"
  <2>1. Dir(e) = "out"
    BY <1>3 DEF Dir
  <2>3. /\ DestKey(e, rule) = <<"dest", rule, JoinedVM(e), Attribution(e), e.proto, e.peer>>
        /\ PortKey(e, rule) = <<"port", rule, JoinedVM(e), Attribution(e), e.proto, e.peer, e.port>>
    BY <1>3 DEF DestKey, PortKey
  <2>4. Meaning(DestKey(e, rule)) = Told(rule, JoinedVM(e), Attribution(e), "out", e.proto, 0, e.peer, "")
    BY <2>3 DEF Meaning
  <2>5. Meaning(PortKey(e, rule)) = Told(rule, JoinedVM(e), Attribution(e), "out", e.proto, e.port, e.peer, "")
    BY <2>3 DEF Meaning
  <2> QED BY <1>1, <2>1, <2>4, <2>5
<1> QED BY <1>2, <1>3

LEMMA ConnectKeysTell ==
  ASSUME NEW e \in Events, Dir(e) = "in" => Joins(e), NEW d \in ConnectKeys(e)
  PROVE  Fact(e, d) = Meaning(d.key)
<1>1. CASE d \in {[rule |-> r, of |-> "peer", key |-> DestKey(e, r)] : r \in WatchRule(e)}
  <2>1. PICK r \in WatchRule(e) : d = [rule |-> r, of |-> "peer", key |-> DestKey(e, r)]
    BY <1>1
  <2>2. d.key = DestKey(e, r)
    BY <2>1
  <2>3. Fact(e, d) = Meaning(DestKey(e, r))
    BY <2>1, PeerKeyTells
  <2> QED BY <2>2, <2>3
<1>2. CASE d \in {[rule |-> r, of |-> "port", key |-> PortKey(e, r)] : r \in PortRule(e)}
  <2>1. PICK r \in PortRule(e) : d = [rule |-> r, of |-> "port", key |-> PortKey(e, r)]
    BY <1>2
  <2>2. d.key = PortKey(e, r)
    BY <2>1
  <2>3. Fact(e, d) = Meaning(PortKey(e, r))
    BY <2>1, PeerKeyTells
  <2> QED BY <2>2, <2>3
<1> QED BY <1>1, <1>2 DEF ConnectKeys

LEMMA PolicyKeysTell ==
  ASSUME NEW e \in Events, NEW d \in PolicyKeys(e)
  PROVE  Fact(e, d) = Meaning(d.key)
<1>1. PICK rule : rule = IF e.policy = "audit" THEN "egress-policy-audit" ELSE "egress-policy-blocked"
  OBVIOUS
<1>2. d = [rule |-> rule, of |-> "network", key |-> <<"policy", e.policy, JoinedVM(e), e.net, e.proto>>]
  BY <1>1 DEF PolicyKeys
<1>3. Fact(e, d) = Told(rule, JoinedVM(e), "", "", e.proto, 0, e.net, "")
  BY <1>2 DEF Fact, Told
<1>4. d.key = <<"policy", e.policy, JoinedVM(e), e.net, e.proto>>
  BY <1>2
<1>5. Meaning(d.key) = Told(rule, JoinedVM(e), "", "", e.proto, 0, e.net, "")
  BY <1>1, <1>4 DEF Meaning
<1> QED BY <1>3, <1>5

LEMMA NameKeysTell ==
  ASSUME NEW e \in Events, NEW tag \in {"dns", "tls"}, NEW rules, NEW d \in NameKeys(tag, rules, e)
  PROVE  Fact(e, d) = Meaning(d.key)
<1>1. PICK r \in NameRule(rules, e) : d = [rule |-> r, of |-> "name", key |-> <<tag, r, JoinedVM(e), e.what>>]
  BY DEF NameKeys
<1>2. Fact(e, d) = Told(r, JoinedVM(e), "", "", "", 0, e.what, "")
  BY <1>1 DEF Fact, Told
<1>3. d.key = <<tag, r, JoinedVM(e), e.what>>
  BY <1>1
<1>4. CASE tag = "dns"
  <2>1. Meaning(d.key) = Told(r, JoinedVM(e), "", "", "", 0, e.what, "")
    BY <1>3, <1>4 DEF Meaning
  <2> QED BY <1>2, <2>1
<1>5. CASE tag = "tls"
  <2>1. Meaning(d.key) = Told(r, JoinedVM(e), "", "", "", 0, e.what, "")
    BY <1>3, <1>5 DEF Meaning
  <2> QED BY <1>2, <2>1
<1> QED BY <1>4, <1>5

LEMMA VMMKeysTell ==
  ASSUME NEW e \in Events, NEW d \in VMMKeys(e)
  PROVE  Fact(e, d) = Meaning(d.key)
<1>1. CASE d = [rule |-> "vmm-sensitive-open", of |-> "deed", key |-> <<"vmm-open", JoinedVM(e), e.what, e.by>>]
  <2>1. Fact(e, d) = Told("vmm-sensitive-open", JoinedVM(e), "", "", "", 0, e.what, e.by)
    BY <1>1 DEF Fact, Told
  <2>2. d.key = <<"vmm-open", JoinedVM(e), e.what, e.by>>
    BY <1>1
  <2>3. Meaning(d.key) = Told("vmm-sensitive-open", JoinedVM(e), "", "", "", 0, e.what, e.by)
    BY <2>2 DEF Meaning
  <2> QED BY <2>1, <2>3
<1>2. CASE /\ d = [rule |-> "vmm-flood", of |-> "deed", key |-> <<"vmm-flood", JoinedVM(e), e.by>>]
           /\ e.what = "flood"
  <2>1. Fact(e, d) = Told("vmm-flood", JoinedVM(e), "", "", "", 0, "flood", e.by)
    BY <1>2 DEF Fact, Told
  <2>2. d.key = <<"vmm-flood", JoinedVM(e), e.by>>
    BY <1>2
  <2>3. Meaning(d.key) = Told("vmm-flood", JoinedVM(e), "", "", "", 0, "flood", e.by)
    BY <2>2 DEF Meaning
  <2> QED BY <2>1, <2>3
<1>3. CASE d = [rule |-> "vmm-syscall", of |-> "deed", key |-> <<"vmm-call", JoinedVM(e), e.what, e.by>>]
  <2>1. Fact(e, d) = Told("vmm-syscall", JoinedVM(e), "", "", "", 0, e.what, e.by)
    BY <1>3 DEF Fact, Told
  <2>2. d.key = <<"vmm-call", JoinedVM(e), e.what, e.by>>
    BY <1>3
  <2>3. Meaning(d.key) = Told("vmm-syscall", JoinedVM(e), "", "", "", 0, e.what, e.by)
    BY <2>2 DEF Meaning
  <2> QED BY <2>1, <2>3
<1>4. \/ d = [rule |-> "vmm-sensitive-open", of |-> "deed", key |-> <<"vmm-open", JoinedVM(e), e.what, e.by>>]
      \/ /\ d = [rule |-> "vmm-flood", of |-> "deed", key |-> <<"vmm-flood", JoinedVM(e), e.by>>]
         /\ e.what = "flood"
      \/ d = [rule |-> "vmm-syscall", of |-> "deed", key |-> <<"vmm-call", JoinedVM(e), e.what, e.by>>]
  BY DEF VMMKeys
<1> QED BY <1>1, <1>2, <1>3, <1>4

\* Whatever an event sets off, the key tells all of it.
LEMMA KeysTell ==
  ASSUME NEW e \in Events, NEW d \in Detections(e)
  PROVE  Fact(e, d) = Meaning(d.key)
<1>1. \/ /\ e.kind = "exec"
         /\ d = [rule |-> "unexpected-exec", of |-> "name", key |-> <<"exec", JoinedVM(e), e.what>>]
      \/ e.kind = "tcp_connect" /\ d \in ConnectKeys(e)
      \/ Joins(e) /\ d \in ConnectKeys(e)
      \/ d \in PolicyKeys(e) \/ d \in NameKeys("dns", cfg.dns, e) \/ d \in NameKeys("tls", cfg.tls, e)
      \/ d \in VMMKeys(e)
  BY DEF Detections
<1>2. CASE d = [rule |-> "unexpected-exec", of |-> "name", key |-> <<"exec", JoinedVM(e), e.what>>]
  <2>1. Fact(e, d) = Told("unexpected-exec", JoinedVM(e), "", "", "", 0, e.what, "")
    BY <1>2 DEF Fact, Told
  <2>2. d.key = <<"exec", JoinedVM(e), e.what>>
    BY <1>2
  <2>3. Meaning(d.key) = Told("unexpected-exec", JoinedVM(e), "", "", "", 0, e.what, "")
    BY <2>2 DEF Meaning
  <2> QED BY <2>1, <2>3
<1>3. CASE e.kind = "tcp_connect" /\ d \in ConnectKeys(e)
  BY <1>3, ConnectKeysTell DEF Dir
<1>4. CASE Joins(e) /\ d \in ConnectKeys(e)
  BY <1>4, ConnectKeysTell
<1>5. CASE d \in NameKeys("dns", cfg.dns, e) \/ d \in NameKeys("tls", cfg.tls, e)
  <2>1. PICK tag, rules : tag \in {"dns", "tls"} /\ d \in NameKeys(tag, rules, e)
    BY <1>5
  <2> QED BY <2>1, NameKeysTell
<1> QED BY <1>1, <1>2, <1>3, <1>4, <1>5, PolicyKeysTell, VMMKeysTell

\* "QEMU's own connect and the guest's are different facts, and one must not hide the other" (agent.go:280): for
\* any events, rules files, reloads and scans, whatever the rules in force spoke of has been raised as what it is.
THEOREM NothingHidden == AgSpec => []NoFactHidden
<1>1. AgInit => FactInv
  BY DEF AgInit, FactInv, NoFactHidden
<1>2. FactInv /\ [AgNext]_agVars => FactInv'
  <2> SUFFICES ASSUME FactInv, [AgNext]_agVars PROVE FactInv'
    OBVIOUS
  <2>1. CASE UNCHANGED <<held, raised, happened>>
    BY <2>1 DEF FactInv, NoFactHidden
  <2>2. ASSUME NEW e \in Events, Ingest(e) PROVE FactInv'
    <3> DEFINE new == {d \in Detections(e) : d.key \notin held}
    <3>1. /\ held' = held \cup {d.key : d \in new}
          /\ raised' = raised \cup {Fact(e, d) : d \in new}
          /\ happened' = happened \cup {Fact(e, d) : d \in Detections(e)}
      BY <2>2 DEF Ingest
    <3>2. \A d \in new : Meaning(d.key) \in raised'
      <4> SUFFICES ASSUME NEW d \in new PROVE Meaning(d.key) \in raised'
        OBVIOUS
      <4>1. Fact(e, d) = Meaning(d.key)
        BY KeysTell
      <4> HIDE DEF new
      <4> QED BY <3>1, <4>1
    <3>3. \A d \in Detections(e) : Fact(e, d) \in raised'
      <4> SUFFICES ASSUME NEW d \in Detections(e) PROVE Fact(e, d) \in raised'
        OBVIOUS
      <4>1. CASE d.key \in held
        BY <3>1, <4>1, KeysTell DEF FactInv
      <4>2. CASE d.key \notin held
        BY <3>1, <4>2
      <4> QED BY <4>1, <4>2
    <3> HIDE DEF new
    <3>4. \A k \in held' : Meaning(k) \in raised'
      <4> SUFFICES ASSUME NEW k \in held' PROVE Meaning(k) \in raised'
        OBVIOUS
      <4>1. CASE k \in held
        BY <3>1, <4>1 DEF FactInv
      <4>2. CASE k \notin held
        <5>1. PICK d \in new : k = d.key
          BY <3>1, <4>2
        <5> QED BY <3>2, <5>1
      <4> QED BY <4>1, <4>2
    <3>5. happened' \subseteq raised'
      BY <3>1, <3>3 DEF FactInv, NoFactHidden
    <3> QED BY <3>4, <3>5 DEF FactInv, NoFactHidden
  <2>3. UNCHANGED <<held, raised, happened>> \/ \E e \in Events : Ingest(e)
    BY Zenon DEF AgNext, agVars, ruling, Starts, Ends, SetVMs, TrackVMs, Scan, RestartAgent, Reload, ScanOwner,
         LinkChanges, LinkDeleted, LinkCreated, IngestNetlink, IngestOverrun
  <2> QED BY <2>1, <2>2, <2>3
<1>3. FactInv => NoFactHidden
  BY DEF FactInv
<1> QED BY <1>1, <1>2, <1>3, PTL DEF AgSpec

-----------------------------------------------------------------------------
(* What is told of a VM's life.  A process that runs and is tracked has    *)
(* been missed only by scans that could not read it, or by the one scan    *)
(* that began before it did and was overtaken by another.                  *)

Life == {"start", "stop"}
Scans == [at : {"idle", "publish", "track"}, found : SUBSET Procs]

LifeTypes ==
  /\ world \in Worlds /\ badReads \in 0..world.bad /\ firstScan \in BOOLEAN
  /\ proc \in [Procs -> {"new", "runs", "gone"}] /\ DOMAIN tracked \subseteq Procs
  /\ refresh \in [Roles -> Scans] /\ said \in [Procs -> Seq(Life)]
  /\ tracked \in [DOMAIN tracked -> 0..(StopAfter - 1)]

\* A scan under way has nothing of p.
Lacks(r, p) == refresh[r].at # "idle" /\ p \notin refresh[r].found

InTurn ==
  /\ \A r \in Roles : refresh[r].at = "idle" => refresh[r].found = {}
  /\ ~world.overlap => \A q, r \in Roles : q # r => refresh[q].at = "idle" \/ refresh[r].at = "idle"

\* Nothing is known of a process before it starts.
NewIsUnknown == \A p \in Procs : proc[p] = "new" => p \notin DOMAIN tracked /\ \A r \in Roles : p \notin refresh[r].found

MissesInTurn ==
  ~world.overlap => \A p \in DOMAIN tracked : proc[p] = "runs" =>
    /\ tracked[p] <= badReads
    /\ \A r \in Roles : Lacks(r, p) => tracked[p] + 1 <= badReads

MissesOverlap ==
  world.overlap => \A p \in DOMAIN tracked : proc[p] = "runs" =>
    /\ tracked[p] <= 1
    /\ \A r \in Roles : Lacks(r, p) => tracked[p] = 0 /\ \A q \in Roles : Lacks(q, p) => q = r

\* A process that is tracked has not stopped in what is told; one that has will not be found again.
ToldInTurn ==
  ~world.overlap => \A p \in Procs :
    IF p \in DOMAIN tracked THEN said[p] \in {<<>>, <<"start">>}
    ELSE \/ said[p] = <<>>
         \/ /\ said[p] \in {<<"stop">>, <<"start", "stop">>} /\ proc[p] = "gone"
            /\ \A r \in Roles : p \notin refresh[r].found

LifeInv == LifeTypes /\ InTurn /\ NewIsUnknown /\ MissesInTurn /\ MissesOverlap /\ ToldInTurn /\ StopIsTrue

lifeVars == <<world, proc, tracked, firstScan, refresh, said, badReads>>

\* What every step leaves in order, whichever part it belongs to.
RestTypes == steps \in 0..MaxSteps /\ listed \subseteq Procs /\ cfg \in Configs /\ Parses(cfg)
QueueTypes == Len(queue) <= MaxQueue /\ overrun \in BOOLEAN /\ netlinks.known \in BOOLEAN

LEMMA RestStep ==
  ASSUME RestTypes, refresh \in [Roles -> Scans], [AgNext]_agVars
  PROVE  RestTypes'
<1>1. ASSUME Step PROVE steps' \in 0..MaxSteps
  BY <1>1, AgentAssumption DEF Step, RestTypes
<1>2. CASE UNCHANGED <<steps, listed, cfg>>
  BY <1>2 DEF RestTypes
<1>3. CASE Step /\ UNCHANGED <<listed, cfg>>
  BY <1>1, <1>3 DEF RestTypes
<1>4. CASE RestartAgent
  <2>1. Step /\ listed' = {} /\ cfg' = cfg
    BY <1>4 DEF RestartAgent, ruling
  <2> QED BY <1>1, <2>1 DEF RestTypes
<1>5. ASSUME NEW r \in Roles, SetVMs(r) PROVE RestTypes'
  <2>1. listed' = refresh[r].found /\ steps' = steps /\ cfg' = cfg
    BY <1>5 DEF SetVMs, ruling
  <2>2. refresh[r].found \subseteq Procs
    BY DEF Scans
  <2> QED BY <2>1, <2>2 DEF RestTypes
<1>6. ASSUME NEW c \in Configs, Reload(c) PROVE RestTypes'
  <2>1. Step /\ listed' = listed /\ cfg' = IF Parses(c) THEN c ELSE cfg
    BY <1>6 DEF Reload
  <2>2. cfg' \in Configs /\ Parses(cfg')
    BY <2>1 DEF RestTypes
  <2> QED BY <1>1, <2>1, <2>2 DEF RestTypes
<1>7. ASSUME NEW S \in SUBSET Procs, ScanOwner(S) PROVE RestTypes'
  <2>1. listed' = S /\ steps' = steps /\ cfg' = cfg
    BY <1>7 DEF ScanOwner, ruling
  <2> QED BY <2>1 DEF RestTypes
<1>8. \/ UNCHANGED <<steps, listed, cfg>>
      \/ Step /\ UNCHANGED <<listed, cfg>>
      \/ RestartAgent
      \/ \E r \in Roles : SetVMs(r)
      \/ \E c \in Configs : Reload(c)
      \/ \E S \in SUBSET Procs : ScanOwner(S)
  BY Zenon DEF AgNext, agVars, ruling, Starts, Ends, TrackVMs, Scan, Ingest, LinkChanges, LinkDeleted,
       LinkCreated, IngestNetlink, IngestOverrun
<1> QED BY <1>2, <1>3, <1>4, <1>5, <1>6, <1>7, <1>8

LEMMA QueueStep ==
  ASSUME QueueTypes, LinkInv, LinkInv', [AgNext]_agVars
  PROVE  QueueTypes'
<1>1. overrun' \in BOOLEAN /\ netlinks'.known \in BOOLEAN
  BY DEF LinkInv, LinkTypes
<1>2. queue \in Seq(Messages) /\ queue' \in Seq(Messages)
  BY DEF LinkInv, LinkTypes
<1>3. ASSUME NEW m, Send(m) PROVE Len(queue') <= MaxQueue
  <2>1. CASE queue' = queue
    BY <2>1 DEF QueueTypes
  <2>2. CASE queue' = Append(queue, m) /\ Len(queue) < MaxQueue
    BY <1>2, <2>2, AgentAssumption
  <2> QED BY <1>3, <2>1, <2>2 DEF Send
<1>4. CASE queue' = queue
  BY <1>1, <1>4 DEF QueueTypes
<1>5. CASE IngestNetlink
  <2>1. queue # <<>> /\ queue' = Tail(queue)
    BY <1>5 DEF IngestNetlink
  <2>2. Len(queue') = Len(queue) - 1
    BY <1>2, <2>1
  <2> QED BY <1>1, <1>2, <2>2, AgentAssumption DEF QueueTypes
<1>6. queue' = queue \/ IngestNetlink \/ \E m : Send(m)
  BY Zenon DEF AgNext, agVars, linking, Starts, Ends, SetVMs, TrackVMs, Scan, RestartAgent, Ingest, Reload, ScanOwner,
       LinkChanges, LinkDeleted, LinkCreated, IngestOverrun
<1> QED BY <1>1, <1>3, <1>4, <1>5, <1>6 DEF QueueTypes

LEMMA LifeQuiet ==
  ASSUME LifeInv, UNCHANGED lifeVars
  PROVE  LifeInv'
BY DEF lifeVars, LifeInv, LifeTypes, InTurn, NewIsUnknown, Lacks, MissesInTurn, MissesOverlap, ToldInTurn, StopIsTrue

\* A process starts or ends.
LEMMA ProcStep ==
  ASSUME LifeInv, NEW p \in Procs, Starts(p) \/ Ends(p)
  PROVE  LifeInv'
<1>1. /\ UNCHANGED <<world, tracked, firstScan, refresh, said, badReads>>
      /\ proc' \in [Procs -> {"new", "runs", "gone"}]
      /\ \A q \in Procs : q # p => proc'[q] = proc[q]
      /\ \/ proc[p] = "new" /\ proc'[p] = "runs"
         \/ proc[p] = "runs" /\ proc'[p] = "gone"
  <2>1. proc \in [Procs -> {"new", "runs", "gone"}]
    BY DEF LifeInv, LifeTypes
  <2>2. CASE Starts(p)
    BY <2>1, <2>2 DEF Starts
  <2>3. CASE Ends(p)
    BY <2>1, <2>3 DEF Ends
  <2> QED BY <2>2, <2>3
<1>2. LifeTypes' /\ InTurn'
  BY <1>1 DEF LifeInv, LifeTypes, InTurn
<1>3. \A q \in Procs : proc'[q] = "new" => proc[q] = "new"
  BY <1>1
<1>4. NewIsUnknown'
  BY <1>1, <1>3 DEF LifeInv, NewIsUnknown
<1>5. \A q \in DOMAIN tracked : proc'[q] = "runs" => proc[q] = "runs"
  BY <1>1 DEF LifeInv, LifeTypes, NewIsUnknown
<1>6. MissesInTurn' /\ MissesOverlap'
  BY <1>1, <1>5 DEF LifeInv, MissesInTurn, MissesOverlap, Lacks
<1>7. \A q \in Procs : proc[q] = "gone" => proc'[q] = "gone"
  BY <1>1
<1>8. ToldInTurn' /\ StopIsTrue'
  BY <1>1, <1>7 DEF LifeInv, ToldInTurn, StopIsTrue
<1> QED BY <1>2, <1>4, <1>6, <1>8 DEF LifeInv

\* A scan begins: what it misses of what runs, it could not read.
LEMMA ScanStep ==
  ASSUME LifeInv, NEW r \in Roles, NEW missed \in SUBSET Procs, Scan(r, missed)
  PROVE  LifeInv'
<1>1. /\ UNCHANGED <<world, proc, tracked, firstScan, said>>
      /\ Free(r) /\ missed \subseteq Running /\ badReads + Cardinality(missed) <= world.bad
      /\ badReads' = badReads + Cardinality(missed)
      /\ refresh' = [refresh EXCEPT ![r] = [at |-> "publish", found |-> Running \ missed]]
  BY DEF Scan
<1>2. IsFiniteSet(missed) /\ Cardinality(missed) \in Nat
  BY AgentAssumption, FS_Subset, FS_CardinalityType
<1>3. world.bad \in Nat /\ badReads \in Nat /\ badReads <= world.bad
  BY AgentAssumption DEF LifeInv, LifeTypes
<1>4. badReads' \in 0..world.bad /\ badReads' \in Nat /\ badReads' >= badReads
  BY <1>1, <1>2, <1>3
<1>5. Running \ missed \subseteq Procs
  BY DEF Running
<1>6. /\ refresh' \in [Roles -> Scans]
      /\ refresh'[r].at = "publish" /\ refresh'[r].found = Running \ missed
      /\ \A q \in Roles : q # r => refresh'[q] = refresh[q]
  BY <1>1, <1>5 DEF LifeInv, LifeTypes, Scans
<1>7. LifeTypes'
  BY <1>1, <1>4, <1>6 DEF LifeInv, LifeTypes
<1>8. InTurn'
  BY <1>1, <1>6 DEF LifeInv, InTurn, Free
<1>9. NewIsUnknown'
  BY <1>1, <1>6 DEF LifeInv, NewIsUnknown, Running
<1>10. \A p \in Procs : proc[p] = "runs" /\ Lacks(r, p)' => p \in missed
  BY <1>1, <1>6 DEF Lacks, Running
<1>11. \A p \in missed : Cardinality(missed) >= 1
  BY <1>2, FS_EmptySet
<1>12. MissesInTurn'
  <2> SUFFICES ASSUME ~world.overlap, NEW p \in DOMAIN tracked, proc[p] = "runs"
               PROVE  /\ tracked[p] <= badReads'
                      /\ \A q \in Roles : Lacks(q, p)' => tracked[p] + 1 <= badReads'
    BY <1>1 DEF MissesInTurn
  <2>1. tracked[p] \in Nat /\ tracked[p] <= badReads
    BY AgentAssumption DEF LifeInv, LifeTypes, MissesInTurn
  <2>2. \A q \in Roles : Lacks(q, p)' => q = r
    BY <1>1, <1>6 DEF Lacks, Free
  <2>3. p \in Procs
    BY DEF LifeInv, LifeTypes
  <2>4. Lacks(r, p)' => badReads' >= badReads + 1
    BY <1>1, <1>2, <1>3, <1>10, <1>11, <2>3
  <2> QED BY <1>3, <1>4, <2>1, <2>2, <2>4
<1>13. MissesOverlap'
  <2> SUFFICES ASSUME world.overlap PROVE MissesOverlap'
    BY <1>1 DEF MissesOverlap
  <2>1. world.bad = 0
    BY MissesAssumption DEF LifeInv, LifeTypes
  <2>2. missed = {}
    BY <1>1, <1>2, <1>3, <1>11, <2>1
  <2>3. \A p \in DOMAIN tracked : proc[p] = "runs" => ~Lacks(r, p)'
    BY <1>10, <2>2 DEF LifeInv, LifeTypes
  <2>4. \A q \in Roles, p \in Procs : q # r /\ Lacks(q, p)' => Lacks(q, p)
    BY <1>6 DEF Lacks
  <2>5. DOMAIN tracked \subseteq Procs
    BY DEF LifeInv, LifeTypes
  <2> QED BY <1>1, <2>3, <2>4, <2>5 DEF LifeInv, MissesOverlap
<1>14. ToldInTurn' /\ StopIsTrue'
  BY <1>1, <1>6 DEF LifeInv, ToldInTurn, StopIsTrue, Running
<1> QED BY <1>7, <1>8, <1>9, <1>12, <1>13, <1>14 DEF LifeInv

\* What a scan found is published.
LEMMA PublishStep ==
  ASSUME LifeInv, NEW r \in Roles, SetVMs(r)
  PROVE  LifeInv'
<1>1. /\ UNCHANGED <<world, proc, tracked, firstScan, said, badReads>>
      /\ refresh[r].at = "publish" /\ refresh' = [refresh EXCEPT ![r].at = "track"]
  BY DEF SetVMs
<1>2. /\ refresh' \in [Roles -> Scans]
      /\ \A q \in Roles : refresh'[q].found = refresh[q].found /\ (refresh'[q].at = "idle" <=> refresh[q].at = "idle")
  BY <1>1 DEF LifeInv, LifeTypes, Scans
<1>3. \A q \in Roles, p \in Procs : Lacks(q, p)' <=> Lacks(q, p)
  BY <1>2 DEF Lacks
<1>4. DOMAIN tracked \subseteq Procs
  BY DEF LifeInv, LifeTypes
<1> QED BY <1>1, <1>2, <1>3, <1>4 DEF LifeInv, LifeTypes, InTurn, NewIsUnknown, MissesInTurn, MissesOverlap, ToldInTurn,
             StopIsTrue

\* A VM is taken for stopped only when its process has ended.
LEMMA StoppedIsGone ==
  ASSUME LifeInv, NEW r \in Roles, refresh[r].at = "track", NEW p \in Stopped(refresh[r].found)
  PROVE  p \in DOMAIN tracked /\ p \notin refresh[r].found /\ proc[p] = "gone"
<1>1. p \in DOMAIN tracked /\ Misses(refresh[r].found, p) >= StopAfter /\ p \in Procs
  BY DEF Stopped, LifeInv, LifeTypes
<1>2. StopAfter \in Nat /\ StopAfter >= 1 /\ tracked[p] \in Nat
  BY <1>1, AgentAssumption DEF LifeInv, LifeTypes
<1>3. p \notin refresh[r].found /\ tracked[p] + 1 >= StopAfter
  BY <1>1, <1>2 DEF Misses
<1>4. Lacks(r, p)
  BY <1>3 DEF Lacks
<1>5. world.bad \in Nat /\ badReads \in Nat /\ badReads <= world.bad /\ world.bad < StopAfter
      /\ (world.overlap => StopAfter >= 2)
  BY AgentAssumption, MissesAssumption DEF LifeInv, LifeTypes
<1>6. proc[p] # "new"
  BY <1>1 DEF LifeInv, NewIsUnknown
<1>7. proc[p] # "runs"
  <2> SUFFICES ASSUME proc[p] = "runs" PROVE FALSE
    OBVIOUS
  <2>1. CASE world.overlap
    <3>1. tracked[p] = 0
      BY <1>1, <1>4, <2>1 DEF LifeInv, MissesOverlap
    <3> QED BY <1>2, <1>3, <1>5, <2>1, <3>1
  <2>2. CASE ~world.overlap
    <3>1. tracked[p] + 1 <= badReads
      BY <1>1, <1>4, <2>2 DEF LifeInv, MissesInTurn
    <3> QED BY <1>2, <1>3, <1>5, <3>1
  <2> QED BY <2>1, <2>2
<1> QED BY <1>1, <1>3, <1>6, <1>7 DEF LifeInv, LifeTypes

\* What a scan found is tracked.
LEMMA TrackStep ==
  ASSUME LifeInv, NEW r \in Roles, TrackVMs(r)
  PROVE  LifeInv'
<1>1. PICK S : S = refresh[r].found
  OBVIOUS
<1>2. /\ UNCHANGED <<world, proc, badReads>> /\ refresh[r].at = "track" /\ firstScan' = FALSE
      /\ tracked' = [p \in (DOMAIN tracked \ Stopped(S)) \cup S |-> IF p \in DOMAIN tracked THEN Misses(S, p) ELSE 0]
      /\ said' = Tell(S)
      /\ refresh' = [refresh EXCEPT ![r] = [at |-> "idle", found |-> {}]]
  BY <1>1 DEF TrackVMs, Resting
<1>3. /\ DOMAIN tracked \subseteq Procs /\ S \subseteq Procs /\ refresh \in [Roles -> Scans]
      /\ StopAfter \in Nat /\ StopAfter >= 1
      /\ \A p \in DOMAIN tracked : tracked[p] \in Nat
  BY <1>1, AgentAssumption DEF LifeInv, LifeTypes, Scans
<1>4. \A p \in Stopped(S) : p \in DOMAIN tracked /\ p \notin S /\ proc[p] = "gone"
  BY <1>1, <1>2, StoppedIsGone
<1>5. /\ refresh' \in [Roles -> Scans]
      /\ refresh'[r].at = "idle" /\ refresh'[r].found = {}
      /\ \A q \in Roles : q # r => refresh'[q] = refresh[q]
  BY <1>2, <1>3 DEF Scans
<1>6. /\ DOMAIN tracked' = (DOMAIN tracked \ Stopped(S)) \cup S
      /\ \A p \in DOMAIN tracked' : tracked'[p] = IF p \in DOMAIN tracked THEN Misses(S, p) ELSE 0
  BY <1>2
<1>7. \A p \in DOMAIN tracked' : tracked'[p] \in 0..(StopAfter - 1)
  <2> SUFFICES ASSUME NEW p \in DOMAIN tracked' PROVE tracked'[p] \in 0..(StopAfter - 1)
    OBVIOUS
  <2>1. CASE p \in S \/ p \notin DOMAIN tracked
    BY <1>3, <1>6, <2>1 DEF Misses
  <2>2. CASE p \notin S /\ p \in DOMAIN tracked
    <3>1. tracked'[p] = tracked[p] + 1 /\ p \notin Stopped(S)
      BY <1>6, <2>2 DEF Misses
    <3>2. tracked[p] + 1 < StopAfter
      BY <1>3, <2>2, <3>1 DEF Stopped, Misses
    <3> QED BY <1>3, <2>2, <3>1, <3>2
  <2> QED BY <2>1, <2>2
<1>8. tracked' \in [DOMAIN tracked' -> 0..(StopAfter - 1)]
  <2>1. tracked' = [p \in DOMAIN tracked' |-> tracked'[p]]
    BY <1>2
  <2> QED BY <1>7, <2>1
<1>9. /\ said \in [Procs -> Seq(Life)] /\ firstScan \in BOOLEAN
      /\ \A p \in Procs : said'[p] = IF p \in Stopped(S) THEN Append(said[p], "stop")
                                     ELSE IF p \in Appeared(S) /\ ~firstScan THEN Append(said[p], "start") ELSE said[p]
  BY <1>2 DEF Tell, LifeInv, LifeTypes
<1>10. said' \in [Procs -> Seq(Life)]
  <2>1. \A s \in Seq(Life) : Append(s, "stop") \in Seq(Life) /\ Append(s, "start") \in Seq(Life)
    BY DEF Life
  <2>2. \A p \in Procs : said[p] \in Seq(Life)
    BY <1>9
  <2> QED BY <1>2, <2>1, <2>2 DEF Tell
<1>11. LifeTypes'
  <2>1. DOMAIN tracked' \subseteq Procs
    BY <1>3, <1>6
  <2> QED BY <1>2, <1>5, <1>8, <1>10, <2>1 DEF LifeInv, LifeTypes
<1>12. InTurn'
  BY <1>2, <1>5 DEF LifeInv, InTurn
<1>13. NewIsUnknown'
  BY <1>1, <1>2, <1>3, <1>5, <1>6 DEF LifeInv, NewIsUnknown
<1>14. \A q \in Roles, p \in Procs : Lacks(q, p)' => q # r /\ Lacks(q, p)
  BY <1>5 DEF Lacks
<1>15. \A p \in Procs : Lacks(r, p) <=> p \notin S
  BY <1>1, <1>2 DEF Lacks
<1>16. \A p \in DOMAIN tracked' : tracked'[p] = IF p \in S THEN 0 ELSE tracked[p] + 1
  BY <1>6 DEF Misses
<1>17. \A p \in DOMAIN tracked' : p \in Procs /\ (p \notin S => p \in DOMAIN tracked)
  BY <1>3, <1>6
<1>18. MissesInTurn'
  <2> SUFFICES ASSUME ~world.overlap, NEW p \in DOMAIN tracked', proc[p] = "runs"
               PROVE  tracked'[p] <= badReads /\ \A q \in Roles : ~Lacks(q, p)'
    BY <1>2 DEF MissesInTurn
  <2>1. \A q \in Roles : ~Lacks(q, p)'
    BY <1>2, <1>5, <1>14, <1>17 DEF LifeInv, InTurn, Lacks
  <2>2. badReads \in Nat
    BY AgentAssumption DEF LifeInv, LifeTypes
  <2> QED BY <1>15, <1>16, <1>17, <2>1, <2>2 DEF LifeInv, MissesInTurn
<1>19. MissesOverlap'
  <2> SUFFICES ASSUME world.overlap, NEW p \in DOMAIN tracked', proc[p] = "runs"
               PROVE  /\ tracked'[p] <= 1
                      /\ \A q \in Roles : Lacks(q, p)' =>
                           tracked'[p] = 0 /\ \A o \in Roles : Lacks(o, p)' => o = q
    BY <1>2 DEF MissesOverlap
  <2>1. CASE p \in S
    <3>1. tracked'[p] = 0
      BY <1>16, <2>1
    <3>2. \A o, q \in Roles : o # r /\ q # r => o = q
      BY DEF Roles
    <3> QED BY <1>14, <1>17, <3>1, <3>2
  <2>2. CASE p \notin S
    <3>1. p \in DOMAIN tracked /\ p \in Procs /\ Lacks(r, p)
      BY <1>15, <1>17, <2>2
    <3>2. tracked[p] = 0 /\ \A q \in Roles : Lacks(q, p) => q = r
      BY <3>1 DEF LifeInv, MissesOverlap
    <3> QED BY <1>14, <1>16, <2>2, <3>1, <3>2
  <2> QED BY <2>1, <2>2
<1>20. ToldInTurn'
  <2> SUFFICES ASSUME ~world.overlap, NEW p \in Procs
               PROVE  IF p \in DOMAIN tracked' THEN said'[p] \in {<<>>, <<"start">>}
                      ELSE \/ said'[p] = <<>>
                           \/ /\ said'[p] \in {<<"stop">>, <<"start", "stop">>} /\ proc[p] = "gone"
                              /\ \A q \in Roles : p \notin refresh'[q].found
    BY <1>2 DEF ToldInTurn
  <2>1. \A q \in Roles : p \notin refresh'[q].found
    BY <1>2, <1>5 DEF LifeInv, InTurn
  <2>2. CASE p \in Stopped(S)
    <3>1. said[p] \in {<<>>, <<"start">>} /\ proc[p] = "gone"
      BY <1>4, <2>2 DEF LifeInv, ToldInTurn
    <3>2. said'[p] = Append(said[p], "stop")
      BY <1>9, <2>2
    <3>3. said'[p] \in {<<"stop">>, <<"start", "stop">>}
      <4>1. Append(<<>>, "stop") = <<"stop">>
        OBVIOUS
      <4>2. Append(<<"start">>, "stop") = <<"start", "stop">>
        <5> DEFINE s == Append(<<"start">>, "stop")
        <5>1. <<"start">> \in Seq(Life) /\ "stop" \in Life /\ <<"start", "stop">> \in Seq(Life)
          BY DEF Life
        <5>2. s \in Seq(Life) /\ Len(s) = 2 /\ s[1] = "start" /\ s[2] = "stop"
          BY <5>1
        <5> HIDE DEF s
        <5>3. PICK t : t = <<"start", "stop">>
          OBVIOUS
        <5>4. t \in Seq(Life) /\ Len(t) = 2 /\ t[1] = "start" /\ t[2] = "stop"
          BY <5>1, <5>3
        <5>5. \A i \in 1..Len(s) : s[i] = t[i]
          BY <5>2, <5>4
        <5>6. s = t
          BY <5>2, <5>4, <5>5, SeqEqual
        <5> QED BY <5>3, <5>6 DEF s
      <4> QED BY <3>1, <3>2, <4>1, <4>2
    <3>4. p \notin DOMAIN tracked'
      BY <1>4, <1>6, <2>2
    <3> QED BY <2>1, <3>1, <3>3, <3>4
  <2>3. CASE p \notin Stopped(S) /\ p \in DOMAIN tracked
    <3>1. said'[p] = said[p] /\ p \in DOMAIN tracked'
      BY <1>6, <1>9, <2>3 DEF Appeared
    <3> QED BY <2>3, <3>1 DEF LifeInv, ToldInTurn
  <2>4. CASE p \notin DOMAIN tracked /\ p \in S
    <3>1. said[p] = <<>>
      BY <1>1, <2>4 DEF LifeInv, ToldInTurn
    <3>2. said'[p] \in {Append(said[p], "start"), said[p]}
      BY <1>4, <1>9, <2>4
    <3>3. Append(<<>>, "start") = <<"start">>
      OBVIOUS
    <3> QED BY <1>6, <2>4, <3>1, <3>2, <3>3
  <2>5. CASE p \notin DOMAIN tracked /\ p \notin S
    <3>1. said'[p] = said[p] /\ p \notin DOMAIN tracked'
      BY <1>4, <1>6, <1>9, <2>5 DEF Appeared
    <3> QED BY <2>1, <2>5, <3>1 DEF LifeInv, ToldInTurn
  <2> QED BY <2>2, <2>3, <2>4, <2>5
<1>21. StopIsTrue'
  <2> SUFFICES ASSUME NEW p \in Procs, said'[p] # <<>>, said'[p][Len(said'[p])] = "stop" PROVE proc[p] = "gone"
    BY <1>2 DEF StopIsTrue
  <2>1. CASE p \in Stopped(S)
    BY <1>4, <2>1
  <2>2. CASE p \notin Stopped(S) /\ said'[p] = Append(said[p], "start")
    <3>1. said[p] \in Seq(Life)
      BY <1>9
    <3>2. said'[p][Len(said'[p])] = "start"
      BY <2>2, <3>1
    <3> QED BY <3>2
  <2>3. CASE p \notin Stopped(S) /\ said'[p] = said[p]
    BY <2>3 DEF LifeInv, StopIsTrue
  <2> QED BY <1>9, <2>1, <2>2, <2>3
<1> QED BY <1>11, <1>12, <1>13, <1>18, <1>19, <1>20, <1>21 DEF LifeInv

\* The agent starts, or starts again: it knows nothing and has said nothing.
FreshLife ==
  /\ tracked = [p \in {} |-> 0] /\ refresh = [r \in Roles |-> Resting] /\ said = [p \in Procs |-> <<>>]
  /\ badReads = 0 /\ firstScan = TRUE
  /\ world \in Worlds /\ proc \in [Procs -> {"new", "runs", "gone"}]

LEMMA FreshStart ==
  ASSUME FreshLife
  PROVE  LifeInv
<1>1. DOMAIN tracked = {}
  BY DEF FreshLife
<1>2. \A r \in Roles : refresh[r].at = "idle" /\ refresh[r].found = {}
  BY DEF FreshLife, Resting
<1>3. LifeTypes
  <2>1. tracked \in [DOMAIN tracked -> 0..(StopAfter - 1)]
    BY <1>1 DEF FreshLife
  <2>2. refresh \in [Roles -> Scans]
    BY DEF FreshLife, Resting, Scans
  <2>3. said \in [Procs -> Seq(Life)]
    BY DEF FreshLife
  <2>4. badReads \in 0..world.bad
    BY AgentAssumption DEF FreshLife
  <2> QED BY <1>1, <2>1, <2>2, <2>3, <2>4 DEF FreshLife, LifeTypes
<1>4. InTurn /\ NewIsUnknown /\ MissesInTurn /\ MissesOverlap
  BY <1>1, <1>2 DEF InTurn, NewIsUnknown, MissesInTurn, MissesOverlap
<1>5. \A p \in Procs : said[p] = <<>>
  BY DEF FreshLife
<1>6. ToldInTurn /\ StopIsTrue
  BY <1>1, <1>5 DEF ToldInTurn, StopIsTrue
<1> QED BY <1>3, <1>4, <1>6 DEF LifeInv

LEMMA FreshAgain == FreshLife' => LifeInv'
<1>1. FreshLife => LifeInv
  BY FreshStart
<1> QED BY <1>1, PTL

LEMMA AgentLifeStep ==
  ASSUME LifeInv, [AgNext]_agVars
  PROVE  LifeInv'
<1>1. CASE RestartAgent
  <2>1. FreshLife'
    BY <1>1 DEF RestartAgent, Step, FreshLife, LifeInv, LifeTypes
  <2> QED BY <2>1, FreshAgain
<1>2. \/ UNCHANGED lifeVars
      \/ RestartAgent
      \/ \E p \in Procs : Starts(p) \/ Ends(p)
      \/ \E r \in Roles : SetVMs(r) \/ TrackVMs(r) \/ \E missed \in SUBSET Procs : Scan(r, missed)
  BY Zenon DEF AgNext, agVars, lifeVars, tracking, Step, Ingest, Reload, ScanOwner, LinkChanges, LinkDeleted,
       LinkCreated, IngestNetlink, IngestOverrun
<1>3. ASSUME NEW p \in Procs, Starts(p) \/ Ends(p) PROVE LifeInv'
  BY <1>3, ProcStep
<1>4. ASSUME NEW r \in Roles, SetVMs(r) PROVE LifeInv'
  BY <1>4, PublishStep
<1>5. ASSUME NEW r \in Roles, TrackVMs(r) PROVE LifeInv'
  BY <1>5, TrackStep
<1>6. ASSUME NEW r \in Roles, NEW missed \in SUBSET Procs, Scan(r, missed) PROVE LifeInv'
  BY <1>6, ScanStep
<1>7. CASE UNCHANGED lifeVars
  BY <1>7, LifeQuiet
<1> QED BY <1>1, <1>2, <1>3, <1>4, <1>5, <1>6, <1>7

\* The agent tells the truth of a VM's life, and tells it once: for any processes, bad reads that stopAfterMisses
\* is to bear, restarts, and refreshes in turn or overlapping, a stop is told only of a process that has ended
\* (agent.go:474), and in turn no start or stop is told twice.
THEOREM LifeIsToldTruly == AgSpec => []LifeIsTrue
<1>1. AgInit => LifeInv /\ RestTypes /\ QueueTypes
  <2> SUFFICES ASSUME AgInit PROVE LifeInv /\ RestTypes /\ QueueTypes
    OBVIOUS
  <2>1. FreshLife
    BY DEF AgInit, FreshLife
  <2>2. RestTypes
    BY AgentAssumption DEF AgInit, RestTypes
  <2>3. queue = <<>> /\ overrun = FALSE /\ netlinks.known = FALSE
    BY DEF AgInit, NoLinkState
  <2>4. Len(queue) <= MaxQueue
    BY <2>3, AgentAssumption, EmptySeq
  <2>5. QueueTypes
    BY <2>3, <2>4, Zenon DEF QueueTypes
  <2> QED BY <2>1, <2>2, <2>5, FreshStart
<1>2. LifeInv /\ RestTypes /\ QueueTypes /\ LinkInv /\ LinkInv' /\ [AgNext]_agVars => (LifeInv /\ RestTypes /\ QueueTypes)'
  <2> SUFFICES ASSUME LifeInv, RestTypes, QueueTypes, LinkInv, LinkInv', [AgNext]_agVars
               PROVE  LifeInv' /\ RestTypes' /\ QueueTypes'
    OBVIOUS
  <2>1. refresh \in [Roles -> Scans]
    BY DEF LifeInv, LifeTypes
  <2>2. LifeInv'
    BY AgentLifeStep
  <2>3. RestTypes'
    BY <2>1, RestStep
  <2>4. QueueTypes'
    BY QueueStep
  <2> QED BY <2>2, <2>3, <2>4
<1>3. LifeInv /\ RestTypes /\ QueueTypes => LifeIsTrue
  <2> SUFFICES ASSUME LifeInv, RestTypes, QueueTypes PROVE LifeIsTrue
    OBVIOUS
  <2>1. \A r \in Roles : refresh[r].at \in {"idle", "publish", "track"} /\ refresh[r].found \subseteq Procs
    BY DEF LifeInv, LifeTypes, Scans
  <2>2. \A p \in DOMAIN tracked : tracked[p] \in 0..(StopAfter - 1)
    BY DEF LifeInv, LifeTypes
  <2>3. AgTypeOK
    BY <2>1, <2>2 DEF AgTypeOK, LifeInv, LifeTypes, RestTypes, QueueTypes
  <2>4. ToldOnce
    BY DEF ToldOnce, LifeInv, ToldInTurn
  <2> QED BY <2>3, <2>4 DEF LifeIsTrue, LifeInv
<1> QED BY <1>1, <1>2, <1>3, LinksInvariant, PTL DEF AgSpec

-----------------------------------------------------------------------------
(* Saving the baselines.                                                   *)

Writes(s) == saver[s].at = "write"

SaveTypes ==
  /\ dirty \in BOOLEAN /\ failed \in BOOLEAN /\ raced \in BOOLEAN /\ alive \in {"up", "stopping", "down"}
  /\ DOMAIN saver = Savers /\ \A s \in Savers : saver[s].at \in {"idle", "write"}

\* The final save is made by a process that stops, and a dead one saves nothing.
SaversLive ==
  /\ alive = "up" => ~Writes("exit")
  /\ alive = "down" => ~dirty /\ \A s \in Savers : ~Writes(s)
  /\ ~raced => ~Writes("ticker") \/ ~Writes("exit")

\* What is being written is what there is, as long as nothing has changed since.
WritesAll == ~dirty /\ ~raced => \A s \in Savers : Writes(s) => saver[s].data = vms

SaveInv == SaveTypes /\ SaversLive /\ WritesAll /\ CleanMeansSaved

\* A change that is marked leaves nothing to show before the next save.
LEMMA MarkedIsSafe ==
  ASSUME SaveInv, dirty' = TRUE, UNCHANGED <<onDisk, alive>>, alive # "down"
  PROVE  SaveInv'
  BY DEF SaveInv, SaveTypes, SaversLive, WritesAll, CleanMeansSaved, Writes, onDisk

\* Nothing of the store, the file or the savers changes.
LEMMA SameIsSafe ==
  ASSUME SaveInv, UNCHANGED <<stored, onDisk>>, alive' = alive \/ (alive = "up" /\ alive' = "stopping")
  PROVE  SaveInv'
  BY DEF SaveInv, SaveTypes, SaversLive, WritesAll, CleanMeansSaved, Writes, stored, onDisk

LEMMA SaveStep ==
  ASSUME SaveInv, [BaseNext]_baseVars
  PROVE  SaveInv'
<1> USE DEF Writes
<1>1. ASSUME NEW n \in Names, NEW i \in Items, Observe(n, i) PROVE SaveInv'
  BY <1>1, MarkedIsSafe DEF Observe
<1>2. ASSUME NEW n \in Names, ForgetBaseline(n) PROVE SaveInv'
  BY <1>2, MarkedIsSafe DEF ForgetBaseline
<1>3. CASE Prune
  <2>1. dirty' = TRUE
    BY <1>3, Zenon DEF Prune, PruneMarks, SaveInv, SaveTypes
  <2> QED BY <1>3, <2>1, MarkedIsSafe DEF Prune
<1>4. ASSUME NEW o \in OptionSets, NEW on \in BOOLEAN, ReloadBaselines(o, on) PROVE SaveInv'
  BY <1>4, SameIsSafe DEF ReloadBaselines
<1>5. CASE StopSaving \/ TimePasses \/ UNCHANGED baseVars
  BY <1>5, SameIsSafe DEF StopSaving, TimePasses, baseVars
<1>6. ASSUME NEW s \in Savers, Snapshot(s) PROVE SaveInv'
  <2>1. /\ saver' = [saver EXCEPT ![s] = [at |-> "write", data |-> vms]] /\ dirty' = FALSE /\ dirty
        /\ raced' = (raced \/ (s = "exit" /\ Writes("ticker"))) /\ UNCHANGED <<vms, file, failed, alive>>
        /\ alive = (IF s = "ticker" THEN "up" ELSE "stopping")
    BY <1>6 DEF Snapshot, MaySave
  <2>2. saver'[s] = [at |-> "write", data |-> vms] /\ (\A t \in Savers \ {s} : saver'[t] = saver[t]) /\ DOMAIN saver' = Savers
    BY <2>1 DEF SaveInv, SaveTypes
  <2>3. SaveTypes'
    <3>1. raced' \in BOOLEAN
      BY <2>1, Zenon DEF SaveInv, SaveTypes
    <3> QED BY <2>1, <2>2, <3>1 DEF SaveInv, SaveTypes
  <2>4. SaversLive'
    BY <2>1, <2>2 DEF SaveInv, SaversLive, Savers
  <2>5. WritesAll'
    <3> SUFFICES ASSUME ~raced', NEW t \in Savers, saver'[t].at = "write" PROVE saver'[t].data = vms
      BY <2>1 DEF WritesAll
    <3>1. t = s
      BY <2>1, <2>2 DEF SaveInv, SaversLive, Savers
    <3> QED BY <2>2, <3>1
  <2>6. CleanMeansSaved'
    BY <2>2 DEF CleanMeansSaved
  <2> QED BY <2>3, <2>4, <2>5, <2>6 DEF SaveInv
<1>7. ASSUME NEW s \in Savers, WriteBaselines(s) \/ WriteFails(s) PROVE SaveInv'
  <2>1. /\ alive # "down" /\ Writes(s) /\ saver' = [saver EXCEPT ![s] = Idle] /\ UNCHANGED <<vms, dirty, raced, alive>>
        /\ (file' = saver[s].data /\ failed' = FALSE) \/ failed' = TRUE
    BY <1>7 DEF WriteBaselines, WriteFails, stored
  <2>2. saver'[s].at = "idle" /\ (\A t \in Savers \ {s} : saver'[t] = saver[t]) /\ DOMAIN saver' = Savers
    BY <2>1 DEF SaveInv, SaveTypes, Idle
  <2>3. SaveTypes'
    BY <2>1, <2>2 DEF SaveInv, SaveTypes
  <2>4. SaversLive' /\ WritesAll'
    BY <2>1, <2>2 DEF SaveInv, SaversLive, WritesAll, Savers
  <2>5. CleanMeansSaved'
    BY <2>1, <2>2 DEF SaveInv, CleanMeansSaved, WritesAll
  <2> QED BY <2>3, <2>4, <2>5 DEF SaveInv
<1>8. CASE ExitClean \/ CrashBaselines
  <2>1. Gone
    BY <1>8 DEF ExitClean, CrashBaselines
  <2> QED BY <2>1 DEF Gone, Idle, Savers, SaveInv, SaveTypes, SaversLive, WritesAll, CleanMeansSaved
<1>9. CASE LoadBaselines
  BY <1>9 DEF LoadBaselines, SaveInv, SaveTypes, SaversLive, WritesAll, CleanMeansSaved, Savers
<1> QED BY <1>1, <1>2, <1>3, <1>4, <1>5, <1>6, <1>7, <1>8, <1>9 DEF BaseNext

\* When there is nothing to save and no save under way, the file is what was learned, for any number of VMs,
\* items, restarts and failed writes (baseline.go, Snapshot; persist/baselines.go).
THEOREM NothingUnsaved == BaseSpec => []CleanMeansSaved
<1>1. ASSUME BaseInit PROVE SaveInv
  <2>1. dirty = FALSE /\ failed = FALSE /\ raced = FALSE /\ alive = "up" /\ file = vms /\ saver = [s \in Savers |-> Idle]
    BY <1>1 DEF BaseInit
  <2>2. DOMAIN saver = Savers /\ \A s \in Savers : saver[s].at = "idle"
    BY <2>1 DEF Idle
  <2> QED BY <2>1, <2>2 DEF SaveInv, SaveTypes, SaversLive, WritesAll, CleanMeansSaved, Savers, Writes
<1>2. SaveInv /\ [BaseNext]_baseVars => SaveInv'
  BY SaveStep
<1>3. SaveInv => CleanMeansSaved
  BY DEF SaveInv
<1> QED BY <1>1, <1>2, <1>3, PTL DEF BaseSpec

-----------------------------------------------------------------------------
(* Baselines: shapes.                                                      *)

Seen == [Items -> Ticks \cup {Never}]
Alarms == SUBSET (Ticks \X Nat)

LEMMA BaseFields ==
  ASSUME NEW b \in Bases
  PROVE  /\ b.since \in Ticks /\ b.last \in Lasts /\ b.dayStart \in Ticks /\ b.alertsDay \in 0..LargestCap
         /\ b.first \in Ticks /\ b.sight \in Seen /\ b.raised \in Alarms /\ b.told \in BOOLEAN
  BY DEF Bases, Seen, Alarms

\* The times of sightings.
LEMMA LastFacts ==
  ASSUME NEW l \in Lasts
  PROVE  /\ DOMAIN l \subseteq Items /\ \A i \in DOMAIN l : l[i] \in Ticks
         /\ \A S : S \subseteq DOMAIN l => [i \in S |-> l[i]] \in Lasts
         /\ \A i \in Items, t \in Ticks : [x \in DOMAIN l \cup {i} |-> IF x = i THEN t ELSE l[x]] \in Lasts
<1>1. PICK seen \in SUBSET Items : l \in [seen -> Ticks]
  BY DEF Lasts
<1>2. DOMAIN l \subseteq Items /\ \A i \in DOMAIN l : l[i] \in Ticks
  BY <1>1
<1>3. ASSUME NEW S, S \subseteq DOMAIN l PROVE [i \in S |-> l[i]] \in Lasts
  <2>1. [i \in S |-> l[i]] \in [S -> Ticks] /\ S \in SUBSET Items
    BY <1>2, <1>3
  <2> QED BY <2>1 DEF Lasts
<1>4. ASSUME NEW i \in Items, NEW t \in Ticks PROVE [x \in DOMAIN l \cup {i} |-> IF x = i THEN t ELSE l[x]] \in Lasts
  <2> DEFINE S == DOMAIN l \cup {i}
  <2>1. [x \in S |-> IF x = i THEN t ELSE l[x]] \in [S -> Ticks] /\ S \in SUBSET Items
    BY <1>2, <1>4
  <2> HIDE DEF S
  <2>2. [x \in S |-> IF x = i THEN t ELSE l[x]] \in Lasts
    BY <2>1 DEF Lasts
  <2> QED BY <2>2 DEF S
<1> QED BY <1>2, <1>3, <1>4

LEMMA OptionFacts ==
  ASSUME opts \in OptionSets
  PROVE  /\ opts.learn \in Nat /\ opts.maxAge \in Nat /\ opts.maxAlerts \in Nat /\ opts.maxAlerts >= 1
         /\ opts.maxAlerts <= LargestCap /\ LargestCap \in Nat /\ Day \in Nat /\ Day >= 1 /\ MaxTime \in Nat
  BY BaselinesAssumption

-----------------------------------------------------------------------------
(* Baselines: what a base remembers is what happened.                      *)

\* The alerts of the base's day, and those of the day before that an alert of today may follow within 24 hours.
Today(b) == {r \in b.raised : r[1] >= b.dayStart}
DayBefore(b) == {r \in b.raised : r[1] < b.dayStart /\ b.dayStart - r[1] < Day}

\* A base at time t: learning has one beginning, an item seen is in the list with the time it was seen, no alert
\* is later than its day, and the day's count is at least the alerts of the day.
Counts(b, k) ==
  /\ IsFiniteSet(b.raised) /\ Cardinality(Today(b)) + k <= b.alertsDay /\ Cardinality(DayBefore(b)) <= LargestCap
Remembers(b) ==
  /\ b.first = b.since
  /\ \A i \in Items : b.sight[i] # Never => i \in DOMAIN b.last /\ b.last[i] = b.sight[i]
InTime(b, t) == b.dayStart <= t /\ \A r \in b.raised : r[1] <= t /\ r[1] - b.dayStart < Day
Honest(b, t) == Remembers(b) /\ InTime(b, t) /\ Counts(b, 0)

\* A day at its cap was said to be, unless a reload moved the cap.
CapTold(n, b, t, cap, mv) == t - b.dayStart < Day /\ b.alertsDay >= cap => b.told \/ n \in mv

Right(f, t, cap, mv) == Stores(f) /\ \A n \in DOMAIN f : Honest(f[n], t) /\ CapTold(n, f[n], t, cap, mv)

\* No copy of a base is of a later day than the base.
NotLater(f, g) == \A n \in DOMAIN f \cap DOMAIN g : f[n].dayStart <= g[n].dayStart

BaseInv ==
  /\ time \in Ticks /\ faults \in 0..MaxFaults /\ opts \in OptionSets /\ enabled \in BOOLEAN
  /\ alive \in {"up", "stopping", "down"} /\ dirty \in BOOLEAN /\ failed \in BOOLEAN /\ raced \in BOOLEAN
  /\ moved \subseteq Names
  /\ Right(vms, time, opts.maxAlerts, moved)
  /\ Right(file, time, opts.maxAlerts, moved) /\ NotLater(file, vms)
  /\ DOMAIN saver = Savers
  /\ \A s \in Savers : \/ saver[s] = Idle
                       \/ /\ saver[s].at = "write" /\ alive # "down"
                          /\ Right(saver[s].data, time, opts.maxAlerts, moved) /\ NotLater(saver[s].data, vms)

\* Time alone makes no base wrong.
LEMMA HonestLater ==
  ASSUME NEW f, NEW t \in Ticks, NEW u \in Ticks, t <= u, NEW cap \in Nat, NEW mv, Right(f, t, cap, mv)
  PROVE  Right(f, u, cap, mv)
<1> SUFFICES ASSUME NEW n \in DOMAIN f PROVE Honest(f[n], u) /\ CapTold(n, f[n], u, cap, mv)
  BY DEF Right
<1>1. f[n] \in Bases /\ Honest(f[n], t) /\ CapTold(n, f[n], t, cap, mv)
  BY DEF Right, Stores
<1>2. f[n].dayStart \in Int /\ f[n].raised \in Alarms /\ t \in Int /\ u \in Int /\ Day \in Nat
  BY <1>1, BaseFields, BaselinesAssumption DEF Ticks
<1>3. \A r \in f[n].raised : r[1] \in Int
  BY <1>2 DEF Alarms, Ticks
<1>4. InTime(f[n], u)
  BY <1>1, <1>2, <1>3 DEF Honest, InTime
<1>5. CapTold(n, f[n], u, cap, mv)
  BY <1>1, <1>2 DEF CapTold
<1> QED BY <1>1, <1>4, <1>5 DEF Honest

\* A base that is new.
LEMMA NewBaseFacts ==
  ASSUME time \in Ticks, opts \in OptionSets, NEW n, NEW mv
  PROVE  NewBase \in Bases /\ Honest(NewBase, time) /\ CapTold(n, NewBase, time, opts.maxAlerts, mv) /\ NewBase.dayStart = time
<1>1. [i \in {} |-> 0] \in Lasts /\ [i \in Items |-> Never] \in Seen /\ {} \in Alarms
  <2>1. [i \in {} |-> 0] \in [{} -> Ticks]
    OBVIOUS
  <2> QED BY <2>1 DEF Lasts, Seen, Alarms
<1>2. NewBase \in Bases
  BY <1>1, OptionFacts DEF NewBase, Bases, Seen, Alarms
<1>3. /\ NewBase.first = NewBase.since /\ NewBase.dayStart = time /\ NewBase.alertsDay = 0 /\ NewBase.raised = {}
      /\ NewBase.sight = [i \in Items |-> Never]
  BY DEF NewBase
<1>4. Today(NewBase) = {} /\ DayBefore(NewBase) = {}
  BY <1>3 DEF Today, DayBefore
<1> HIDE DEF NewBase
<1>5. Honest(NewBase, time)
  BY <1>3, <1>4, FS_EmptySet, OptionFacts DEF Honest, Remembers, InTime, Counts, Ticks
<1> QED BY <1>2, <1>3, <1>5, OptionFacts DEF CapTold

\* What an observation leaves in the base, whatever it was answered with.
LEMMA WitnessedFacts ==
  ASSUME time \in Ticks, opts \in OptionSets, NEW c \in Bases, NEW i \in Items, NEW l \in Lasts, NEW v,
         Remembers(c), InTime(c, time), time - c.dayStart < Day \/ v # "new",
         Counts(c, IF v = "new" THEN 1 ELSE 0),
         \A x \in DOMAIN l : IF x = i THEN l[x] = time ELSE x \in DOMAIN c.last /\ l[x] = c.last[x]
  PROVE  LET x == Witnessed(c, i, l, v)
         IN  x \in Bases /\ Honest(x, time) /\ x.dayStart = c.dayStart /\ x.alertsDay = c.alertsDay /\ x.told = c.told
<1> DEFINE recent == InDay(c.raised)
           s == [x \in Items |-> IF x \notin DOMAIN l THEN Never ELSE IF x = i THEN time ELSE c.sight[x]]
           r == IF v = "new" THEN recent \cup {<<time, Cardinality(recent) + 1>>} ELSE recent
           x == Witnessed(c, i, l, v)
<1>0. c.dayStart \in Ticks /\ c.sight \in Seen /\ c.raised \in Alarms /\ c.alertsDay \in 0..LargestCap
  BY BaseFields
<1>1. recent \subseteq c.raised /\ IsFiniteSet(recent) /\ Cardinality(recent) \in Nat
  BY FS_Subset, FS_CardinalityType DEF InDay, Counts
<1>2. s \in Seen
  BY <1>0 DEF Seen
<1>3. r \in Alarms /\ IsFiniteSet(r)
  <2>1. recent \in Alarms /\ recent \cup {<<time, Cardinality(recent) + 1>>} \in Alarms
    BY <1>0, <1>1 DEF Alarms
  <2>2. IsFiniteSet(recent \cup {<<time, Cardinality(recent) + 1>>})
    BY <1>1, FS_AddElement
  <2> HIDE DEF recent
  <2> QED BY <1>1, <2>1, <2>2
<1>4. x = [c EXCEPT !.last = l, !.sight = s, !.raised = r]
  BY DEF Witnessed, Seen
<1>5. \A y \in r : (y \in c.raised \/ (v = "new" /\ y = <<time, Cardinality(recent) + 1>>))
  BY <1>1
<1>6. \A y \in DOMAIN l \cap Items : s[y] = IF y = i THEN time ELSE c.sight[y]
  OBVIOUS
<1>7. \A y \in Items : y \notin DOMAIN l => s[y] = Never
  OBVIOUS
<1> HIDE DEF s, x
<1>8. /\ x \in Bases /\ x.last = l /\ x.sight = s /\ x.raised = r /\ x.since = c.since /\ x.first = c.first
      /\ x.dayStart = c.dayStart /\ x.alertsDay = c.alertsDay /\ x.told = c.told
  <2> HIDE DEF r
  <2> QED BY <1>2, <1>3, <1>4 DEF Bases, Seen, Alarms
<1>9. Remembers(x)
  BY <1>6, <1>7, <1>8 DEF Remembers
<1>10. InTime(x, time)
  <2>1. \A y \in r : y[1] <= time /\ y[1] - c.dayStart < Day
    BY <1>0, <1>5 DEF InTime, Ticks
  <2> QED BY <1>8, <2>1 DEF InTime
<1>11. Counts(x, 0)
  <2> DEFINE new == <<time, Cardinality(recent) + 1>>
  <2>1. DayBefore(x) \subseteq DayBefore(c)
    BY <1>0, <1>5, <1>8 DEF DayBefore, InTime, Ticks
  <2>2. Today(x) \subseteq IF v = "new" THEN Today(c) \cup {new} ELSE Today(c)
    BY <1>5, <1>8 DEF Today
  <2>3. IsFiniteSet(Today(c)) /\ IsFiniteSet(DayBefore(c)) /\ Cardinality(Today(c)) \in Nat /\ Cardinality(DayBefore(c)) \in Nat
    BY FS_Subset, FS_CardinalityType DEF Counts, Today, DayBefore
  <2>4. Cardinality(DayBefore(x)) \in Nat /\ Cardinality(DayBefore(x)) <= Cardinality(DayBefore(c))
    BY <2>1, <2>3, FS_Subset, FS_CardinalityType
  <2> HIDE DEF new
  <2>5. IsFiniteSet(Today(c) \cup {new}) /\ Cardinality(Today(c) \cup {new}) <= Cardinality(Today(c)) + 1
        /\ Cardinality(Today(c) \cup {new}) \in Nat
    <3>1. IsFiniteSet(Today(c) \cup {new}) /\ (Cardinality(Today(c) \cup {new}) = Cardinality(Today(c))
             \/ Cardinality(Today(c) \cup {new}) = Cardinality(Today(c)) + 1)
      BY <2>3, FS_AddElement
    <3> QED BY <2>3, <3>1
  <2>6. Cardinality(Today(x)) \in Nat /\ Cardinality(Today(x)) <= Cardinality(Today(c)) + (IF v = "new" THEN 1 ELSE 0)
    <3>1. CASE v = "new"
      BY <2>2, <2>3, <2>5, <3>1, FS_Subset, FS_CardinalityType
    <3>2. CASE v # "new"
      BY <2>2, <2>3, <3>2, FS_Subset, FS_CardinalityType
    <3> QED BY <3>1, <3>2
  <2>7. Cardinality(DayBefore(x)) <= LargestCap
    BY <2>3, <2>4, OptionFacts DEF Counts
  <2>8. Cardinality(Today(x)) + 0 <= x.alertsDay
    BY <1>0, <1>8, <2>3, <2>6 DEF Counts
  <2> QED BY <1>3, <1>8, <2>7, <2>8 DEF Counts
<1> QED BY <1>8, <1>9, <1>10, <1>11 DEF Honest, x

\* What counting makes of a base b of n: the base c, and a verdict v.
MovedOn(n, b, c) == IF c.dayStart # b.dayStart THEN moved \ {n} ELSE moved
CountedRight(n, b, c, v) ==
  /\ c \in Bases /\ v \in {"new", "capped"}
  /\ c.last = b.last /\ Remembers(c) /\ InTime(c, time)
  /\ v = "new" => time - c.dayStart < Day
  /\ Counts(c, IF v = "new" THEN 1 ELSE 0)
  /\ CapTold(n, c, time, opts.maxAlerts, MovedOn(n, b, c))
  /\ c.dayStart >= b.dayStart
  /\ c.dayStart # b.dayStart => time - b.dayStart >= Day
  /\ v = "capped" => b.told \/ n \in moved

\* The day's count and its cap.
LEMMA CountedFacts ==
  ASSUME time \in Ticks, opts \in OptionSets, NEW b \in Bases, NEW n, Honest(b, time),
         CapTold(n, b, time, opts.maxAlerts, moved)
  PROVE  CountedRight(n, b, Counted(b).base, Counted(b).verdict)
<1>0. /\ b.dayStart \in Ticks /\ b.raised \in Alarms /\ b.alertsDay \in 0..LargestCap /\ b.told \in BOOLEAN
      /\ \A r \in b.raised : r[1] \in Ticks
  BY BaseFields DEF Alarms
<1>1. /\ IsFiniteSet(b.raised) /\ IsFiniteSet(Today(b)) /\ Cardinality(Today(b)) \in Nat
      /\ Cardinality(Today(b)) <= b.alertsDay /\ Cardinality(DayBefore(b)) <= LargestCap
  <2>1. IsFiniteSet(b.raised) /\ Cardinality(Today(b)) + 0 <= b.alertsDay /\ Cardinality(DayBefore(b)) <= LargestCap
    BY DEF Honest, Counts
  <2>2. IsFiniteSet(Today(b)) /\ Cardinality(Today(b)) \in Nat
    BY <2>1, FS_Subset, FS_CardinalityType DEF Today
  <2> QED BY <1>0, <2>1, <2>2
\* A new day begins with this alert.
<1>2. CASE DayOver(b)
  <2> DEFINE d == [b EXCEPT !.dayStart = time, !.alertsDay = 0, !.told = FALSE]
             w == FALSE \/ AtCap(1)
             e == [d EXCEPT !.alertsDay = 1, !.told = w]
  <2>1. /\ d \in Bases /\ d.dayStart = time /\ d.alertsDay = 0 /\ d.told = FALSE /\ d.since = b.since /\ d.first = b.first
        /\ d.last = b.last /\ d.sight = b.sight /\ d.raised = b.raised
    <3> DEFINE no == FALSE
    <3>1. no \in BOOLEAN /\ d = [b EXCEPT !.dayStart = time, !.alertsDay = 0, !.told = no]
      BY Zenon
    <3>2. 0 \in 0..LargestCap
      BY OptionFacts
    <3> HIDE DEF no, d
    <3>3. /\ d \in Bases /\ d.dayStart = time /\ d.alertsDay = 0 /\ d.told = no /\ d.since = b.since /\ d.first = b.first
          /\ d.last = b.last /\ d.sight = b.sight /\ d.raised = b.raised
      BY <3>1, <3>2 DEF Bases, Seen, Alarms
    <3> QED BY <3>3, Zenon DEF no
  <2>2. time - b.dayStart >= Day
    BY <1>2 DEF DayOver
  <2>3. Counted(b) = [base |-> [d EXCEPT !.alertsDay = d.alertsDay + 1, !.told = d.told \/ AtCap(d.alertsDay + 1)], verdict |-> "new"]
    BY <1>2, <2>1, OptionFacts DEF Counted, UsedUp
  <2> HIDE DEF d
  <2>4. d.alertsDay + 1 = 1 /\ d.told = FALSE
    BY <2>1
  <2>5. /\ e \in Bases /\ e.dayStart = time /\ e.alertsDay = 1 /\ e.told = w /\ e.since = b.since /\ e.first = b.first
        /\ e.last = b.last /\ e.sight = b.sight /\ e.raised = b.raised
    <3>1. w \in BOOLEAN /\ 1 \in 0..LargestCap
      BY OptionFacts DEF AtCap
    <3> HIDE DEF w
    <3> QED BY <2>1, <3>1 DEF Bases, Seen, Alarms
  <2>6. w = (opts.maxAlerts = 1)
    BY OptionFacts DEF AtCap
  <2>7. Counted(b).base = e /\ Counted(b).verdict = "new"
    <3>1. Counted(b) = [base |-> [d EXCEPT !.alertsDay = 1, !.told = (FALSE \/ AtCap(1))], verdict |-> "new"]
      BY <2>3, <2>4, Zenon
    <3>2. Counted(b) = [base |-> e, verdict |-> "new"]
      BY <3>1, Zenon
    <3> HIDE DEF e
    <3> QED BY <3>2
  <2> HIDE DEF e, w
  <2>8. Remembers(e) /\ InTime(e, time)
    BY <1>0, <2>2, <2>5, OptionFacts DEF Honest, Remembers, InTime, Ticks
  <2>9. Counts(e, 1)
    <3>1. Today(e) = {}
      BY <1>0, <2>2, <2>5, OptionFacts DEF Today, Honest, InTime, Ticks
    <3>2. DayBefore(e) \subseteq Today(b)
      BY <1>0, <2>2, <2>5, OptionFacts DEF DayBefore, Today, Ticks
    <3>3. Cardinality(DayBefore(e)) \in Nat /\ Cardinality(DayBefore(e)) <= Cardinality(Today(b))
      BY <1>1, <3>2, FS_Subset, FS_CardinalityType
    <3>4. Cardinality(Today(e)) = 0
      BY <3>1, FS_EmptySet
    <3> QED BY <1>0, <1>1, <2>5, <3>3, <3>4, OptionFacts DEF Counts
  <2>10. CapTold(n, e, time, opts.maxAlerts, MovedOn(n, b, e))
    <3> SUFFICES ASSUME e.alertsDay >= opts.maxAlerts PROVE e.told
      BY Zenon DEF CapTold
    <3>1. opts.maxAlerts = 1
      BY <2>5, OptionFacts
    <3> QED BY <2>5, <2>6, <3>1, Zenon
  <2>11. time - e.dayStart < Day /\ e.dayStart >= b.dayStart
    BY <1>0, <2>5, OptionFacts DEF Honest, InTime, Ticks
  <2>12. CountedRight(n, b, e, "new")
    BY <2>2, <2>5, <2>8, <2>9, <2>10, <2>11 DEF CountedRight
  <2> QED BY <2>7, <2>12
\* The day is not over, and its alerts are used up.
<1>3. CASE ~DayOver(b) /\ UsedUp(b.alertsDay)
  <2>1. Counted(b).base = b /\ Counted(b).verdict = "capped"
    BY <1>3 DEF Counted
  <2>2. time - b.dayStart < Day /\ b.alertsDay >= opts.maxAlerts
    BY <1>0, <1>3, OptionFacts DEF DayOver, UsedUp, Ticks
  <2>3. b.told \/ n \in moved
    BY <2>2 DEF CapTold
  <2>4. CountedRight(n, b, b, "capped")
    BY <1>0, <2>3 DEF CountedRight, Honest, MovedOn, Ticks
  <2> QED BY <2>1, <2>4
\* One more of this day.
<1>4. CASE ~DayOver(b) /\ ~UsedUp(b.alertsDay)
  <2> DEFINE k == b.alertsDay + 1
             w == b.told \/ AtCap(k)
             e == [b EXCEPT !.alertsDay = k, !.told = w]
  <2>1. Counted(b) = [base |-> e, verdict |-> "new"]
    BY <1>4 DEF Counted
  <2>2. k \in 0..LargestCap /\ k <= opts.maxAlerts /\ w \in BOOLEAN /\ k \in Nat
    BY <1>0, <1>4, OptionFacts DEF UsedUp, AtCap
  <2>3. k >= opts.maxAlerts => w
    BY <2>2, OptionFacts DEF AtCap
  <2>4. time - b.dayStart < Day
    BY <1>0, <1>4, OptionFacts DEF DayOver, Ticks
  <2>5. k = b.alertsDay + 1
    OBVIOUS
  <2> HIDE DEF k, w
  <2>6. /\ e \in Bases /\ e.dayStart = b.dayStart /\ e.alertsDay = k /\ e.told = w /\ e.since = b.since /\ e.first = b.first
        /\ e.last = b.last /\ e.sight = b.sight /\ e.raised = b.raised
    BY <2>2 DEF Bases, Seen, Alarms
  <2> HIDE DEF e
  <2>7. Today(e) = Today(b) /\ DayBefore(e) = DayBefore(b)
    BY <2>6 DEF Today, DayBefore
  <2>8. Counts(e, 1)
    BY <1>0, <1>1, <2>2, <2>5, <2>6, <2>7 DEF Counts
  <2>9. Remembers(e) /\ InTime(e, time)
    BY <2>6 DEF Honest, Remembers, InTime
  <2>10. CapTold(n, e, time, opts.maxAlerts, MovedOn(n, b, e))
    BY <2>3, <2>6 DEF CapTold
  <2>11. CountedRight(n, b, e, "new")
    BY <1>0, <2>4, <2>6, <2>8, <2>9, <2>10 DEF CountedRight, Ticks
  <2> QED BY <2>1, <2>11
<1> QED BY <1>2, <1>3, <1>4

\* The base an observation begins with.
LEMMA BaseOfFacts ==
  ASSUME BaseInv, NEW n \in Names
  PROVE  /\ BaseOf(n) \in Bases /\ Honest(BaseOf(n), time) /\ CapTold(n, BaseOf(n), time, opts.maxAlerts, moved)
         /\ n \in DOMAIN vms => BaseOf(n) = vms[n]
         /\ n \notin DOMAIN vms => BaseOf(n).dayStart = time
<1>1. CASE n \in DOMAIN vms
  BY <1>1 DEF BaseOf, BaseInv, Right, Stores
<1>2. CASE n \notin DOMAIN vms
  <2>1. BaseOf(n) = NewBase
    BY <1>2 DEF BaseOf
  <2> QED BY <1>2, <2>1, NewBaseFacts DEF BaseInv
<1> QED BY <1>1, <1>2

\* An item that was just seen, and what trimming drops.
LEMMA TrimFacts ==
  ASSUME NEW l \in Lasts, NEW k
  PROVE  Trim(l, k) \in Lasts /\ DOMAIN Trim(l, k) \subseteq DOMAIN l /\ \A x \in DOMAIN Trim(l, k) : Trim(l, k)[x] = l[x]
<1> DEFINE stay == {x \in DOMAIN l : KindOf[x] = k => Cardinality(Newer(l, x)) < opts.maxItems}
<1>1. Trim(l, k) = [x \in stay |-> l[x]] /\ stay \subseteq DOMAIN l
  BY DEF Trim
<1> HIDE DEF stay
<1>2. [x \in stay |-> l[x]] \in Lasts
  BY <1>1, LastFacts
<1> QED BY <1>1, <1>2

\* What Observe makes of item i of n, whose base was b.
ObservedRight(n, i, b, o) ==
  /\ o.base \in Bases /\ o.last \in Lasts
  /\ Remembers(o.base) /\ InTime(o.base, time)
  /\ o.verdict = "new" => time - o.base.dayStart < Day /\ ~Known(b, i)
  /\ o.verdict = "learning" => Learning(b)
  /\ o.verdict = "capped" => b.told \/ n \in moved
  /\ Counts(o.base, IF o.verdict = "new" THEN 1 ELSE 0)
  /\ \A x \in DOMAIN o.last : IF x = i THEN o.last[x] = time ELSE x \in DOMAIN o.base.last /\ o.last[x] = o.base.last[x]
  /\ CapTold(n, o.base, time, opts.maxAlerts, MovedOn(n, b, o.base))
  /\ o.base.dayStart >= b.dayStart
  /\ o.base.dayStart # b.dayStart => time - b.dayStart >= Day

LEMMA OutcomeFacts ==
  ASSUME BaseInv, NEW n \in Names, NEW i \in Items
  PROVE  ObservedRight(n, i, BaseOf(n), Outcome(n, i))
<1> DEFINE b == BaseOf(n)
           l == [x \in DOMAIN b.last \cup {i} |-> IF x = i THEN time ELSE b.last[x]]
           o == Outcome(n, i)
           t == Trim(l, KindOf[i])
<1>1. b \in Bases /\ Honest(b, time) /\ CapTold(n, b, time, opts.maxAlerts, moved)
  BY BaseOfFacts
<1>2. time \in Ticks /\ opts \in OptionSets
  BY DEF BaseInv
<1>3. b.last \in Lasts /\ b.dayStart \in Ticks
  BY <1>1, BaseFields
<1>4. l \in Lasts
  BY <1>2, <1>3, LastFacts
<1>5. DOMAIN l = DOMAIN b.last \cup {i} /\ \A x \in DOMAIN l : IF x = i THEN l[x] = time ELSE x \in DOMAIN b.last /\ l[x] = b.last[x]
  OBVIOUS
<1>6. /\ Known(b, i) => o = [base |-> b, verdict |-> "known", last |-> l]
      /\ ~Known(b, i) /\ Learning(b) => o = [base |-> b, verdict |-> "learning", last |-> t]
      /\ ~Known(b, i) /\ ~Learning(b) => o = [base |-> Counted(b).base, verdict |-> Counted(b).verdict, last |-> t]
  BY Zenon DEF Outcome
<1> SUFFICES ObservedRight(n, i, b, o)
  OBVIOUS
<1> HIDE DEF b, l, o
<1>7. t \in Lasts /\ \A x \in DOMAIN t : IF x = i THEN t[x] = time ELSE x \in DOMAIN b.last /\ t[x] = b.last[x]
  BY <1>4, <1>5, TrimFacts
<1> HIDE DEF t
<1>8. MovedOn(n, b, b) = moved /\ b.dayStart >= b.dayStart
  BY <1>3 DEF MovedOn, Ticks
<1>9. CASE Known(b, i)
  <2>1. o.base = b /\ o.verdict = "known" /\ o.last = l
    BY <1>6, <1>9
  <2>2. o.verdict # "new" /\ o.verdict # "learning" /\ o.verdict # "capped"
    BY <2>1
  <2>3. Counts(o.base, IF o.verdict = "new" THEN 1 ELSE 0) /\ Remembers(o.base) /\ InTime(o.base, time)
    BY <1>1, <2>1, <2>2 DEF Honest
  <2>4. CapTold(n, o.base, time, opts.maxAlerts, MovedOn(n, b, o.base)) /\ o.base.dayStart >= b.dayStart
        /\ o.base.dayStart = b.dayStart
    BY <1>1, <1>8, <2>1
  <2>5. \A x \in DOMAIN o.last : IF x = i THEN o.last[x] = time ELSE x \in DOMAIN o.base.last /\ o.last[x] = o.base.last[x]
    BY <1>5, <2>1
  <2>6. o.base \in Bases /\ o.last \in Lasts
    BY <1>1, <1>4, <2>1
  <2> QED BY <2>2, <2>3, <2>4, <2>5, <2>6, Zenon DEF ObservedRight
<1>10. CASE ~Known(b, i) /\ Learning(b)
  <2>1. o.base = b /\ o.verdict = "learning" /\ o.last = t
    BY <1>6, <1>10
  <2>2. o.verdict # "new" /\ o.verdict # "capped"
    BY <2>1
  <2>3. Counts(o.base, IF o.verdict = "new" THEN 1 ELSE 0) /\ Remembers(o.base) /\ InTime(o.base, time)
    BY <1>1, <2>1, <2>2 DEF Honest
  <2>4. CapTold(n, o.base, time, opts.maxAlerts, MovedOn(n, b, o.base)) /\ o.base.dayStart >= b.dayStart
        /\ o.base.dayStart = b.dayStart
    BY <1>1, <1>8, <2>1
  <2>5. \A x \in DOMAIN o.last : IF x = i THEN o.last[x] = time ELSE x \in DOMAIN o.base.last /\ o.last[x] = o.base.last[x]
    BY <1>7, <2>1
  <2>6. o.base \in Bases /\ o.last \in Lasts
    BY <1>1, <1>7, <2>1
  <2> QED BY <1>10, <2>2, <2>3, <2>4, <2>5, <2>6, Zenon DEF ObservedRight
<1>11. CASE ~Known(b, i) /\ ~Learning(b)
  <2>1. CountedRight(n, b, Counted(b).base, Counted(b).verdict)
    BY <1>1, <1>2, CountedFacts
  <2>2. o.base = Counted(b).base /\ o.verdict = Counted(b).verdict /\ o.last = t
    BY <1>6, <1>11
  <2>3. CountedRight(n, b, o.base, o.verdict)
    BY <2>1, <2>2
  <2>4. o.verdict # "learning" /\ o.base.last = b.last
    BY <2>3 DEF CountedRight
  <2>5. \A x \in DOMAIN o.last : IF x = i THEN o.last[x] = time ELSE x \in DOMAIN o.base.last /\ o.last[x] = o.base.last[x]
    BY <1>7, <2>2, <2>4
  <2>6. o.last \in Lasts
    BY <1>7, <2>2
  <2> QED BY <1>11, <2>3, <2>4, <2>5, <2>6, Zenon DEF ObservedRight, CountedRight
<1> QED BY <1>9, <1>10, <1>11

\* The base that an observation leaves.
LEMMA ObservedBase ==
  ASSUME BaseInv, NEW n \in Names, NEW i \in Items
  PROVE  LET o == Outcome(n, i)
             x == Witnessed(o.base, i, o.last, o.verdict)
         IN  /\ x \in Bases /\ Honest(x, time) /\ CapTold(n, x, time, opts.maxAlerts, MovedOn(n, BaseOf(n), o.base))
             /\ x.dayStart = o.base.dayStart
<1> DEFINE o == Outcome(n, i)
           c == o.base
           v == o.verdict
           l == o.last
           x == Witnessed(c, i, l, v)
<1>1. ObservedRight(n, i, BaseOf(n), o)
  BY OutcomeFacts
<1>2. time \in Ticks /\ opts \in OptionSets
  BY DEF BaseInv
<1> HIDE DEF o
<1>3. c \in Bases /\ l \in Lasts /\ Remembers(c) /\ InTime(c, time) /\ (v = "new" => time - c.dayStart < Day)
  BY <1>1 DEF ObservedRight
<1>4. /\ Counts(c, IF v = "new" THEN 1 ELSE 0)
      /\ \A y \in DOMAIN l : IF y = i THEN l[y] = time ELSE y \in DOMAIN c.last /\ l[y] = c.last[y]
  BY <1>1 DEF ObservedRight
<1>5. CapTold(n, c, time, opts.maxAlerts, MovedOn(n, BaseOf(n), c))
  BY <1>1 DEF ObservedRight
<1> HIDE DEF c, v, l
<1>6. x \in Bases /\ Honest(x, time) /\ x.dayStart = c.dayStart /\ x.alertsDay = c.alertsDay /\ x.told = c.told
  BY <1>2, <1>3, <1>4, WitnessedFacts
<1> HIDE DEF x
<1>7. CapTold(n, x, time, opts.maxAlerts, MovedOn(n, BaseOf(n), c))
  BY <1>5, <1>6 DEF CapTold
<1> QED BY <1>6, <1>7 DEF x, c, v, l, o

-----------------------------------------------------------------------------
(* Baselines: the steps.                                                   *)

\* A copy of the store, in the file or on its way there, stays right when n is observed: its day of n is over
\* whenever the store's is.
LEMMA ObserveCopy ==
  ASSUME BaseInv, NEW n \in Names, NEW i \in Items, Observe(n, i),
         NEW f, Right(f, time, opts.maxAlerts, moved), NotLater(f, vms)
  PROVE  Right(f, time, opts.maxAlerts, moved') /\ NotLater(f, vms')
<1> DEFINE o == Outcome(n, i)
           b == BaseOf(n)
           x == Witnessed(o.base, i, o.last, o.verdict)
<1>1. vms' = Put(n, x) /\ moved' = MovedOn(n, b, o.base)
  BY DEF Observe, MovedOn
<1>2. x \in Bases /\ x.dayStart = o.base.dayStart
  BY ObservedBase
<1>3. /\ o.base.dayStart >= b.dayStart /\ (o.base.dayStart # b.dayStart => time - b.dayStart >= Day)
      /\ o.base \in Bases
  BY OutcomeFacts DEF ObservedRight
<1>4. b \in Bases /\ (n \in DOMAIN vms => b = vms[n]) /\ (n \notin DOMAIN vms => b.dayStart = time)
  BY BaseOfFacts
<1>5. time \in Ticks /\ opts \in OptionSets
  BY DEF BaseInv
<1> HIDE DEF o, b, x
<1>6. \A m \in DOMAIN f : f[m] \in Bases /\ f[m].dayStart \in Int /\ f[m].dayStart <= time
  BY BaseFields DEF Right, Stores, Honest, InTime, Ticks
<1>7. b.dayStart \in Int /\ o.base.dayStart \in Int /\ x.dayStart \in Int /\ time \in Int /\ Day \in Nat /\ Day >= 1
  BY <1>2, <1>3, <1>4, <1>5, BaseFields, OptionFacts DEF Ticks
<1>8. n \in DOMAIN f => f[n].dayStart <= b.dayStart
  BY <1>4, <1>6 DEF NotLater
<1>9. ASSUME NEW m \in DOMAIN f PROVE CapTold(m, f[m], time, opts.maxAlerts, moved')
  <2>1. CapTold(m, f[m], time, opts.maxAlerts, moved)
    BY <1>9 DEF Right
  <2>2. CASE m # n \/ moved' = moved
    <3>1. m \in moved => m \in moved'
      BY <1>1, <2>2 DEF MovedOn
    <3> QED BY <2>1, <3>1, Zenon DEF CapTold
  <2>3. CASE m = n /\ moved' # moved
    <3>1. time - b.dayStart >= Day
      BY <1>1, <1>3, <2>3 DEF MovedOn
    <3>2. ~(time - f[m].dayStart < Day)
      BY <1>6, <1>7, <1>8, <2>3, <3>1
    <3> QED BY <3>2, Zenon DEF CapTold
  <2> QED BY <2>2, <2>3
<1>10. ASSUME NEW m \in DOMAIN f \cap DOMAIN vms' PROVE f[m].dayStart <= vms'[m].dayStart
  <2>1. CASE m = n
    <3>1. vms'[m] = x
      BY <1>1, <2>1, <1>10 DEF Put
    <3> QED BY <1>2, <1>3, <1>6, <1>7, <1>8, <1>10, <2>1, <3>1
  <2>2. CASE m # n
    <3>1. vms'[m] = vms[m] /\ m \in DOMAIN vms
      BY <1>1, <2>2, <1>10 DEF Put
    <3> QED BY <1>10, <3>1 DEF NotLater
  <2> QED BY <2>1, <2>2
<1> QED BY <1>9, <1>10 DEF Right, NotLater

LEMMA ObserveStep ==
  ASSUME BaseInv, NEW n \in Names, NEW i \in Items, Observe(n, i)
  PROVE  BaseInv'
<1> DEFINE o == Outcome(n, i)
           x == Witnessed(o.base, i, o.last, o.verdict)
<1>1. /\ vms' = Put(n, x) /\ moved' = MovedOn(n, BaseOf(n), o.base) /\ dirty' = TRUE
      /\ UNCHANGED <<time, faults, opts, enabled, file, saver, failed, raced, alive>>
  BY DEF Observe, MovedOn, onDisk
<1>2. x \in Bases /\ Honest(x, time) /\ CapTold(n, x, time, opts.maxAlerts, MovedOn(n, BaseOf(n), o.base))
  BY ObservedBase
<1> HIDE DEF o, x
<1>3. Right(vms', time, opts.maxAlerts, moved')
  <2>1. Right(vms, time, opts.maxAlerts, moved')
    <3>1. Right(vms, time, opts.maxAlerts, moved)
      BY DEF BaseInv
    <3>2. \A m \in DOMAIN vms : vms[m].dayStart \in Int
      BY <3>1, BaseFields DEF Right, Stores, Ticks
    <3>3. NotLater(vms, vms)
      BY <3>2 DEF NotLater
    <3> QED BY <3>1, <3>3, ObserveCopy
  <2>2. DOMAIN vms' = DOMAIN vms \cup {n} /\ \A m \in DOMAIN vms' : vms'[m] = IF m = n THEN x ELSE vms[m]
    BY <1>1 DEF Put
  <2>3. ASSUME NEW m \in DOMAIN vms' PROVE vms'[m] \in Bases /\ Honest(vms'[m], time) /\ CapTold(m, vms'[m], time, opts.maxAlerts, moved')
    <3>1. CASE m = n
      BY <1>1, <1>2, <2>2, <3>1
    <3>2. CASE m # n
      BY <2>1, <2>2, <2>3, <3>2 DEF Right, Stores
    <3> QED BY <3>1, <3>2
  <2>4. DOMAIN vms' \subseteq Names
    BY <2>1, <2>2 DEF Right, Stores
  <2> QED BY <2>3, <2>4 DEF Right, Stores
<1>4. Right(file, time, opts.maxAlerts, moved') /\ NotLater(file, vms')
  BY ObserveCopy DEF BaseInv
<1>5. ASSUME NEW s \in Savers
      PROVE  saver[s] = Idle \/ (saver[s].at = "write" /\ alive # "down"
               /\ Right(saver[s].data, time, opts.maxAlerts, moved') /\ NotLater(saver[s].data, vms'))
  BY ObserveCopy, <1>5 DEF BaseInv
<1>6. moved' \subseteq Names
  BY <1>1 DEF BaseInv, MovedOn
<1> QED BY <1>1, <1>3, <1>4, <1>5, <1>6 DEF BaseInv

\* Pruning drops what is too old, and says so.
LEMMA PrunedFacts ==
  ASSUME time \in Ticks, NEW b \in Bases, Honest(b, time)
  PROVE  LET p == Pruned(b)
         IN  p \in Bases /\ Honest(p, time) /\ p.dayStart = b.dayStart /\ p.alertsDay = b.alertsDay /\ p.told = b.told
<1> DEFINE l == [i \in DOMAIN b.last \ Stale(b) |-> b.last[i]]
           s == [i \in Items |-> IF i \in Stale(b) THEN Never ELSE b.sight[i]]
           p == Pruned(b)
<1>1. b.last \in Lasts /\ b.sight \in Seen
  BY BaseFields
<1>2. l \in Lasts /\ s \in Seen
  BY <1>1, LastFacts DEF Seen
<1>3. p = [b EXCEPT !.last = l, !.sight = s]
  BY DEF Pruned, Seen
<1>4. \A i \in Items : /\ s[i] # Never => i \notin Stale(b) /\ s[i] = b.sight[i]
                       /\ i \in DOMAIN b.last /\ i \notin Stale(b) => i \in DOMAIN l /\ l[i] = b.last[i]
  OBVIOUS
<1> HIDE DEF l, s, p
<1>5. /\ p \in Bases /\ p.last = l /\ p.sight = s /\ p.raised = b.raised /\ p.since = b.since /\ p.first = b.first
      /\ p.dayStart = b.dayStart /\ p.alertsDay = b.alertsDay /\ p.told = b.told
  BY <1>2, <1>3 DEF Bases, Seen
<1>6. Remembers(p)
  BY <1>4, <1>5 DEF Honest, Remembers
<1>7. Today(p) = Today(b) /\ DayBefore(p) = DayBefore(b)
  BY <1>5 DEF Today, DayBefore
<1>8. InTime(p, time) /\ Counts(p, 0)
  BY <1>5, <1>7 DEF Honest, InTime, Counts
<1> QED BY <1>5, <1>6, <1>8 DEF Honest, p

\* The control variables, and the copies of the store.
LEMMA BaseInvParts ==
  ASSUME BaseInv
  PROVE  /\ time \in Ticks /\ opts \in OptionSets /\ opts.maxAlerts \in Nat
         /\ Right(vms, time, opts.maxAlerts, moved) /\ Right(file, time, opts.maxAlerts, moved)
         /\ NotLater(vms, vms)
         /\ Right(NoBases, time, opts.maxAlerts, moved)
<1>1. time \in Ticks /\ opts \in OptionSets /\ Right(vms, time, opts.maxAlerts, moved) /\ Right(file, time, opts.maxAlerts, moved)
  BY DEF BaseInv
<1>2. \A m \in DOMAIN vms : vms[m].dayStart \in Int
  BY <1>1, BaseFields DEF Right, Stores, Ticks
<1>3. NotLater(vms, vms)
  BY <1>2 DEF NotLater
<1>4. DOMAIN NoBases = {}
  BY DEF NoBases
<1>5. Right(NoBases, time, opts.maxAlerts, moved)
  BY <1>4 DEF Right, Stores
<1> QED BY <1>1, <1>3, <1>5, OptionFacts

LEMMA PruneStep ==
  ASSUME BaseInv, Prune
  PROVE  BaseInv'
<1>1. /\ vms' = [n \in DOMAIN vms |-> Pruned(vms[n])] /\ dirty' \in BOOLEAN
      /\ UNCHANGED <<time, faults, opts, enabled, file, saver, failed, raced, alive, moved>>
  BY DEF Prune, PruneMarks, onDisk, BaseInv
<1>2. ASSUME NEW m \in DOMAIN vms
      PROVE  /\ vms'[m] \in Bases /\ Honest(vms'[m], time) /\ CapTold(m, vms'[m], time, opts.maxAlerts, moved)
             /\ vms'[m].dayStart = vms[m].dayStart
  <2> DEFINE p == Pruned(vms[m])
  <2>1. vms[m] \in Bases /\ Honest(vms[m], time) /\ CapTold(m, vms[m], time, opts.maxAlerts, moved)
    BY <1>2 DEF BaseInv, Right, Stores
  <2>2. p \in Bases /\ Honest(p, time) /\ p.dayStart = vms[m].dayStart /\ p.alertsDay = vms[m].alertsDay /\ p.told = vms[m].told
    BY <2>1, PrunedFacts DEF BaseInv
  <2>3. vms'[m] = p
    BY <1>1, <1>2
  <2> HIDE DEF p
  <2> QED BY <2>1, <2>2, <2>3 DEF CapTold
<1>3. DOMAIN vms' = DOMAIN vms
  BY <1>1
<1>4. Right(vms', time, opts.maxAlerts, moved)
  BY <1>2, <1>3 DEF BaseInv, Right, Stores
<1>5. \A f : NotLater(f, vms) => NotLater(f, vms')
  BY <1>2, <1>3 DEF NotLater
<1> QED BY <1>1, <1>4, <1>5 DEF BaseInv

\* A reload that changes the cap leaves no VM of which a day at the new cap must have been said.
LEMMA ReloadStep ==
  ASSUME BaseInv, NEW o \in OptionSets, NEW on \in BOOLEAN, ReloadBaselines(o, on)
  PROVE  BaseInv'
<1>1. /\ UNCHANGED <<time, vms, dirty, file, saver, failed, raced, alive>> /\ faults' \in 0..MaxFaults
      /\ enabled' \in BOOLEAN /\ opts' \in OptionSets /\ moved' \subseteq Names
      /\ moved' = Names \/ (moved' = moved /\ opts'.maxAlerts = opts.maxAlerts)
  <2>1. faults' \in 0..MaxFaults /\ UNCHANGED <<time, vms, dirty, file, saver, failed, raced, alive>>
    BY BaselinesAssumption DEF ReloadBaselines, Fault, BaseInv, stored, onDisk
  <2>2. enabled' \in BOOLEAN /\ opts' \in OptionSets /\ moved' \subseteq Names
    BY DEF ReloadBaselines, BaseInv
  <2>3. moved' = Names \/ (moved' = moved /\ opts'.maxAlerts = opts.maxAlerts)
    BY DEF ReloadBaselines
  <2> QED BY <2>1, <2>2, <2>3
<1>2. ASSUME NEW f, Right(f, time, opts.maxAlerts, moved) PROVE Right(f, time, opts'.maxAlerts, moved')
  <2>1. CASE moved' = Names
    BY <1>2, <2>1, Zenon DEF Right, CapTold, Stores
  <2>2. CASE moved' = moved /\ opts'.maxAlerts = opts.maxAlerts
    BY <1>2, <2>2
  <2> QED BY <1>1, <2>1, <2>2
<1> QED BY <1>1, <1>2 DEF BaseInv

LEMMA ForgetStep ==
  ASSUME BaseInv, NEW n \in Names, ForgetBaseline(n)
  PROVE  BaseInv'
<1>1. /\ vms' = [m \in DOMAIN vms \ {n} |-> vms[m]] /\ dirty' = TRUE /\ faults' \in 0..MaxFaults
      /\ UNCHANGED <<time, opts, enabled, file, saver, failed, raced, alive, moved>>
  BY BaselinesAssumption DEF ForgetBaseline, Fault, BaseInv, onDisk
<1>2. DOMAIN vms' \subseteq DOMAIN vms /\ \A m \in DOMAIN vms' : vms'[m] = vms[m]
  BY <1>1
<1>3. Right(vms', time, opts.maxAlerts, moved)
  BY <1>2 DEF BaseInv, Right, Stores
<1>4. \A f : NotLater(f, vms) => NotLater(f, vms')
  BY <1>2 DEF NotLater
<1> QED BY <1>1, <1>3, <1>4 DEF BaseInv

LEMMA SaverStep ==
  ASSUME BaseInv, NEW s \in Savers, Snapshot(s) \/ WriteBaselines(s) \/ WriteFails(s)
  PROVE  BaseInv'
<1>0. DOMAIN saver = Savers
  BY DEF BaseInv
<1>1. CASE Snapshot(s)
  <2>1. /\ saver' = [saver EXCEPT ![s] = [at |-> "write", data |-> vms]] /\ dirty' = FALSE /\ raced' \in BOOLEAN
        /\ UNCHANGED <<time, faults, opts, enabled, vms, file, failed, alive, moved>> /\ alive # "down"
    BY <1>1 DEF Snapshot, MaySave
  <2>2. DOMAIN saver' = Savers /\ saver'[s].at = "write" /\ saver'[s].data = vms /\ \A q \in Savers : q # s => saver'[q] = saver[q]
    BY <1>0, <2>1
  <2>3. ASSUME NEW q \in Savers
        PROVE  saver'[q] = Idle \/ (saver'[q].at = "write" /\ alive # "down"
                 /\ Right(saver'[q].data, time, opts.maxAlerts, moved) /\ NotLater(saver'[q].data, vms))
    BY <2>1, <2>2, <2>3, BaseInvParts DEF BaseInv
  <2> QED BY <2>1, <2>2, <2>3 DEF BaseInv
<1>2. CASE WriteBaselines(s)
  <2>1. /\ saver' = [saver EXCEPT ![s] = Idle] /\ file' = saver[s].data /\ failed' = FALSE /\ saver[s].at = "write"
        /\ UNCHANGED <<time, faults, opts, enabled, vms, dirty, raced, alive, moved>>
    BY <1>2 DEF WriteBaselines, stored
  <2>2. DOMAIN saver' = Savers /\ saver'[s] = Idle /\ \A q \in Savers : q # s => saver'[q] = saver[q]
    BY <1>0, <2>1
  <2>3. Right(file', time, opts.maxAlerts, moved) /\ NotLater(file', vms)
    BY <2>1 DEF BaseInv, Idle
  <2> QED BY <2>1, <2>2, <2>3 DEF BaseInv
<1>3. CASE WriteFails(s)
  <2>1. /\ saver' = [saver EXCEPT ![s] = Idle] /\ failed' = TRUE /\ faults' \in 0..MaxFaults
        /\ UNCHANGED <<time, opts, enabled, vms, dirty, file, raced, alive, moved>>
    BY <1>3, BaselinesAssumption DEF WriteFails, stored, Fault, BaseInv
  <2>2. DOMAIN saver' = Savers /\ saver'[s] = Idle /\ \A q \in Savers : q # s => saver'[q] = saver[q]
    BY <1>0, <2>1
  <2> QED BY <2>1, <2>2 DEF BaseInv
<1> QED BY <1>1, <1>2, <1>3

LEMMA LifeStep ==
  ASSUME BaseInv, StopSaving \/ ExitClean \/ CrashBaselines \/ LoadBaselines \/ TimePasses
  PROVE  BaseInv'
<1>1. CASE StopSaving
  <2>1. /\ alive' = "stopping" /\ faults' \in 0..MaxFaults
        /\ UNCHANGED <<time, opts, enabled, vms, dirty, file, saver, failed, raced, moved>>
    BY <1>1, BaselinesAssumption DEF StopSaving, Fault, stored, onDisk, BaseInv
  <2> QED BY <2>1 DEF BaseInv
<1>2. CASE ExitClean \/ CrashBaselines
  <2>1. /\ alive' = "down" /\ vms' = NoBases /\ dirty' = FALSE /\ saver' = [s \in Savers |-> Idle] /\ faults' \in 0..MaxFaults
        /\ UNCHANGED <<time, opts, enabled, file, failed, raced, moved>>
    BY <1>2, BaselinesAssumption DEF ExitClean, CrashBaselines, Gone, Fault, BaseInv
  <2>2. DOMAIN saver' = Savers /\ \A s \in Savers : saver'[s] = Idle
    BY <2>1
  <2>3. NotLater(file, NoBases)
    BY DEF NotLater, NoBases
  <2> QED BY <2>1, <2>2, <2>3, BaseInvParts DEF BaseInv
<1>3. CASE LoadBaselines
  <2>1. /\ alive = "down" /\ alive' = "up" /\ vms' = file /\ failed' = FALSE /\ raced' = FALSE
        /\ UNCHANGED <<time, faults, opts, enabled, dirty, file, saver, moved>>
    BY <1>3 DEF LoadBaselines
  <2>2. \A s \in Savers : saver[s] = Idle
    BY <2>1 DEF BaseInv
  <2>3. NotLater(file, file)
    <3>1. \A m \in DOMAIN file : file[m].dayStart \in Int
      BY BaseInvParts, BaseFields DEF Right, Stores, Ticks
    <3> QED BY <3>1 DEF NotLater
  <2> QED BY <2>1, <2>2, <2>3 DEF BaseInv
<1>4. CASE TimePasses
  <2>1. /\ time' \in Ticks /\ time <= time'
        /\ UNCHANGED <<faults, opts, enabled, vms, dirty, file, saver, failed, raced, alive, moved>>
    BY <1>4, BaselinesAssumption DEF TimePasses, stored, onDisk, BaseInv, Ticks
  <2>2. ASSUME NEW f, Right(f, time, opts.maxAlerts, moved) PROVE Right(f, time', opts.maxAlerts, moved)
    BY <2>1, <2>2, BaseInvParts, HonestLater
  <2> QED BY <2>1, <2>2 DEF BaseInv
<1> QED BY <1>1, <1>2, <1>3, <1>4

LEMMA BaseStep == BaseInv /\ [BaseNext]_baseVars => BaseInv'
<1> SUFFICES ASSUME BaseInv, [BaseNext]_baseVars PROVE BaseInv'
  OBVIOUS
<1>1. ASSUME NEW n \in Names, NEW i \in Items, Observe(n, i) PROVE BaseInv'
  BY <1>1, ObserveStep
<1>2. ASSUME NEW o \in OptionSets, NEW on \in BOOLEAN, ReloadBaselines(o, on) PROVE BaseInv'
  BY <1>2, ReloadStep
<1>3. ASSUME NEW n \in Names, ForgetBaseline(n) PROVE BaseInv'
  BY <1>3, ForgetStep
<1>4. CASE Prune
  BY <1>4, PruneStep
<1>5. CASE StopSaving \/ ExitClean \/ CrashBaselines \/ LoadBaselines \/ TimePasses
  BY <1>5, LifeStep
<1>6. ASSUME NEW s \in Savers, Snapshot(s) \/ WriteBaselines(s) \/ WriteFails(s) PROVE BaseInv'
  BY <1>6, SaverStep
<1>7. CASE UNCHANGED baseVars
  BY <1>7 DEF baseVars, stored, onDisk, BaseInv
<1> QED BY <1>1, <1>2, <1>3, <1>4, <1>5, <1>6, <1>7 DEF BaseNext

LEMMA BaseStart == BaseInit => BaseInv
<1> SUFFICES ASSUME BaseInit PROVE BaseInv
  OBVIOUS
<1>1. /\ time \in Ticks /\ faults \in 0..MaxFaults /\ opts \in OptionSets /\ enabled \in BOOLEAN /\ alive = "up"
      /\ dirty \in BOOLEAN /\ failed \in BOOLEAN /\ raced \in BOOLEAN /\ moved \subseteq Names
  <2>1. time \in Ticks /\ faults \in 0..MaxFaults
    BY BaselinesAssumption DEF BaseInit, Ticks
  <2> QED BY <2>1, Zenon DEF BaseInit
<1>2. DOMAIN saver = Savers /\ \A s \in Savers : saver[s] = Idle
  BY DEF BaseInit
<1>3. Right(NoBases, time, opts.maxAlerts, moved) /\ NotLater(NoBases, NoBases)
  BY DEF Right, Stores, NotLater, NoBases
<1>4. vms = NoBases /\ file = NoBases
  BY DEF BaseInit
<1> QED BY <1>1, <1>2, <1>3, <1>4 DEF BaseInv

\* Within any 24 hours are the alerts of one day and of the day before.
LEMMA TwoDays ==
  ASSUME time \in Ticks, NEW b \in Bases, Honest(b, time)
  PROVE  Cardinality(InDay(b.raised)) <= 2 * LargestCap
<1>1. b.dayStart \in Ticks /\ b.alertsDay \in 0..LargestCap /\ b.raised \in Alarms
  BY BaseFields
<1>2. IsFiniteSet(b.raised) /\ Cardinality(Today(b)) + 0 <= b.alertsDay /\ Cardinality(DayBefore(b)) <= LargestCap /\ b.dayStart <= time
  BY DEF Honest, Counts, InTime
<1>3. IsFiniteSet(Today(b)) /\ IsFiniteSet(DayBefore(b)) /\ Cardinality(Today(b)) \in Nat /\ Cardinality(DayBefore(b)) \in Nat
  BY <1>2, FS_Subset, FS_CardinalityType DEF Today, DayBefore
<1>4. \A r \in b.raised : r[1] \in Int
  BY <1>1 DEF Alarms, Ticks
<1>5. InDay(b.raised) \subseteq Today(b) \cup DayBefore(b)
  BY <1>1, <1>2, <1>4, BaselinesAssumption DEF InDay, Today, DayBefore, Ticks
<1>6. IsFiniteSet(Today(b) \cup DayBefore(b)) /\ Today(b) \cap DayBefore(b) = {}
  <2>1. Today(b) \cap DayBefore(b) = {}
    BY <1>1, <1>4 DEF Today, DayBefore, Ticks
  <2> QED BY <1>3, <2>1, FS_Union
<1>7. Cardinality(Today(b) \cup DayBefore(b)) = Cardinality(Today(b)) + Cardinality(DayBefore(b))
  <2>1. Cardinality(Today(b) \cup DayBefore(b)) = Cardinality(Today(b)) + Cardinality(DayBefore(b)) - Cardinality(Today(b) \cap DayBefore(b))
    BY <1>3, FS_Union
  <2> QED BY <1>3, <1>6, <2>1, FS_EmptySet
<1>8. Cardinality(InDay(b.raised)) \in Nat /\ Cardinality(InDay(b.raised)) <= Cardinality(Today(b) \cup DayBefore(b))
  BY <1>5, <1>6, FS_Subset, FS_CardinalityType
<1> QED BY <1>1, <1>2, <1>3, <1>7, <1>8, BaselinesAssumption

\* What Observe answers is deserved (baseline.go: Observe, trim, Prune, Snapshot, Load; baselines.go): for any
\* items, options, reloads, failed saves and crashes, an item is reported only when it was not seen within
\* maxAge, learning happens once, within 24 hours at most two caps' worth of alerts are raised, and nothing is
\* held back in a day that was not said to be at its cap.
THEOREM AnswersAreDeserved == BaseSpec => []ObserveIsTrue
<1>1. BaseInit => BaseInv
  BY BaseStart
<1>2. BaseInv /\ [BaseNext]_baseVars => BaseInv'
  BY BaseStep
<1>3. BaseInv => ObserveIsTrue
  <2> SUFFICES ASSUME BaseInv PROVE ObserveIsTrue
    OBVIOUS
  <2>1. time \in Ticks /\ opts \in OptionSets /\ DOMAIN vms \subseteq Names
    BY DEF BaseInv, Right, Stores
  <2>2. ASSUME NEW n \in DOMAIN vms, NEW i \in Items
        PROVE  /\ ObservedRight(n, i, vms[n], Outcome(n, i))
               /\ vms[n] \in Bases /\ Honest(vms[n], time)
    BY <2>1, <2>2, OutcomeFacts, BaseOfFacts
  <2>3. BaseTypeOK
    BY DEF BaseInv, BaseTypeOK, Right, Ticks
  <2>4. NeverNewAgain
    <3> SUFFICES ASSUME NEW n \in DOMAIN vms, NEW i \in Items, Verdict(n, i) = "new", vms[n].sight[i] # Never
                 PROVE  time - vms[n].sight[i] > opts.maxAge
      BY DEF NeverNewAgain
    <3>1. ~Known(vms[n], i)
      BY <2>2 DEF ObservedRight, Verdict
    <3>2. i \in DOMAIN vms[n].last /\ vms[n].last[i] = vms[n].sight[i]
      BY <2>2 DEF Honest, Remembers
    <3>3. vms[n].last[i] \in Int /\ time \in Int /\ opts.maxAge \in Int
      BY <2>1, <2>2, <3>2, BaseFields, LastFacts, OptionFacts DEF Ticks
    <3> QED BY <3>1, <3>2, <3>3 DEF Known
  <2>5. LearnsOnce
    <3> SUFFICES ASSUME NEW n \in DOMAIN vms, NEW i \in Items, Verdict(n, i) = "learning"
                 PROVE  time - vms[n].first < opts.learn
      BY DEF LearnsOnce
    <3> QED BY <2>2 DEF ObservedRight, Verdict, Learning, Honest, Remembers
  <2>6. HeldBackIsSaid
    BY <2>2, Zenon DEF HeldBackIsSaid, ObservedRight, Verdict
  <2>7. DayBounded
    <3> SUFFICES ASSUME NEW n \in DOMAIN vms PROVE Cardinality(InDay(vms[n].raised)) <= 2 * LargestCap
      BY DEF DayBounded
    <3>1. vms[n] \in Bases /\ Honest(vms[n], time)
      BY DEF BaseInv, Right, Stores
    <3> QED BY <2>1, <3>1, TwoDays
  <2> QED BY <2>3, <2>4, <2>5, <2>6, <2>7 DEF ObserveIsTrue
<1> QED BY <1>1, <1>2, <1>3, PTL DEF BaseSpec

=============================================================================
