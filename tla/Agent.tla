------------------------------- MODULE Agent -------------------------------
(***************************************************************************)
(* The agent (internal/agent): what VMs there are (Refresh and trackVMs),  *)
(* what an event means (Ingest and the rules it asks), and what the        *)
(* kernel's link messages say of a VM's interface (ingestNetlink).         *)
(*                                                                         *)
(* Refresh is called by the two-second ticker and by the netlink watcher   *)
(* (cmd/shukrad/main.go:265-283), so two may overlap: each scans /proc,    *)
(* publishes what it found and then tracks it.  The three parts share the  *)
(* VMs of the last scan and no other state, and are explored one at a time.*)
(***************************************************************************)
EXTENDS Integers, Sequences, FiniteSets

CONSTANTS
  Procs,      \* VMM processes: each has a pid of its own and lives once
  VMOf,       \* the VM a process runs, by name
  Worlds,     \* what is explored: [part, overlap, bad]
  Configs,    \* rules files, also ones that Parse refuses
  Events,     \* what observers may see, a process' or a tap's; `net' is the network of the peer's address
  MaxSteps,   \* bound: events ingested, link changes and restarts
  MaxQueue,   \* bound: the netlink socket's buffer
  StopAfter   \* stopAfterMisses

ASSUME AgentAssumption ==
  /\ IsFiniteSet(Procs) /\ StopAfter \in Nat \ {0} /\ MaxSteps \in Nat /\ MaxQueue \in Nat \ {0}
  /\ \A w \in Worlds : w.part \in {"tracking", "rules", "netlink"} /\ w.overlap \in BOOLEAN /\ w.bad \in Nat
  /\ \A e \in Events : e.kind = "guest_inbound" => e.proto = "tcp"      \* a SYN sent to a guest (event.go:22)

\* What stopAfterMisses is to bear: fewer bad reads than it counts, or the one scan that another overtakes.
ASSUME MissesAssumption ==
  \A w \in Worlds : w.bad < StopAfter /\ (w.overlap => w.bad = 0 /\ StopAfter >= 2)

VARIABLES
  world, steps,
  proc,       \* each process: "new", "runs", "gone"
  listed,     \* State.vms: the processes of the last scan that was published
  tracked,    \* Agent.vms: the processes that are tracked, and how many scans missed each
  firstScan,  \* Agent.firstScan
  refresh,    \* the two callers of Refresh: where each is, and what it found
  said,       \* the vm_start and vm_stop events of each process, in order
  badReads,   \* history: scans that could not read a process that runs
  cfg,        \* Agent.cfg
  held,       \* the suppressor's keys
  raised,     \* what was raised, as facts
  happened,   \* history: the facts the rules in force speak of
  link,       \* the interface of one index: the kernel's view
  queue,      \* the netlink socket
  overrun,    \* it has lost messages and not yet said so
  netlinks,   \* Agent.netlinks of the index
  claim       \* the last netlink finding, whether it is real, and whether an overrun was reported before it

tracking == <<proc, tracked, firstScan, refresh, said, badReads>>
ruling == <<cfg, held, raised, happened>>
linking == <<link, queue, overrun, netlinks, claim>>
agVars == <<world, steps, listed, tracking, ruling, linking>>

Step == steps < MaxSteps /\ steps' = steps + 1 /\ UNCHANGED world

Roles == {"ticker", "watcher"}
Resting == [at |-> "idle", found |-> {}]
NoLinkState == [known |-> FALSE, gen |-> 0, mtu |-> 0, master |-> 0]
NoClaim == [rule |-> "none", real |-> TRUE, warned |-> FALSE]

\* Parse, as far as rules go: a port rule needs a port, a name rule something to match, an allowed command a
\* name, and no two rules of ports, dns, tls and thresholds have the same name.
Named(c) == c.ports \o c.dns \o c.tls \o c.thresholds
Parses(c) ==
  /\ \A i \in DOMAIN c.ports : c.ports[i].port # 0
  /\ \A i \in DOMAIN c.dns : c.dns[i].names # {}
  /\ \A i \in DOMAIN c.tls : c.tls[i].names # {}
  /\ "" \notin c.execAllow
  /\ \A i, j \in DOMAIN Named(c) : i # j => Named(c)[i].name # Named(c)[j].name

AgInit ==
  /\ world \in Worlds /\ steps = 0
  /\ proc \in [Procs -> {"new", "runs"}] /\ listed = {} /\ tracked = [p \in {} |-> 0] /\ firstScan = TRUE
  /\ refresh = [r \in Roles |-> Resting] /\ said = [p \in Procs |-> <<>>] /\ badReads = 0
  /\ cfg \in {c \in Configs : Parses(c)} /\ held = {} /\ raised = {} /\ happened = {}
  /\ link = [exists |-> TRUE, gen |-> 1, mtu |-> 1, master |-> 1, down |-> FALSE] /\ queue = <<>> /\ overrun = FALSE
  /\ netlinks = NoLinkState /\ claim = NoClaim

-----------------------------------------------------------------------------
(* Refresh.                                                                *)

Starts(p) ==
  /\ world.part = "tracking" /\ proc[p] = "new"
  /\ proc' = [proc EXCEPT ![p] = "runs"]
  /\ UNCHANGED <<world, steps, listed, tracked, firstScan, refresh, said, badReads, ruling, linking>>

Ends(p) ==
  /\ world.part = "tracking" /\ proc[p] = "runs"
  /\ proc' = [proc EXCEPT ![p] = "gone"]
  /\ UNCHANGED <<world, steps, listed, tracked, firstScan, refresh, said, badReads, ruling, linking>>

Running == {p \in Procs : proc[p] = "runs"}
Free(r) == refresh[r].at = "idle" /\ (world.overlap \/ \A q \in Roles : refresh[q].at = "idle")

\* identity.Scan: a process whose files fail to read is skipped.
Scan(r, missed) ==
  /\ world.part # "netlink" /\ Free(r)
  /\ missed \subseteq Running /\ badReads + Cardinality(missed) <= world.bad
  /\ badReads' = badReads + Cardinality(missed)
  /\ refresh' = [refresh EXCEPT ![r] = [at |-> "publish", found |-> Running \ missed]]
  /\ UNCHANGED <<world, steps, listed, proc, tracked, firstScan, said, ruling, linking>>

SetVMs(r) ==
  /\ refresh[r].at = "publish"
  /\ listed' = refresh[r].found
  /\ refresh' = [refresh EXCEPT ![r].at = "track"]
  /\ UNCHANGED <<world, steps, proc, tracked, firstScan, said, badReads, ruling, linking>>

\* trackVMs: a process is gone when enough scans in a row have missed it.
MissesNotCounted(S, p) == IF p \in S THEN 0 ELSE tracked[p]
Misses(S, p) == IF p \in S THEN 0 ELSE tracked[p] + 1
StoppedAtOnce(S) == {p \in DOMAIN tracked : Misses(S, p) >= 1}
StoppedLate(S) == {p \in DOMAIN tracked : Misses(S, p) > StopAfter}
Stopped(S) == {p \in DOMAIN tracked : Misses(S, p) >= StopAfter}
AppearedAgain(S) == {p \in S : p \notin DOMAIN tracked \/ tracked[p] > 0}
Appeared(S) == S \ DOMAIN tracked
Tell(S) ==
  [p \in Procs |-> IF p \in Stopped(S) THEN Append(said[p], "stop")
                   ELSE IF p \in Appeared(S) /\ ~firstScan THEN Append(said[p], "start")
                   ELSE said[p]]

TrackVMs(r) ==
  /\ refresh[r].at = "track"
  /\ LET S == refresh[r].found
     IN  /\ tracked' = [p \in (DOMAIN tracked \ Stopped(S)) \cup S |-> IF p \in DOMAIN tracked THEN Misses(S, p) ELSE 0]
         /\ said' = Tell(S)
  /\ firstScan' = FALSE
  /\ refresh' = [refresh EXCEPT ![r] = Resting]
  /\ UNCHANGED <<world, steps, listed, proc, badReads, ruling, linking>>

\* The daemon restarts: it tracks from nothing, and says nothing of what runs already.
RestartAgent ==
  /\ world.part = "tracking" /\ Step
  /\ listed' = {} /\ tracked' = [p \in {} |-> 0] /\ firstScan' = TRUE /\ refresh' = [r \in Roles |-> Resting]
  /\ said' = [p \in Procs |-> <<>>] /\ badReads' = 0
  /\ UNCHANGED <<proc, ruling, linking>>

-----------------------------------------------------------------------------
(* Ingest.                                                                 *)

GuestKinds == {"guest_connect", "guest_flow", "guest_inbound", "guest_dns", "guest_tls"}
VMMKinds == {"vmm_open", "vmm_call"}

\* An event is joined to the VM of the last scan that owns the thread, the tap, the parent (of an exec or an
\* exit) or the VMM that the process descends from.
Expected(e) == e.kind # "exec" \/ e.what \in cfg.execAllow \/ e.builtin
Joins(e) == e.proc \in listed /\ (e.by = "child" => e.kind \in {"exec", "exit"} \cup VMMKinds)
JoinedVM(e) == IF Joins(e) THEN VMOf[e.proc] ELSE "none"
\* Normalize.
Attribution(e) == IF ~Joins(e) THEN "unattributed" ELSE IF e.kind \in GuestKinds THEN "guest-tap" ELSE "qemu-process"

\* The first rule of the file that matches: the lowest of the positions that do.
FirstMatch(rules, hit) == IF hit = {} THEN {} ELSE {rules[CHOOSE i \in hit : \A j \in hit : i <= j].name}

Dir(e) == IF e.kind = "guest_inbound" THEN "in" ELSE "out"
WatchRule(e) == FirstMatch(cfg.watch, {i \in DOMAIN cfg.watch : e.peer \in cfg.watch[i].nets})
PortMatches(r, e) == r.port = e.port /\ r.proto \in {"any", e.proto} /\ r.dir \in {"any", Dir(e)}
PortRule(e) == FirstMatch(cfg.ports, {i \in DOMAIN cfg.ports : PortMatches(cfg.ports[i], e)})
NameRule(rules, e) == FirstMatch(rules, {i \in DOMAIN rules : e.what \in rules[i].names})

\* What "the same detection" is, for each rule that an event sets off: the keys of raise.
DestKeyByPeer(e, rule) == <<"dest", rule, JoinedVM(e), e.peer>>
DestKey(e, rule) ==
  IF Dir(e) = "in" THEN <<"dest-in", rule, JoinedVM(e), Attribution(e), e.peer>>
  ELSE <<"dest", rule, JoinedVM(e), Attribution(e), e.proto, e.peer>>
PortKey(e, rule) ==
  IF Dir(e) = "in" THEN <<"port-in", rule, JoinedVM(e), e.peer, e.port>>
  ELSE <<"port", rule, JoinedVM(e), Attribution(e), e.proto, e.peer, e.port>>
ConnectKeys(e) ==
  {[rule |-> r, of |-> "peer", key |-> DestKey(e, r)] : r \in WatchRule(e)}
    \cup {[rule |-> r, of |-> "port", key |-> PortKey(e, r)] : r \in PortRule(e)}
PolicyKeys(e) ==
  IF e.policy = "none" THEN {}
  ELSE {[rule |-> IF e.policy = "audit" THEN "egress-policy-audit" ELSE "egress-policy-blocked", of |-> "network",
         key |-> <<"policy", e.policy, JoinedVM(e), e.net, e.proto>>]}
VMMKeys(e) ==
  CASE e.kind = "vmm_open" /\ e.what \in cfg.sensitive \ cfg.ignore ->
         {[rule |-> "vmm-sensitive-open", of |-> "deed", key |-> <<"vmm-open", JoinedVM(e), e.what, e.by>>]}
    [] e.kind = "vmm_call" /\ e.what = "flood" ->
         {[rule |-> "vmm-flood", of |-> "deed", key |-> <<"vmm-flood", JoinedVM(e), e.by>>]}
    [] e.kind = "vmm_call" /\ e.what # "flood" /\ e.what \in cfg.calls ->
         {[rule |-> "vmm-syscall", of |-> "deed", key |-> <<"vmm-call", JoinedVM(e), e.what, e.by>>]}
    [] OTHER -> {}
NameKeys(tag, rules, e) ==
  {[rule |-> r, of |-> "name", key |-> <<tag, r, JoinedVM(e), e.what>>] : r \in NameRule(rules, e)}

Detections(e) ==
  CASE e.kind = "exec" -> IF Joins(e) /\ e.by = "child" /\ ~Expected(e)
                          THEN {[rule |-> "unexpected-exec", of |-> "name", key |-> <<"exec", JoinedVM(e), e.what>>]}
                          ELSE {}
    [] e.kind = "tcp_connect" -> ConnectKeys(e)
    [] e.kind \in {"guest_connect", "guest_flow", "guest_inbound"} /\ Joins(e) -> ConnectKeys(e) \cup PolicyKeys(e)
    [] e.kind = "guest_dns" /\ Joins(e) -> NameKeys("dns", cfg.dns, e) \cup PolicyKeys(e)
    [] e.kind = "guest_tls" /\ Joins(e) -> NameKeys("tls", cfg.tls, e) \cup PolicyKeys(e)
    [] e.kind \in VMMKinds /\ Joins(e) -> VMMKeys(e)
    [] OTHER -> {}

\* What a person is told of.  A rule on connections judges a connection: how it is known, its direction, protocol,
\* peer and port; a policy the network and the protocol; a rule on names the name alone (agent.go:320), and a
\* tripwire what was done and by whom.
Fact(e, d) ==
  LET flow == d.of \in {"peer", "port"}
  IN  [rule |-> d.rule, vm |-> JoinedVM(e),
       how |-> IF flow THEN Attribution(e) ELSE "", dir |-> IF flow THEN Dir(e) ELSE "",
       proto |-> IF flow \/ d.of = "network" THEN e.proto ELSE "", port |-> IF d.of = "port" THEN e.port ELSE 0,
       object |-> IF flow THEN e.peer ELSE IF d.of = "network" THEN e.net ELSE e.what,
       who |-> IF d.of = "deed" THEN e.by ELSE ""]

Ingest(e) ==
  /\ world.part = "rules" /\ Step
  /\ LET new == {d \in Detections(e) : d.key \notin held}
     IN  /\ held' = held \cup {d.key : d \in new}
         /\ raised' = raised \cup {Fact(e, d) : d \in new}
         /\ happened' = happened \cup {Fact(e, d) : d \in Detections(e)}
  /\ UNCHANGED <<listed, tracking, cfg, linking>>

\* Reload: a file that does not parse leaves the rules as they were.
Reload(c) ==
  /\ world.part = "rules" /\ Step
  /\ cfg' = IF Parses(c) THEN c ELSE cfg
  /\ UNCHANGED <<listed, tracking, held, raised, happened, linking>>

-----------------------------------------------------------------------------
(* Netlink.  The kernel tells of each change; a full socket loses messages *)
(* and says so at the next read.                                           *)

Send(m) ==
  IF Len(queue) < MaxQueue THEN queue' = Append(queue, m) /\ UNCHANGED overrun
  ELSE overrun' = TRUE /\ UNCHANGED queue

Message(l, action) == [action |-> action, gen |-> l.gen, mtu |-> l.mtu, master |-> l.master, down |-> l.down]

LinkChanges(m, k, d) ==
  /\ world.part = "netlink" /\ Step /\ link.exists
  /\ LET l == [exists |-> TRUE, gen |-> link.gen, mtu |-> m, master |-> k, down |-> d]
     IN  l # link /\ link' = l /\ Send(Message(l, "new"))
  /\ UNCHANGED <<listed, tracking, ruling, netlinks, claim>>

LinkDeleted ==
  /\ world.part = "netlink" /\ Step /\ link.exists
  /\ link' = [link EXCEPT !.exists = FALSE] /\ Send(Message(link, "delete"))
  /\ UNCHANGED <<listed, tracking, ruling, netlinks, claim>>

\* Another interface gets the index.
LinkCreated(m) ==
  /\ world.part = "netlink" /\ Step /\ ~link.exists
  /\ LET l == [exists |-> TRUE, gen |-> link.gen + 1, mtu |-> m, master |-> 1, down |-> FALSE]
     IN  link' = l /\ Send(Message(l, "new"))
  /\ UNCHANGED <<listed, tracking, ruling, netlinks, claim>>

\* A scan does or does not find the VM that the interface belongs to.
ScanOwner(S) ==
  /\ world.part = "netlink" /\ S # listed
  /\ listed' = S
  /\ UNCHANGED <<world, steps, tracking, ruling, linking>>

\* updateNetlinkState.
RememberedForGood(m) == [known |-> TRUE, gen |-> m.gen, mtu |-> m.mtu, master |-> m.master]
Remembered(m) == IF m.action = "delete" THEN NoLinkState
                 ELSE [known |-> TRUE, gen |-> m.gen, mtu |-> m.mtu, master |-> m.master]

\* classifyNetlink, for a link.
LinkFinding(m, owned) ==
  CASE ~owned -> "none"
    [] owned /\ m.action = "delete" -> "tap-link-deleted"
    [] owned /\ m.action # "delete" /\ m.down -> "tap-link-down"
    [] owned /\ m.action # "delete" /\ ~m.down /\ netlinks.known /\ netlinks.mtu # m.mtu -> "tap-mtu-changed"
    [] owned /\ m.action # "delete" /\ ~m.down /\ netlinks.known /\ netlinks.mtu = m.mtu
         /\ netlinks.master # m.master -> "tap-master-changed"
    [] OTHER -> "none"

IngestNetlink ==
  /\ world.part = "netlink" /\ ~overrun /\ queue # <<>>
  /\ LET m == Head(queue)
     IN  /\ netlinks' = Remembered(m)
         /\ claim' = [claim EXCEPT !.rule = LinkFinding(m, listed # {}), !.real = netlinks.gen = m.gen]
  /\ queue' = Tail(queue)
  /\ UNCHANGED <<world, steps, listed, tracking, ruling, link, overrun>>

\* ENOBUFS: reported, and raised as netlink-overrun.
IngestOverrun ==
  /\ world.part = "netlink" /\ overrun
  /\ overrun' = FALSE
  /\ claim' = [rule |-> "netlink-overrun", real |-> TRUE, warned |-> TRUE]
  /\ UNCHANGED <<world, steps, listed, tracking, ruling, link, queue, netlinks>>

AgNext ==
  \/ \E p \in Procs : Starts(p) \/ Ends(p)
  \/ \E r \in Roles : SetVMs(r) \/ TrackVMs(r) \/ \E missed \in SUBSET Procs : Scan(r, missed)
  \/ RestartAgent
  \/ \E e \in Events : Ingest(e)
  \/ \E c \in Configs : Reload(c)
  \/ \E m, k \in 1..2, d \in BOOLEAN : LinkChanges(m, k, d)
  \/ \E m \in 1..2 : LinkCreated(m)
  \/ LinkDeleted \/ IngestNetlink \/ IngestOverrun
  \/ \E S \in SUBSET Procs : ScanOwner(S)

\* The ticker goes on: each refresh is carried through, and another follows.
Refreshes == \E r \in Roles : SetVMs(r) \/ TrackVMs(r) \/ Scan(r, {})
AgSpec == AgInit /\ [][AgNext]_agVars /\ WF_agVars(Refreshes)

-----------------------------------------------------------------------------
(* Properties.                                                             *)

\* The variables keep their types.
AgTypeOK ==
  /\ world \in Worlds /\ steps \in 0..MaxSteps /\ listed \subseteq Procs /\ badReads \in 0..world.bad
  /\ proc \in [Procs -> {"new", "runs", "gone"}] /\ DOMAIN tracked \subseteq Procs /\ firstScan \in BOOLEAN
  /\ \A p \in DOMAIN tracked : tracked[p] \in 0..(StopAfter - 1)
  /\ \A r \in Roles : refresh[r].at \in {"idle", "publish", "track"} /\ refresh[r].found \subseteq Procs
  /\ cfg \in Configs /\ Parses(cfg)
  /\ Len(queue) <= MaxQueue /\ overrun \in BOOLEAN /\ netlinks.known \in BOOLEAN

\* "one bad read must not look like a VM stopping and starting again" (agent.go:474): a stop is told only of a
\* process that has ended, with too few bad reads to count and refreshes that take turns, or with refreshes that
\* overlap and no bad read.
StopIsTrue == \A p \in Procs : said[p] # <<>> /\ said[p][Len(said[p])] = "stop" => proc[p] = "gone"

\* A process starts at most once and stops at most once, in that order, in what is told of it, over bad reads
\* and restarts and as long as refreshes take turns.
ToldOnce ==
  ~world.overlap => \A p \in Procs : said[p] \in {<<>>, <<"start">>, <<"stop">>, <<"start", "stop">>}

\* The end of a VM that is tracked is told, whoever scans next.
EndIsTold ==
  \A p \in Procs : (proc[p] = "gone" /\ p \in DOMAIN tracked) ~> (p \notin DOMAIN tracked)

\* "QEMU's own connect and the guest's are different facts, and one must not hide the other" (agent.go:280),
\* nor TCP UDP (agent.go:304), nor a connect in one out (agent.go:343): whatever the rules in force speak of has
\* been raised as what it is, and nothing was held back behind something else.
NoFactHidden == happened \subseteq raised

\* A change of an interface is claimed only of one interface: not of two that had the same index in turn,
\* unless messages were lost, and that was said before.
ChangeIsReal == claim.rule \in {"tap-mtu-changed", "tap-master-changed"} => claim.real \/ claim.warned

\* What is told of a VM's life is true, is told once, and is told in the end.
LifeIsTrue == AgTypeOK /\ StopIsTrue /\ ToldOnce
LifeIsTold == []LifeIsTrue /\ EndIsTold

=============================================================================
