------------------------------- MODULE Events -------------------------------
(***************************************************************************)
(* The event list (internal/state/events.go, AddEvent and Restore of       *)
(* state.go), the flight recorder (internal/recorder), the files that      *)
(* survive a restart (internal/persist/log.go and attach.go) and the two   *)
(* ways a client reads events (internal/api/server.go): the stream, and    *)
(* GET /events.                                                            *)
(*                                                                         *)
(* AddEvent is one step under State's lock, then, for a detection, a write *)
(* to the log that runs after the lock is released: `after' holds the      *)
(* detections of goroutines that are between the two.  A client reads in   *)
(* several steps, and the lock is free between them.                       *)
(***************************************************************************)
EXTENDS Integers, Sequences, SequencesExt, FiniteSets

CONSTANTS
  Kinds,      \* the kinds of event that happen, a subset of what classOf knows
  Share,      \* classShare: the places of the list kept for each class
  MaxEvents,  \* bound on the events and on the detections in memory
  RecCap,     \* the recorder's cap
  LogMax,     \* lines of detections.jsonl at which it rolls to detections.jsonl.1
  Clients,    \* clients of the API
  Setups,     \* what is deployed: with -data-dir or without, and what the clients read
  MaxSeq,     \* bound: events of the daemon's life
  MaxBoots,   \* bound: runs of the daemon
  MaxFaults   \* bound: writes that fail, crashes and connections that end

Classes == 1..6
Sum(f) == f[1] + f[2] + f[3] + f[4] + f[5] + f[6]

ASSUME EventsAssumption ==
  /\ Share \in [Classes -> Nat]
  /\ MaxEvents \in Nat \ {0}
  /\ Sum(Share) = MaxEvents
  /\ Setups \subseteq [dir : BOOLEAN, role : {"stream", "poll", "none"}]
  /\ RecCap \in Nat \ {0} /\ LogMax \in Nat \ {0}
  /\ MaxSeq \in Nat /\ MaxBoots \in Nat \ {0} /\ MaxFaults \in Nat

VARIABLES
  dataDir,    \* the daemon has a -data-dir: the persister is set
  up, boot,   \* the daemon runs; which of its runs this is
  seq,        \* State.seq
  by,         \* eventStore.by: one list per class
  dets,       \* State.detections
  connects,   \* State.connects of one VM: it goes on counting when the list wraps
  rec,        \* the recorder's ring of one VM
  gen,        \* which changed channel is the open one: AddEvent closes it and makes the next
  after,      \* detections whose AddEvent has released the lock and has not written them yet
  log,        \* detections.jsonl and .1: lines, whether the last line is ended, whether the file is open
  saved,      \* recorder.json
  client,     \* client[c]: where its read is
  shown,      \* history: shown[c] are the Seqs of this run that c was sent, from[c] where it started
  from,
  written,    \* history: the detections that Append put whole on a line of their own
  faults

store == <<seq, by, dets, connects, rec, gen>>
disk == <<log, saved, written>>
vars == <<dataDir, up, boot, store, after, disk, client, shown, from, faults>>
Fault == faults < MaxFaults /\ faults' = faults + 1

-----------------------------------------------------------------------------
(* Events and their classes.                                               *)

classOf(k) ==
  CASE k \in {"guest_connect", "guest_flow", "guest_inbound", "guest_dns", "guest_tls"} -> 1
    [] k \in {"detection", "vm_start", "vm_stop", "oom_kill"} -> 2
    [] k \in {"exec", "exit", "vmm_file_open", "vmm_syscall"} -> 3
    [] k \in {"block_slow", "sched_delay", "reclaim_stall"} -> 4
    [] k \in {"tcp_connect", "tcp_retransmit", "netlink_link", "netlink_address",
              "netlink_route", "netlink_neighbor", "netlink_error"} -> 5
    [] OTHER -> 6

Event == [seq : 1..MaxSeq, kind : Kinds, boot : 1..MaxBoots]

Total(b) == Sum([c \in Classes |-> Len(b[c])])
Excess(b, c) == Len(b[c]) - Share[c]
VictimOldest(b) ==
  CHOOSE c \in Classes : b[c] # <<>> /\ \A d \in Classes : b[d] # <<>> => b[c][1].seq <= b[d][1].seq
\* The class furthest over its share, the first of them when several are.
Victim(b) ==
  CHOOSE c \in Classes : \A d \in Classes :
    Excess(b, d) <= Excess(b, c) /\ (Excess(b, d) = Excess(b, c) => c <= d)

\* eventStore.add: one event is over the bound at most, so the loop runs once at most.
Add(b, e) ==
  LET c == classOf(e.kind)
      more == [b EXCEPT ![c] = Append(@, e)]
  IN  IF Total(more) > MaxEvents THEN [more EXCEPT ![Victim(more)] = Tail(@)] ELSE more

Stored == UNION {ToSet(by[c]) : c \in Classes}
SinceByClass(n) == FlattenSeq([c \in Classes |-> SelectSeq(by[c], LAMBDA e : e.seq > n)])
\* eventStore.since: the merge of the class lists, each already in Seq order.
Place(S, e) == Cardinality({f \in S : f.seq <= e.seq})
Since(n) ==
  LET S == {e \in Stored : e.seq > n}
  IN  [k \in 1..Cardinality(S) |-> CHOOSE e \in S : Place(S, e) = k]

Newest(s, n) == SubSeq(s, Len(s) - n + 1, Len(s))
BoundedLate(s, n) == IF Len(s) > n + 1 THEN Newest(s, n) ELSE s
Bounded(s, n) == IF Len(s) > n THEN Newest(s, n) ELSE s

-----------------------------------------------------------------------------
(* The recorder: a ring that grows to its cap and then overwrites in place. *)

EmptyRing == [evs |-> <<>>, next |-> 1]
Advance(i, n) == IF i = n THEN 1 ELSE i + 1
RingAdd(g, e) ==
  IF Len(g.evs) < RecCap
  THEN [g EXCEPT !.evs = Append(@, e)]
  ELSE [evs |-> [g.evs EXCEPT ![g.next] = e], next |-> Advance(g.next, Len(g.evs))]
EachInPlace(g) == g.evs
\* ring.each, oldest first: what Snapshot saves and Window reads.
Each(g) == SubSeq(g.evs, g.next, Len(g.evs)) \o SubSeq(g.evs, 1, g.next - 1)
\* Add of every event of s, in its order, to a new recorder: each place holds the last event that fell on it.
Refilled(s) ==
  LET n == Len(s)
  IN  IF n <= RecCap THEN [evs |-> s, next |-> 1]
      ELSE [evs |-> [i \in 1..RecCap |-> s[n - ((n - i) % RecCap)]], next |-> (n % RecCap) + 1]

-----------------------------------------------------------------------------
(* The log: lines are [e, ok]; a line is not ok when its bytes do not decode. *)

EmptyLog == [old |-> <<>>, cur |-> <<>>, ended |-> TRUE, open |-> TRUE]
Nth(S, k) == CHOOSE i \in S : Cardinality({j \in S : j <= i}) = k
Whole(lines) == {i \in DOMAIN lines : lines[i].ok}
Decoded(lines) == [k \in 1..Cardinality(Whole(lines)) |-> lines[Nth(Whole(lines), k)].e]
\* ReadTail: of the newest n lines of path.1 and path those that decode, oldest first.
ReadTail(l, n) == Decoded(Bounded(l.old \o l.cur, n))
Full(l) == Len(l.cur) >= LogMax
RotatedTruncates(l) == IF Full(l) THEN [l EXCEPT !.cur = <<>>, !.ended = TRUE] ELSE l
Rotated(l) == IF Full(l) THEN [l EXCEPT !.old = l.cur, !.cur = <<>>, !.ended = TRUE] ELSE l
\* A record written where the last line is not ended is glued to it, and the line still does not decode.
Line(l, e) ==
  IF l.ended THEN [l EXCEPT !.cur = Append(@, [e |-> e, ok |-> TRUE])]
             ELSE [l EXCEPT !.ended = TRUE]
\* Part of a line: a crash in the write, or a write the disk cut short.
TornLine(l, e) ==
  IF l.ended THEN [l EXCEPT !.cur = Append(@, [e |-> e, ok |-> FALSE]), !.ended = FALSE] ELSE l
\* Log.open ends a torn last line.
Opened(l) == [l EXCEPT !.ended = TRUE, !.open = TRUE]

-----------------------------------------------------------------------------
(* Clients.                                                                *)

Roles == {"stream", "poll", "none"}
Streams == {c \in Clients : client[c].role = "stream"}
Pollers == {c \in Clients : client[c].role = "poll"}
Stages == {"off", "watch", "read", "wait"}
\* A client keeps the last Seq it was given, and (history) the run it is of, when its connection ends.
Off(c) == [c EXCEPT !.at = "off", !.gen = 0, !.batch = <<>>, !.told = 0]
NewClient(role) == [role |-> role, at |-> "off", since |-> 0, boot |-> 1, gen |-> 0, batch |-> <<>>, told |-> 0]

NoEvents == [c \in Classes |-> <<>>]

Init ==
  /\ up = TRUE /\ boot = 1
  /\ seq = 0 /\ by = NoEvents /\ dets = <<>> /\ connects = 0 /\ rec = EmptyRing /\ gen = 1
  /\ after = {}
  /\ log = EmptyLog /\ saved = <<>> /\ written = <<>>
  /\ \E u \in Setups : dataDir = u.dir /\ client = [c \in Clients |-> NewClient(u.role)]
  /\ shown = [c \in Clients |-> {}] /\ from = [c \in Clients |-> 0]
  /\ faults = 0

\* Closing the changed channel wakes every stream that took it; the next channel takes its place.
ClosedNever(g) == g
Closed(g) == g + 1

\* AddEvent, up to the release of the lock.  The hooks of a detection are in module Alerts.
AddEvent(k) ==
  LET e == [seq |-> seq + 1, kind |-> k, boot |-> boot] IN
  /\ up /\ seq < MaxSeq
  /\ seq' = seq + 1
  /\ by' = Add(by, e)
  /\ dets' = IF k = "detection" THEN Bounded(Append(dets, e), MaxEvents) ELSE dets
  /\ connects' = IF k = "tcp_connect" THEN connects + 1 ELSE connects
  /\ rec' = RingAdd(rec, e)
  /\ gen' = Closed(gen)
  /\ after' = IF dataDir /\ k = "detection" THEN after \cup {e} ELSE after
  /\ UNCHANGED <<dataDir, up, boot, disk, client, shown, from, faults>>

\* Handle.Detection, called after the lock is released: two writes may come in either order.
Detection(e) ==
  /\ up /\ e \in after /\ log.open
  /\ after' = after \ {e}
  /\ log' = Line(Rotated(log), e)
  /\ written' = IF Rotated(log).ended THEN Append(written, e) ELSE written
  /\ UNCHANGED <<dataDir, up, boot, store, saved, client, shown, from, faults>>

\* The rename of a full log fails: rotate opens the same file again and the record goes there.
RotateFails(e) ==
  /\ up /\ e \in after /\ log.open /\ Full(log)
  /\ after' = after \ {e}
  /\ log' = Line(Opened(log), e)
  /\ written' = Append(written, e)
  /\ Fault
  /\ UNCHANGED <<dataDir, up, boot, store, saved, client, shown, from>>

\* The write fails, and may leave part of the line behind; or rotate cannot open the new file, and the log
\* stays closed until a restart.
DetectionFails(e) ==
  /\ up /\ e \in after /\ log.open
  /\ after' = after \ {e}
  /\ log' \in {Rotated(log), TornLine(Rotated(log), e)}
             \cup (IF Full(log) THEN {[Rotated(log) EXCEPT !.open = FALSE]} ELSE {})
  /\ Fault
  /\ UNCHANGED <<dataDir, up, boot, store, saved, written, client, shown, from>>

\* Append to a closed log: os.ErrClosed.
DetectionRefused(e) ==
  /\ up /\ e \in after /\ ~log.open
  /\ after' = after \ {e}
  /\ UNCHANGED <<dataDir, up, boot, store, disk, client, shown, from, faults>>

\* The minute ticker saves the recorder.
Snapshot ==
  /\ up /\ dataDir
  /\ saved' = Each(rec)
  /\ UNCHANGED <<dataDir, up, boot, store, after, log, written, client, shown, from, faults>>

-----------------------------------------------------------------------------
(* stream: take the channel, read, send, wait for the channel to close.    *)

Connect(c) ==
  /\ up /\ c \in Streams \cup Pollers /\ client[c].at = "off"
  /\ client' = [client EXCEPT ![c].at = "watch"]
  /\ from' = [from EXCEPT ![c] = client[c].since]
  /\ UNCHANGED <<dataDir, up, boot, store, after, disk, shown, faults>>

Changed(c) ==
  /\ up /\ c \in Streams /\ client[c].at = "watch"
  /\ client' = [client EXCEPT ![c].at = "read", ![c].gen = gen]
  /\ UNCHANGED <<dataDir, up, boot, store, after, disk, shown, from, faults>>

EventsSince(c) ==
  /\ up /\ c \in Streams /\ client[c].at = "read"
  /\ client' = [client EXCEPT ![c].at = "wait", ![c].batch = Since(client[c].since)]
  /\ UNCHANGED <<dataDir, up, boot, store, after, disk, shown, from, faults>>

Send(c) ==
  /\ up /\ client[c].batch # <<>> /\ client[c].at = "wait"
  /\ LET e == Head(client[c].batch) IN
       /\ client' = [client EXCEPT ![c].batch = Tail(@), ![c].since = e.seq, ![c].boot = e.boot]
       /\ shown' = [shown EXCEPT ![c] = @ \cup {e.seq}]
  /\ UNCHANGED <<dataDir, up, boot, store, after, disk, from, faults>>

\* The channel it took is closed, or the keepalive ticks.
Wake(c) ==
  /\ up /\ c \in Streams /\ client[c].at = "wait" /\ client[c].batch = <<>>
  /\ client' = [client EXCEPT ![c].at = "watch"]
  /\ UNCHANGED <<dataDir, up, boot, store, after, disk, shown, from, faults>>

\* The client goes, and comes back with the Last-Event-ID it has.
Disconnect(c) ==
  /\ client[c].at # "off"
  /\ Fault
  /\ client' = [client EXCEPT ![c] = Off(client[c])]
  /\ shown' = [shown EXCEPT ![c] = {}] /\ from' = [from EXCEPT ![c] = 0]
  /\ UNCHANGED <<dataDir, up, boot, store, after, disk>>

(* GET /events: the answer's seq is read first, then the events; the next  *)
(* poll asks for what comes after that seq.                                *)
PollSeq(c) ==
  /\ up /\ c \in Pollers /\ client[c].at = "watch"
  /\ client' = [client EXCEPT ![c].at = "read", ![c].told = seq]
  /\ UNCHANGED <<dataDir, up, boot, store, after, disk, shown, from, faults>>

PollEvents(c) ==
  /\ up /\ c \in Pollers /\ client[c].at = "read"
  /\ client' = [client EXCEPT ![c].at = "watch", ![c].since = client[c].told,
                             ![c].boot = boot, ![c].told = 0]
  /\ shown' = [shown EXCEPT ![c] = @ \cup {e.seq : e \in ToSet(Since(client[c].since))}]
  /\ UNCHANGED <<dataDir, up, boot, store, after, disk, from, faults>>

-----------------------------------------------------------------------------
(* The daemon's runs.                                                      *)

Down ==
  /\ up' = FALSE
  /\ after' = {}
  /\ client' = [c \in Clients |-> Off(client[c])]
  /\ shown' = [c \in Clients |-> {}] /\ from' = [c \in Clients |-> 0]
  /\ seq' = 0 /\ by' = NoEvents /\ dets' = <<>> /\ connects' = 0   \* memory is gone
  /\ rec' = EmptyRing /\ gen' = 1
  /\ UNCHANGED <<dataDir, boot>>

\* Handle.Close, then the process ends.
Close == up /\ saved' = (IF dataDir THEN Each(rec) ELSE saved) /\ Down /\ UNCHANGED <<log, written, faults>>

\* The process dies, perhaps inside a write.
Crash ==
  /\ up
  /\ log' \in {log} \cup {TornLine(Rotated(log), e) : e \in after}
  /\ Fault /\ Down /\ UNCHANGED <<saved, written>>

\* The highest Seq of s: as many numbers from 1 on are at or below it.
MaxSeqOf(s) == Cardinality({m \in 1..MaxSeq : \E e \in ToSet(s) : m <= e.seq})
Higher(m, n) == IF m < n THEN n ELSE m

\* Attach: Restore from the files, then open the log.
Restore ==
  /\ ~up /\ boot < MaxBoots
  /\ up' = TRUE /\ boot' = boot + 1
  /\ dets' = ReadTail(log, MaxEvents)
  /\ rec' = Refilled(saved)
  /\ seq' = Higher(MaxSeqOf(ReadTail(log, MaxEvents)), MaxSeqOf(saved))
  /\ by' = NoEvents /\ connects' = 0 /\ gen' = 1
  /\ log' = Opened(log)
  /\ UNCHANGED <<dataDir, after, saved, written, client, shown, from, faults>>

Next ==
  \/ \E k \in Kinds : AddEvent(k)
  \/ \E e \in after : Detection(e) \/ RotateFails(e) \/ DetectionFails(e) \/ DetectionRefused(e)
  \/ Snapshot
  \/ \E c \in Clients : \/ Connect(c) \/ Changed(c) \/ EventsSince(c) \/ Send(c)
                        \/ Wake(c) \/ Disconnect(c) \/ PollSeq(c) \/ PollEvents(c)
  \/ Close \/ Crash \/ Restore

Spec == Init /\ [][Next]_vars

-----------------------------------------------------------------------------
(* Properties.                                                             *)

\* The variables keep their types; the event list never holds more than MaxEvents (events.go:67), nor
\* the detections, nor the ring.
TypeOK ==
  /\ up \in BOOLEAN /\ boot \in 1..MaxBoots /\ seq \in 0..MaxSeq
  /\ by \in [Classes -> Seq(Event)] /\ Total(by) <= MaxEvents
  /\ dets \in Seq(Event) /\ Len(dets) <= MaxEvents /\ connects \in 0..MaxSeq
  /\ rec.evs \in Seq(Event) /\ Len(rec.evs) <= RecCap /\ rec.next \in 1..RecCap
  /\ after \subseteq Event
  /\ \A c \in Clients : client[c].at \in Stages /\ client[c].since \in 0..MaxSeq

\* Every list is in Seq order, whatever was overwritten, restored or reused: the class lists, which `since'
\* searches by bisection (events.go:92), and the ring read oldest first (recorder.go:42), also after it
\* wrapped and after a restart fed a saved snapshot back through Add (recorder.go:105).
Ascending(s) == \A i \in 1..(Len(s) - 1) : s[i].seq < s[i + 1].seq
StoredInOrder == Ascending(Each(rec)) /\ \A c \in Classes : Ascending(by[c])

\* A class at or under its share never loses an event to the events of other classes (events.go:16-18),
\* and no class loses one while the list has room.
ShareKept ==
  [][\A c \in Classes :
       up' = up /\ (Len(by[c]) <= Share[c] \/ Total(by) < MaxEvents)
         => \/ IsPrefix(by[c], by'[c])
            \/ Len(by[c]) = Share[c] /\ Len(by'[c]) = Share[c]  \* its own new event pushed out its oldest
    ]_vars

\* A stream that waits on the open channel has been sent every event stored when it waits: none slipped in
\* between taking the channel and reading the list (state.go Changed, "Take it before reading events").
NoLostWakeup ==
  \A c \in Streams :
    client[c].at = "wait" /\ client[c].gen = gen /\ client[c].batch = <<>> =>
      \A e \in Stored : e.seq <= client[c].since

\* A client is never moved past an event it was not sent: of what is stored, everything from where its
\* connection began up to its Last-Event-ID, or up to the seq a poll told it, was in an answer it got.
NothingSkipped ==
  \A c \in Clients :
    client[c].at # "off" =>
      \A e \in Stored : from[c] < e.seq /\ e.seq <= client[c].since => e.seq \in shown[c]

\* What a restart reads back is the newest of what was written, with nothing missing in between: a line torn
\* by a crash or a full disk costs itself, and a roll costs only what is older than LogMax lines (log.go:45,
\* 74, 125).
Torn(l) == Cardinality({i \in DOMAIN (l.old \o l.cur) : ~(l.old \o l.cur)[i].ok})
NewestSurvive ==
  LET back == ReadTail(log, MaxEvents)
  IN  /\ IsSuffix(back, written)
      /\ \/ Len(back) >= MaxEvents - Torn(log)
         \/ Len(back) >= LogMax - Torn(log)
         \/ back = written

\* The lists are within their limits and in order.
ListsKept == TypeOK /\ StoredInOrder

=============================================================================
