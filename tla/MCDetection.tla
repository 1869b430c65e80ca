---------------------------- MODULE MCDetection ----------------------------
(***************************************************************************)
(* What is detected: the Agent's rules, tracking and netlink findings, and *)
(* the Baselines it keeps for each VM.  A behaviour is about one of the    *)
(* two and leaves the other as it starts.                                  *)
(***************************************************************************)
EXTENDS Agent, Baselines

CONSTANTS p1, p2
VARIABLE runs

OwnVM == [p \in {p1, p2} |-> IF p = p1 THEN "a" ELSE "b"]

\* One bad read with refreshes that take turns, overlapping refreshes, the rules, and the link messages.
SomeWorlds ==
  {[part |-> "tracking", overlap |-> FALSE, bad |-> 1], [part |-> "tracking", overlap |-> TRUE, bad |-> 0],
   [part |-> "rules", overlap |-> FALSE, bad |-> 0], [part |-> "netlink", overlap |-> FALSE, bad |-> 0]}

NoRules == [watch |-> <<>>, ports |-> <<>>, dns |-> <<>>, tls |-> <<>>, thresholds |-> <<>>,
            execAllow |-> {}, sensitive |-> {"shadow"}, ignore |-> {}, calls |-> {"ptrace"}]
ManyRules ==
  [NoRules EXCEPT
     !.watch = <<[nets |-> {"x"}, name |-> "bad-net"], [nets |-> {"x", "y"}, name |-> "any-net"]>>,
     !.ports = <<[port |-> 22, proto |-> "tcp", dir |-> "any", name |-> "ssh"],
                 [port |-> 22, proto |-> "any", dir |-> "out", name |-> "p22"]>>,
     !.dns = <<[names |-> {"site"}, name |-> "dns-site"]>>,
     !.tls = <<[names |-> {"site"}, name |-> "tls-site"]>>,
     !.execAllow = {"helper"}, !.ignore = {"disk"}]
\* A name used twice: Parse refuses it.
NameTwice == [ManyRules EXCEPT !.thresholds = <<[name |-> "dns-site"]>>]
SomeConfigs == {NoRules, ManyRules, NameTwice}

Connect == [kind |-> "guest_connect", proc |-> p1, by |-> "own", peer |-> "x", net |-> "n", port |-> 22, proto |-> "tcp",
            what |-> "", builtin |-> FALSE, policy |-> "none"]
SomeEvents ==
  {Connect,
   [Connect EXCEPT !.kind = "tcp_connect"],
   [Connect EXCEPT !.kind = "guest_flow", !.proto = "udp"],
   [Connect EXCEPT !.kind = "guest_inbound"],
   [Connect EXCEPT !.kind = "guest_inbound", !.peer = "y"],
   [Connect EXCEPT !.proc = p2, !.policy = "enforce"],
   [Connect EXCEPT !.kind = "guest_dns", !.what = "site", !.policy = "audit"],
   [Connect EXCEPT !.kind = "guest_tls", !.what = "site", !.peer = "y", !.policy = "audit"],
   [Connect EXCEPT !.kind = "exec", !.by = "child", !.what = "sh"],
   [Connect EXCEPT !.kind = "exec", !.by = "child", !.what = "helper"],
   [Connect EXCEPT !.kind = "vmm_open", !.by = "child", !.what = "shadow"],
   [Connect EXCEPT !.kind = "vmm_call", !.what = "flood"]}

AllDestinations == [i \in 1..2 |-> "destination"]
SomeOptions ==
  {[learn |-> 1, maxItems |-> 1, maxAge |-> 2, maxAlerts |-> 1, kinds |-> {"destination", "inbound-peer"}],
   [learn |-> 2, maxItems |-> 2, maxAge |-> 2, maxAlerts |-> 2, kinds |-> {"destination"}]}

allVars == <<runs, agVars, baseVars>>

Init ==
  /\ runs \in {"agent", "baselines"}
  /\ AgInit /\ BaseInit
  /\ runs # "agent" =>
       /\ world = CHOOSE w \in Worlds : TRUE
       /\ proc = [p \in Procs |-> "new"] /\ cfg = NoRules
  /\ runs # "baselines" => opts = CHOOSE o \in OptionSets : TRUE

Next ==
  \/ runs = "agent" /\ AgNext /\ UNCHANGED <<runs, baseVars>>
  \/ runs = "baselines" /\ BaseNext /\ UNCHANGED <<runs, agVars>>

\* The daemon keeps refreshing.
Spec == Init /\ [][Next]_allVars /\ WF_allVars(runs = "agent" /\ Refreshes /\ UNCHANGED <<runs, baseVars>>)
=============================================================================
