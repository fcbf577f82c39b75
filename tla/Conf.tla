-------------------------------- MODULE Conf --------------------------------
(***************************************************************************)
(* The configuration values of bytehub (src/conf, src/cmd): what a file or *)
(* a command line says, how two of them combine and what is built of them. *)
(*                                                                         *)
(* A structure of optional fields is a function on the fields that are     *)
(* Some, so `a ++ b' reads "a's fields, b's where a has none".  Numbers,   *)
(* names and paths stay themselves, Bad is any text that does not parse,   *)
(* Library a default of the resolver library.                              *)
(* A command line is [flags, options, sub]: the set of flags given, a      *)
(* function on the options given, and the legacy file of `convert'.        *)
(***************************************************************************)
EXTENDS Integers, Sequences, SequencesExt

CONSTANTS Bad, Library

\* What a structure says, and where it says nothing another one (rst!, take!,
\* conf/mod.rs:177-196).
f ++ g == [x \in DOMAIN f \cup DOMAIN g |-> IF x \in DOMAIN f THEN f[x] ELSE g[x]]

Given(f, S) == [x \in S \cap DOMAIN f |-> f[x]]

-----------------------------------------------------------------------------
(* What clap accepts. *)
Flags == {"help", "version", "daemon", "use_udp", "use_mptcp", "no_tcp", "ipv6_only",
          "fast_open", "zero_copy"}

EndpointOptions == {"config", "local", "remote", "through", "interface",
                    "listen_interface", "listen_transport", "remote_transport"}

GlobalOptions ==
  {"nofile", "pipe_page", "pre_conn_hook", "log_level", "log_output", "dns_mode",
   "dns_min_ttl", "dns_max_ttl", "dns_cache_size", "dns_protocol", "dns_servers",
   "send_proxy", "send_proxy_version", "accept_proxy", "accept_proxy_timeout",
   "tcp_timeout", "udp_timeout", "tcp_keepalive", "tcp_keepalive_probe"}

(* An option that is given and parses; .ok() forgets those that do not.    *)
Parsed(cl, o) == o \in DOMAIN cl.options /\ cl.options[o] # Bad

-----------------------------------------------------------------------------
(* NetConf *)
NetFields ==
  {"no_tcp", "use_udp", "ipv6_only", "send_mptcp", "accept_mptcp", "send_proxy",
   "accept_proxy", "send_proxy_version", "accept_proxy_timeout", "tcp_keepalive",
   "tcp_keepalive_probe", "tcp_timeout", "udp_timeout", "max_fails", "fail_timeout",
   "max_latency", "probe_interval", "probe_unhealthy_interval", "probe_timeout",
   "pool_min_idle"}

(* The defaults of build(); fields without one stay optional.              *)
NetDefaults ==
  [no_tcp |-> FALSE, use_udp |-> FALSE, ipv6_only |-> FALSE, send_mptcp |-> FALSE,
   accept_mptcp |-> FALSE, send_proxy |-> FALSE, accept_proxy |-> FALSE,
   send_proxy_version |-> 2, accept_proxy_timeout |-> 5, tcp_keepalive |-> 15,
   tcp_keepalive_probe |-> 3, tcp_timeout |-> 5, udp_timeout |-> 30]

(* from_cmd_args: the flag or option each field is read from.  The probe   *)
(* count is read from the keepalive interval.                              *)
NetFlag == [no_tcp |-> "no_tcp", use_udp |-> "use_udp", ipv6_only |-> "ipv6_only",
            send_mptcp |-> "use_mptcp", accept_mptcp |-> "use_mptcp"]

NetOption ==
  [tcp_keepalive |-> "tcp_keepalive", tcp_keepalive_probe |-> "tcp_keepalive",
   tcp_timeout |-> "tcp_timeout", udp_timeout |-> "udp_timeout",
   send_proxy |-> "send_proxy", send_proxy_version |-> "send_proxy_version",
   accept_proxy |-> "accept_proxy", accept_proxy_timeout |-> "accept_proxy_timeout"]

CmdNet(cl) ==
  [f \in {g \in DOMAIN NetFlag : NetFlag[g] \in cl.flags} |-> TRUE]
  ++ [f \in {g \in DOMAIN NetOption : Parsed(cl, NetOption[g])} |->
        cl.options[NetOption[f]]]

BuildNet(net) == net ++ NetDefaults

-----------------------------------------------------------------------------
(* LogConf *)
LogLevels == {"off", "error", "warn", "info", "debug", "trace"}

LogDefaults == [level |-> "off", output |-> "stdout"]

(* An unknown level on the command line counts as the default one.         *)
OrDefault(value, known, default) == IF value \in known THEN value ELSE default

CmdLog(cl) ==
  LET given == [level |-> "log_level", output |-> "log_output"]
  IN  [f \in {g \in DOMAIN given : given[g] \in DOMAIN cl.options} |->
         LET v == cl.options[given[f]]
         IN  IF f = "level" THEN OrDefault(v, LogLevels, "off") ELSE v]

BuildLog(log) == log ++ LogDefaults

-----------------------------------------------------------------------------
(* DnsConf *)
DnsModes == {"ipv4_only", "ipv6_only", "ipv4_and_ipv6", "ipv4_then_ipv6", "ipv6_then_ipv4"}

DnsProtocols == {"tcp", "udp", "tcp_and_udp"}

DnsOptFields == {"mode", "min_ttl", "max_ttl", "cache_size"}

DnsDefaults == [mode |-> Library, cache_size |-> Library]

CmdDns(cl) ==
  LET given == [mode |-> "dns_mode", min_ttl |-> "dns_min_ttl", max_ttl |-> "dns_max_ttl",
                cache_size |-> "dns_cache_size", protocol |-> "dns_protocol",
                nameservers |-> "dns_servers"]
      ignored(f) == f \in {"min_ttl", "max_ttl", "cache_size"} /\ ~Parsed(cl, given[f])
  IN  [f \in {g \in DOMAIN given : given[g] \in DOMAIN cl.options /\ ~ignored(g)} |->
         LET v == cl.options[given[f]]
         IN  CASE f = "mode"     -> OrDefault(v, DnsModes, "ipv4_and_ipv6")
               [] f = "protocol" -> OrDefault(v, DnsProtocols, "tcp_and_udp")
               [] OTHER          -> v]

Protocols(p) == IF p = "tcp_and_udp" THEN {"tcp", "udp"} ELSE {p}

(* build() followed by build_lazy(): options given replace all those of    *)
(* the system's resolver, not only the ones they name; likewise servers.   *)
BuildDns(dns) ==
  LET protocol == (dns ++ [protocol |-> "tcp_and_udp"]).protocol
      servers  == (dns ++ [nameservers |-> {"system"}]).nameservers
  IN  [opts    |-> IF DOMAIN dns \cap DnsOptFields = {} THEN {}
                   ELSE {Given(dns, DnsOptFields) ++ DnsDefaults},
       servers |-> servers \X Protocols(protocol)]

DnsPanics(dns) == "nameservers" \in DOMAIN dns /\ Bad \in dns.nameservers

-----------------------------------------------------------------------------
(* EndpointConf: fields that are only passed on are left out.  `remotes'   *)
(* is remote with extra_remotes behind it.                                 *)
Endpoint(listen, remote) ==
  [listen |-> listen, remotes |-> <<remote>>, balance |-> "none", weights |-> <<>>,
   probe_targets |-> <<>>, network |-> <<>>]

CmdEndpoint(cl) == Endpoint(cl.options["local"], cl.options["remote"])

(* build_local, build_remote (also of the probe's targets) and the         *)
(* strategy's name unwrap or panic.                                        *)
BuildPanics(ep) == \/ ep.listen = Bad
                   \/ Bad \in Range(ep.remotes) \cup Range(ep.probe_targets)
                   \/ ep.balance = Bad

(* build_balancer: a health check takes both limits; a weight that is not  *)
(* a number is dropped and the later ones move up.                         *)
HealthCheck(net) ==
  IF {"max_fails", "fail_timeout"} \subseteq DOMAIN net
    THEN {Given(net, {"max_fails", "fail_timeout", "max_latency"})} ELSE {}

Balancer(ep) ==
  IF ep.balance = "none" THEN [strategy |-> "off", weights |-> <<>>, health |-> {}]
  ELSE [strategy |-> ep.balance,
        weights  |-> SelectSeq(ep.weights, LAMBDA w : w # Bad),
        health   |-> IF ep.balance = "off" THEN {} ELSE HealthCheck(ep.network)]

Larger(a, b) == IF a >= b THEN a ELSE b

(* The active probe: on once an interval is given. *)
Probe(net) ==
  IF "probe_interval" \notin DOMAIN net THEN {}
  ELSE {[interval  |-> net.probe_interval,
         unhealthy |-> (net ++ [probe_unhealthy_interval |->
                                  Larger(net.probe_interval \div 2, 3)]).probe_unhealthy_interval,
         timeout   |-> (net ++ [probe_timeout |-> 3000]).probe_timeout,
         max_fails |-> (net ++ [max_fails |-> 2]).max_fails]}

BuildEndpoint(ep) ==
  [listen  |-> ep.listen, remotes |-> ep.remotes, net |-> BuildNet(ep.network),
   balancer |-> Balancer(ep), probe |-> Probe(ep.network), probe_targets |-> ep.probe_targets,
   min_idle |-> (ep.network ++ [pool_min_idle |-> 64]).pool_min_idle]
=============================================================================
