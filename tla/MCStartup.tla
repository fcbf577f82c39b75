----------------------------- MODULE MCStartup -----------------------------
(* A handful of files, environments and command lines for Startup.          *)
EXTENDS Startup

Plain(n) == [Endpoint(<<"here", n>>, <<"there", n>>) EXCEPT !.remotes = Append(@, "other")]

Balanced(n, net) ==
  [Plain(n) EXCEPT !.balance = "roundrobin", !.weights = <<4, Bad, 1>>, !.network = net]

File(log, dns, network, endpoints) ==
  [form |-> "conf", log |-> log, dns |-> dns, network |-> network, endpoints |-> endpoints]

Files ==
  {File(<<>>, [min_ttl |-> 60], [use_udp |-> TRUE, tcp_timeout |-> 7, max_fails |-> 1],
        <<Balanced(1, [tcp_timeout |-> 9, fail_timeout |-> 20]), Plain(2)>>),
   File([level |-> "warn"], [nameservers |-> {"ns"}, protocol |-> "tcp"],
        [tcp_timeout |-> 8, tcp_keepalive |-> 20, probe_interval |-> 4],
        <<Balanced(3, [no_tcp |-> TRUE, use_udp |-> FALSE])>>),
   File(<<>>, <<>>, <<>>, <<[Plain(4) EXCEPT !.remotes = <<Bad>>]>>),
   File(<<>>, <<>>, <<>>, <<Plain(6), [Plain(7) EXCEPT !.probe_targets = <<"there", Bad>>]>>),
   File([output |-> Bad], [nameservers |-> {Bad}], <<>>, <<Plain(5)>>),
   [form |-> "bad"]}

Legacy(lports, rports) ==
  [form |-> "legacy", laddrs |-> <<"here">>, lports |-> lports,
   raddrs |-> <<"there", "other">>, rports |-> rports]

LegacyFiles == {Legacy(<<<<1, 3>>, <<5, 5>>>>, <<<<2, 3>>>>),
                Legacy(<<<<2, 2>>, <<6, 7>>>>, <<<<1, 1>>>>),
                Legacy(<<<<7, 7>>>>, <<<<1, 1>>>>)}

MCEnvironments == {{}} \cup {{d} : d \in Files \cup LegacyFiles}

MCDirectories == {<<d>> : d \in Files \cup LegacyFiles}
                 \cup {<<d, e>> : d, e \in Files \cup {Legacy(<<<<6, 6>>>>, <<<<2, 3>>>>)}}

Extras == [tcp_keepalive |-> 30, tcp_timeout |-> Bad, dns_mode |-> Bad, log_level |-> "info",
           pipe_page |-> 4]

MCCommandLines ==
  {[flags |-> fs, options |-> os ++ Given(Extras, DOMAIN Extras \ skip), sub |-> {}] :
     fs \in SUBSET {"use_udp", "no_tcp", "use_mptcp"},
     os \in {<<>>, [config |-> "path"], [local |-> <<"here", 9>>, remote |-> "there"]},
     skip \in {DOMAIN Extras, {}, {"tcp_keepalive", "log_level"}}}
  \cup {[flags |-> {"help"}, options |-> <<>>, sub |-> {}],
        [flags |-> {"version", "daemon"}, options |-> [nofile |-> Bad], sub |-> {}]}
  \cup {[flags |-> {}, options |-> <<>>, sub |-> {d}] : d \in LegacyFiles \cup {[form |-> "bad"]}}
=============================================================================
