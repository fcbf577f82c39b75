------------------------------ MODULE Startup ------------------------------
(***************************************************************************)
(* From the start of the program to its running workers (src/bin.rs,       *)
(* src/cmd, src/conf): a configuration is taken from the environment, or   *)
(* from the command line and the file or directory it names; global        *)
(* options go down to the endpoints, the command line overrides; then      *)
(* everything is built and every endpoint gets its workers.                *)
(*                                                                         *)
(* A document is what a file or the environment variable holds:            *)
(*   [form |-> "conf", log, dns, network, endpoints]   (toml or json)      *)
(*   [form |-> "legacy", laddrs, lports, raddrs, rports]                   *)
(*   [form |-> "bad"]                                                      *)
(* lports and rports are sequences of ranges <<first, last>>.              *)
(***************************************************************************)
EXTENDS Conf, FiniteSets

CONSTANTS Environments,     \* sets of at most one document, {} if unset
          CommandLines,
          Directories,      \* sequences of documents; a file is one of length 1
          PortNumbers,      \* how many port numbers there are, 2^16
          OverflowChecks    \* the build's: BOOLEAN or one of the two

\* What the parsers make of a file and of the arguments: structures of optional
\* fields, lists, numbers of 16 bits and the names the parsers know.
IsFunction(f) == f = [x \in DOMAIN f |-> f[x]]

IsEndpoint(e) ==
  /\ IsFunction(e)
  /\ DOMAIN e = {"listen", "remotes", "balance", "weights", "probe_targets", "network"}
  /\ IsFunction(e.network)

Port == 0 .. PortNumbers - 1

IsDocument(d) ==
  \/ d.form = "bad"
  \/ /\ d.form = "conf"
     /\ {"log", "dns", "network", "endpoints"} \subseteq DOMAIN d
     /\ IsFunction(d.network)
     /\ d.endpoints \in Seq(Range(d.endpoints))
     /\ \A e \in Range(d.endpoints) : IsEndpoint(e)
  \/ /\ d.form = "legacy"
     /\ d.laddrs \in Seq(Range(d.laddrs)) /\ d.raddrs \in Seq(Range(d.raddrs))
     /\ d.lports \in Seq(Port \X Port) /\ d.rports \in Seq(Port \X Port)

IsCommandLine(c) ==
  /\ c.flags \subseteq Flags
  /\ DOMAIN c.options \subseteq EndpointOptions \cup GlobalOptions

ASSUME StartupAssumption ==
  /\ PortNumbers \in Nat
  /\ OverflowChecks \subseteq BOOLEAN
  /\ \A e \in Environments : \A d \in e : IsDocument(d) /\ e = {d}
  /\ \A ds \in Directories : /\ ds \in Seq(Range(ds))
                            /\ \A d \in Range(ds) : IsDocument(d)
  /\ \A c \in CommandLines : IsCommandLine(c)

VARIABLES env, cl, dir,     \* what the program finds
          checked,          \* does the build check for overflow?
          pc,
          todo,             \* documents of the directory not read yet
          conf,             \* FullConf, as far as it is made
          process,          \* daemon, limits and pipe size
          set,              \* the logger and the resolver that are set up
          built,            \* the endpoints built so far
          workers           \* the tasks spawned, in order

inputs == <<env, cl, dir, checked>>
vars   == <<inputs, pc, todo, conf, process, set, built, workers>>

EmptyConf == [log |-> <<>>, dns |-> <<>>, network |-> <<>>, endpoints |-> <<>>]

DefaultProcess == [daemon |-> FALSE, nofile |-> "kept", pipe |-> 16]

Init == /\ env \in Environments /\ cl \in CommandLines /\ dir \in Directories
        /\ checked \in OverflowChecks
        /\ pc = "environment"
        /\ todo = {}
        /\ conf = EmptyConf
        /\ process = DefaultProcess
        /\ set = <<>>
        /\ built = <<>>
        /\ workers = <<>>

GoTo(label) == pc' = label

-----------------------------------------------------------------------------
(* A legacy file: ports are u16, and the bound of a range is last + 1.     *)
(* A mutant of PastLast: the bound itself. *)
PastLastIsLast(r) == r[2]

PastLast(r) == (r[2] + 1) % PortNumbers

PortRange(r) == [i \in 1 .. PastLast(r) - r[1] |-> r[1] + i - 1]

FlattenPorts(ranges) == FlattenSeq([i \in DOMAIN ranges |-> PortRange(ranges[i])])

(* A list that is too short is padded with its first element. *)
Nth(s, i) == IF i <= Len(s) THEN s[i] ELSE s[1]

JoinAddrPort(addrs, ports, len) ==
  [i \in 1 .. len |-> <<Nth(addrs, i), Nth(ports, i)>>]

LegacyPanics(d) ==
  \/ \E r \in Range(d.lports) \cup Range(d.rports) : checked /\ r[2] + 1 = PortNumbers
  \/ <<>> \in {d.laddrs, d.raddrs, FlattenPorts(d.lports), FlattenPorts(d.rports)}

FromLegacy(d) ==
  LET ports  == FlattenPorts(d.lports)
      listen == JoinAddrPort(d.laddrs, ports, Len(ports))
      remote == JoinAddrPort(d.raddrs, FlattenPorts(d.rports), Len(ports))
  IN  [EmptyConf EXCEPT !.endpoints = [i \in DOMAIN ports |-> Endpoint(listen[i], remote[i])]]

Panics(d) == d.form = "legacy" /\ LegacyPanics(d)

FromConfStr(d) == IF d.form = "legacy" THEN FromLegacy(d) ELSE Given(d, DOMAIN EmptyConf)

-----------------------------------------------------------------------------
(* main(): a configuration in the environment that parses is all there is. *)
Environment ==
  /\ pc = "environment"
  /\ \/ /\ \E d \in env : /\ d.form # "bad" /\ ~Panics(d)
                          /\ conf' = FromConfStr(d)
        /\ GoTo("setup")
     \/ /\ \E d \in env : Panics(d)
        /\ GoTo("panicked")
        /\ UNCHANGED conf
     \/ /\ \A d \in env : d.form = "bad"
        /\ GoTo("scan")
        /\ UNCHANGED conf
  /\ UNCHANGED <<inputs, todo, process, set, built, workers>>

(* handle_matches(), first the effects on the process. *)
Limits ==
  [daemon |-> "daemon" \in cl.flags,
   nofile |-> IF "nofile" \notin DOMAIN cl.options THEN "bumped"
              ELSE IF Parsed(cl, "nofile") THEN "set" ELSE "kept",
   pipe   |-> IF Parsed(cl, "pipe_page") THEN cl.options["pipe_page"] ELSE 16]

Exits == \/ "help" \in cl.flags
         \/ "version" \in cl.flags
         \/ cl.flags = {} /\ DOMAIN cl.options = {} /\ cl.sub = {}

(* scan(): print and leave, convert and leave, or handle_matches().        *)
Scan ==
  /\ pc = "scan"
  /\ \/ /\ Exits \/ cl.sub # {}
        /\ IF ~Exits /\ \E d \in cl.sub : d.form # "legacy" \/ Panics(d)
             THEN GoTo("panicked") ELSE GoTo("exited")
        /\ UNCHANGED <<todo, conf, process>>
     \/ /\ ~Exits /\ cl.sub = {}
        /\ process' = Limits
        /\ \/ /\ "config" \in DOMAIN cl.options
              /\ todo' = DOMAIN dir
              /\ GoTo("read")
              /\ UNCHANGED conf
           \/ /\ "config" \notin DOMAIN cl.options
              /\ {"local", "remote"} \subseteq DOMAIN cl.options
              /\ conf' = [conf EXCEPT !.endpoints = Append(@, CmdEndpoint(cl))]
              /\ GoTo("globals")
              /\ UNCHANGED todo
           \/ /\ "config" \notin DOMAIN cl.options
              /\ ~({"local", "remote"} \subseteq DOMAIN cl.options)
              /\ GoTo("exited")
              /\ UNCHANGED <<todo, conf>>
  /\ UNCHANGED <<inputs, set, built, workers>>

(* take_fields(): what earlier files say stays. *)
TakeFields(c, d) ==
  [log |-> c.log ++ d.log, dns |-> c.dns ++ d.dns, network |-> c.network ++ d.network,
   endpoints |-> c.endpoints \o d.endpoints]

(* from_conf_file(): the files of a directory come in any order.           *)
ReadFile ==
  /\ pc = "read"
  /\ \E i \in todo :
       \/ /\ dir[i].form = "bad" \/ Panics(dir[i])
          /\ GoTo("panicked")
          /\ UNCHANGED <<todo, conf>>
       \/ /\ dir[i].form # "bad" /\ ~Panics(dir[i])
          /\ todo' = todo \ {i}
          /\ conf' = TakeFields(conf, FromConfStr(dir[i]))
          /\ UNCHANGED pc
  /\ UNCHANGED <<inputs, process, set, built, workers>>

ReadAll == /\ pc = "read"
           /\ todo = {}
           /\ GoTo("globals")
           /\ UNCHANGED <<inputs, todo, conf, process, set, built, workers>>

(* Give every endpoint's network options the change f. *)
OnNetworks(c, f(_)) ==
  [c EXCEPT !.endpoints =
     [i \in DOMAIN c.endpoints |->
        [c.endpoints[i] EXCEPT !.network = f(c.endpoints[i].network)]]]

(* A mutant of ApplyGlobalOpts: global options override. *)
ApplyGlobalOptsFirst == /\ pc = "globals"
                        /\ conf' = OnNetworks(conf, LAMBDA n : conf.network ++ n)
                        /\ GoTo("options")
                        /\ UNCHANGED <<inputs, todo, process, set, built, workers>>

ApplyGlobalOpts == /\ pc = "globals"
                   /\ conf' = OnNetworks(conf, LAMBDA n : n ++ conf.network)
                   /\ GoTo("options")
                   /\ UNCHANGED <<inputs, todo, process, set, built, workers>>

ApplyCmdOpts ==
  /\ pc = "options"
  /\ conf' = [OnNetworks(conf, LAMBDA n : CmdNet(cl) ++ n)
                EXCEPT !.log = CmdLog(cl) ++ @, !.dns = CmdDns(cl) ++ @]
  /\ GoTo("setup")
  /\ UNCHANGED <<inputs, todo, process, set, built, workers>>

(* start_from_conf(): the logger, the resolver, each endpoint, then run(). *)
SetUp ==
  /\ pc = "setup"
  /\ \/ /\ BuildLog(conf.log).output # Bad /\ ~DnsPanics(conf.dns)
        /\ set' = [log |-> BuildLog(conf.log), dns |-> BuildDns(conf.dns)]
        /\ GoTo("build")
     \/ /\ BuildLog(conf.log).output = Bad \/ DnsPanics(conf.dns)
        /\ GoTo("panicked")
        /\ UNCHANGED set
  /\ UNCHANGED <<inputs, todo, conf, process, built, workers>>

(* A mutant of Build: an endpoint that cannot be built is left out.        *)
BuildOrSkip ==
  /\ pc = "build"
  /\ built' = [i \in DOMAIN SelectSeq(conf.endpoints, LAMBDA e : ~BuildPanics(e)) |->
                 BuildEndpoint(SelectSeq(conf.endpoints, LAMBDA e : ~BuildPanics(e))[i])]
  /\ GoTo("run")
  /\ UNCHANGED <<inputs, todo, conf, process, set, workers>>

Build ==
  /\ pc = "build"
  /\ \/ /\ \E i \in DOMAIN conf.endpoints : BuildPanics(conf.endpoints[i])
        /\ GoTo("panicked")
        /\ UNCHANGED built
     \/ /\ \A i \in DOMAIN conf.endpoints : ~BuildPanics(conf.endpoints[i])
        /\ built' = [i \in DOMAIN conf.endpoints |-> BuildEndpoint(conf.endpoints[i])]
        /\ GoTo("run")
  /\ UNCHANGED <<inputs, todo, conf, process, set, workers>>

Spawned(i) == (IF built[i].net.use_udp THEN <<<<"udp", i>>>> ELSE <<>>)
              \o (IF built[i].net.no_tcp THEN <<>> ELSE <<<<"tcp", i>>>>)

Run == /\ pc = "run"
       /\ workers' = FlattenSeq([i \in DOMAIN built |-> Spawned(i)])
       /\ GoTo("running")
       /\ UNCHANGED <<inputs, todo, conf, process, set, built>>

Next == \/ Environment \/ Scan \/ ReadFile \/ ReadAll \/ ApplyGlobalOpts \/ ApplyCmdOpts
        \/ SetUp \/ Build \/ Run

Spec == Init /\ [][Next]_vars

-----------------------------------------------------------------------------
(* The documents the running configuration comes from. *)
FromEnvironment == {d \in env : d.form # "bad"}
Sources == IF FromEnvironment # {} THEN FromEnvironment
           ELSE IF "config" \in DOMAIN cl.options THEN Range(dir) ELSE {}

Confs    == {d \in Sources : d.form = "conf"}
Legacies == {d \in Sources : d.form = "legacy"}

(* What the user of the command line says of a network field, going by the *)
(* names of the flags and options, and what the files may say for it.      *)
Says(f) ==
  IF FromEnvironment # {} THEN <<>>
  ELSE IF f \in {"send_mptcp", "accept_mptcp"}
    THEN [g \in {h \in {f} : "use_mptcp" \in cl.flags} |-> TRUE]
    ELSE [g \in {h \in {f} : h \in cl.flags} |-> TRUE]
         ++ [g \in {h \in {f} : Parsed(cl, h)} |-> cl.options[f]]

Globals(f) ==
  LET files == {d \in Confs : f \in DOMAIN d.network}
  IN  IF FromEnvironment # {} \/ files = {} THEN {<<>>}
      ELSE {Given(d.network, {f}) : d \in files}

(* Whatever files a directory holds and in whatever order they come, each  *)
(* network option of each endpoint is the command line's word, else the    *)
(* endpoint's own, else that of one file's global section, the same for    *)
(* all endpoints, else the default (conf/mod.rs:37-43, :151-175); but a    *)
(* configuration from the environment knows only the endpoint's own word,  *)
(* as the code has it (bin.rs:26-30).  The probe count is left out, as its *)
(* option is not read (net.rs:298), and so is the endpoint of a command    *)
(* line, which has no word of its own.                                     *)
Precedence ==
  pc = "running" =>
    \A f \in NetFields \ {"tcp_keepalive_probe"} :
      \E global \in Globals(f) :
        \A d \in Confs : \A j \in DOMAIN d.endpoints :
          \E i \in DOMAIN built :
            /\ built[i].listen = d.endpoints[j].listen
            /\ Given(built[i].net, {f}) =
                 Says(f) ++ Given(d.endpoints[j].network, {f}) ++ global
                 ++ Given(NetDefaults, {f})

(* Nothing runs in part: a worker runs only if every document could be     *)
(* read and every endpoint in any of them could be built, and then each    *)
(* has the workers its options ask for (bin.rs:63-69, :126-150).  What     *)
(* becomes of a worker, a listener that cannot be bound say, comes later.  *)
AllOrNothing ==
  workers # <<>> =>
    /\ \A d \in Sources : d.form # "bad"
    /\ \A d \in Confs : \A j \in DOMAIN d.endpoints :
         \E i \in DOMAIN built :
           /\ built[i].listen = d.endpoints[j].listen
           /\ <<"udp", i>> \in Range(workers) <=> built[i].net.use_udp
           /\ <<"tcp", i>> \in Range(workers) <=> ~built[i].net.no_tcp

(* A legacy file is served port by port: every listening port gets one     *)
(* endpoint, with a remote out of the file's lists; the ports of a range   *)
(* that ends at the last port number may be lost, as the bound of the      *)
(* range wraps around in a build without overflow checks                   *)
(* (conf/legacy/mod.rs:24-33, :50-93).                                     *)
LegacyServed ==
  pc = "running" =>
    \A d \in Legacies : \A r \in Range(d.lports) : \A port \in r[1] .. r[2] :
      r[2] + 1 < PortNumbers =>
        \E i \in DOMAIN built :
          /\ built[i].listen[2] = port
          /\ built[i].listen[1] \in Range(d.laddrs)
          /\ built[i].remotes[1][1] \in Range(d.raddrs)
          /\ \E s \in Range(d.rports) : built[i].remotes[1][2] \in s[1] .. s[2]
=============================================================================
