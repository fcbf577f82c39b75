# Formal models of the relay

This directory holds TLA+ models of the relay in this repository, the TLC
configurations that check them on small instances, and TLAPS proofs of what
can be shown for every instance. `PROJECT.json` lists the components, the runs,
the source lines each definition stands for, the hazards and the theorems.

## The system

The program reads its configuration, listens on endpoints and relays each TCP
connection, or each UDP client, to a remote peer chosen by a load balancer and
watched by passive health checks. The parts, the state they keep, and how they
meet:

| part | state | operations | meets |
|---|---|---|---|
| configuration (`src/conf`) | optional fields per section | parse, merge, build | start-up |
| command line and start-up (`src/bin.rs`, `src/cmd`) | the configuration as far as it is made; process limits | `main`, `scan`, `handle_matches`, `start_from_conf`, `run` | configuration, both endpoints |
| round-robin balancer (`bytehub_lb/src/round_robin.rs`) | per peer: current and effective weight, failure count, start of the exclusion window; one mutex | `next`, `on_success`, `on_failure` | called by every connection task |
| consistent-hash balancer (`ip_hash.rs`) | per peer: two atomics; a constant ring of virtual nodes | the same | the same, without a lock |
| balancer dispatch (`balancer.rs`, `lib.rs`) | none | forwards to the strategy; `Off` hands out token 0 | `tcp/middle.rs` |
| TCP endpoint (`tcp/mod.rs`, `tcp/socket.rs`) | a task per connection, a warm-up task, the frame of `run_tcp` | accept loop, `connect` | all of the below |
| connection control (`tcp/middle.rs`) | per connection: tokens tried, the reserve stream; timers of a running relay | `connect_and_relay`, `try_connect_with_fallback`, `relay_plain_timed` | balancer, pool, socket, copy |
| connection pool (`tcp/pool.rs`) | per peer: idle connections with their age | pop, push, warm-up cycle | connection control |
| PROXY protocol (`tcp/proxy.rs`) | none: it takes from and writes to the streams | `handle_proxy` | connection control |
| obfuscation (`bidi_copy.rs`, `mem_copy.rs`) | cipher state, first chunk | head exchange with a time-out | copy |
| bidirectional copy (`bytehub_io/src/{buf,bidi_copy,mem_copy}.rs`, `linux/zero_copy.rs`) | per direction: buffer positions, phase; registered wakers | `poll_copy`, `transfer`, `BidiCopy::poll` | two streams |
| UDP association (`udp/middle.rs`, `udp/sockmap.rs`, `udp/mod.rs`) | map client to socket under a lock; a task per socket | `associate_and_relay`, `send_back`, `find_or_insert`, `remove` | UDP batching, DNS |
| UDP batching (`udp/batched.rs`, `udp/middle.rs`, `linux/mmsg.rs`) | an array of packets, ranges of it | `recv_some`, `send_all`, `group_by_inner` | UDP association |
| the rest: transport, hooks, peek buffer, probe, statistics, resolver, system calls | see `PROJECT.json` | | |

What is hard in it: connection tasks report outcomes to a shared balancer in
any order, and act on tokens, streams and clock values they obtained earlier;
the hash balancer's two counters per peer are not updated together; retries
and fallbacks must end, and end well; a pool is counted, dialled for and filled
under separate locks while tasks empty it; two relays in a row must agree on
what is a header, what is disguise and what is data, although timers on either
side may cut the handshake at any byte; the copy must never sleep through work
nor let an end of stream overtake a byte, whatever the sizes of reads, writes
and flushes; UDP tasks come and go around a map that is looked up and changed
under separate locks; four sources of configuration overlap, and the files of a
directory come in any order. The hazards in `PROJECT.json` name each at its line.

## The modules

The component modules, then those that compose them. `MC*` modules hold weights,
rings, files and symmetry sets for TLC. Operators whose comment calls them a
mutant are not part of the models: each is a plausible slip in the definition
that follows it, and shows that the property it is paired with in
`PROJECT.json` can fail.

**RoundRobin** is the balancer with its mutex: `next()` is `NextPeer` when some
peer is eligible and `NextFallback` when all are excluded, `on_success` and
`on_failure` are one action each, and `Tick` lets a second pass. The time an
exclusion window still has to run, `left`, stands for the absolute `checked`
stamp; it stops falling one lag below zero (`Past`), where every comparison the
code makes has the same answer. The code reads the clock before it takes the
lock, so each call of `next` sees time up to `MaxLag` seconds late.
**RoundRobinShare** adds a history variable, the picks of each peer during a
stretch in which all are healthy at full weight; every history of failures and
recoveries comes before such a stretch. It is the specification the run checks.

**IpHash** is the lock-free balancer, one action per atomic load or store, so
any interleaving of threads is explored. The ring is a constant: where a call
starts on it is arbitrary. **IpHashCalls** watches the calls of one thread,
whichever it is: the peers that were below the limit, and those that were out of
their window, all through its call.

**Failover** is the connection task of `try_connect_with_fallback` and the
reports of `connect_and_relay`: pick, dial, refuse / too slow / connected,
next peer, reserve or error, relay, end. An attempt has three exits without a
relay: no peer is left (`"failed"`), the peer reached has already reset its
stream (`"reset"`, `middle.rs:195`), or the client is gone; a relay that fails at
its PROXY header ends without a report. It leaves the balancer open.
**BalancedFailover** conjoins it with the balancers, the way `Balancer`
dispatches to the one configured: with round robin a call is one step under the
mutex, with the hash balancer the call's own steps interleave with every other
task, and `Off` answers 0 and ignores reports. Which strategy it is, is chosen
initially. Peers change speed, die and return at any time; with a pool a
connection may lead to a peer that is gone.

**TcpEndpoint** is `run_tcp` with the tasks it spawns and the pool. A dialer,
be it a connection's task or the warm-up task, goes through the addresses of a
name one by one (`Connect`). An idle connection is its age; one that the peer
has closed counts as old, since both are dropped at the same place. The warm-up
task counts, dials and pushes in separate steps: it holds the lock only for the
first and the last. `Return` leaves the tasks running, and the warm-up task
too: dropping a cancellation token cancels nothing.

**Tunnel** is a client, two relays in a row and a server, from the moment the
streams are there. A stream is a sequence of items: data, PROXY headers, heads,
junk, an end or a reset; what has gone through the cipher is marked, and twice
is clear again. Each relay takes or passes over a header, sends one, reads its
first chunk or has the timer fire first, writes head, junk and chunk as one,
takes its partner's head or takes it for a probe, copies, and reports to its
balancer; `heard` is `first_byte_us`. The deadline may fire whenever the code
allows it. An ending relay drops both streams, and the neighbour then sees an
end or, where something had been left unread, a reset. Keys, tags and lengths
are abstracted to whether a head is genuine, and to a number of junk items
that both sides derive from the head.

**BidiCopy** is the copy: both directions of `BidiCopy::poll`, one step per
read, write, flush or shutdown. A poll that returns Pending records the
interests it registered, and the sleeping task is polled again only when one
of those is ready. Writers may hold bytes until flushed (TLS, WebSocket) and
receivers have a bounded window. **ByteStreams** is the abstract promise: two
byte streams, in order and complete, closed behind their last byte; `BidiCopy`
implements it under the mapping given at its end. The variable `brutal`, fixed
at the start, is the build feature. Tunnel's copy, one item at a time, relies on
this promise.

**UdpRelay** is one endpoint's forwarding task and its relayer tasks around the
socket map. `find_or_insert` is three steps, as in the code: look-up under the
read lock, making of the socket and start of its relayer without a lock, and
insertion under the write lock. Packets are numbered as they arrive; an answer
has its packet's number. `Send` and `Return` are one packet each, so that a
partial `sendmmsg` followed by an error is an interleaving like any other. The
socket buffers lose nothing here, and strangers do not send to the associated
sockets. The groups of a batch are the sets `From(c)` of one client's packets, in
any order: that is what `GroupByAddr` promises (`GroupsServeClients`).

**GroupByAddr** is `group_by_inner`, one action per turn of a loop. Its behaviour
is `GroupSpec`, so that proofs can speak of it and of `UdpRelay` at once.

**Conf** holds the values: what an option is read from, how two structures of
optional fields combine (`f ++ g`: the first's fields, then the second's), what
is built from them and when building panics. **Startup** is the program around
it: environment, command line, file or directory, global options, overrides,
logger and resolver, endpoints, workers. A document is already parsed; text
that does not parse is the value `Bad`.

**RoundRobinProofs**, **IpHashProofs**, **FailoverProofs**,
**TcpEndpointProofs**, **TunnelProofs**, **BidiCopyProofs**, **UdpProofs** (of
`UdpRelay` and `GroupByAddr`) and **StartupProofs** hold the proofs.

## The runs

| run | instance | shows |
|---|---|---|
| `round_robin` | weights 3, 2, 1; two failures, two seconds, lag one; stretches of twelve picks | types; current weights sum to zero and stay within the largest weight for each other peer; windows open only at the limit and are never extended by failures; nobody is readmitted early; the pick is the healthiest; an excluded peer is offered traffic again; calm shares are fair but for what was owed at their ends |
| `ip_hash_calls` | three threads, two peers, two virtual nodes, a window and a call of a second | a walk never passes over a peer that was below the limit, or out of its window, all through the call |
| `balanced_failover` | two connections (one with the hash balancer), two peers of weights 2, 1, two slow times, pool, health check, all three strategies | no client is turned away without a stream in hand while a peer was reachable; outcomes are booked on the peer behind the stream; the reserve is the fastest; an attempt ends once no other goes on beside it |
| `ip_hash_stuck` | one connection, no health check | **violated**: every retry gets the same dead peer |
| `endpoint_pool` | two peers, one with two addresses, a pool of two wanting one or three, a token without a pool | never too many; a task dials only if nothing healthy was there, and takes the newest healthy connection; the pool of a peer that stays up is refilled while `run_tcp` accepts |
| `endpoint_refs` | one connection | **violated**: tasks outlive the frame their pointers lead to |
| `tunnel` | six configurations, one chunk up, two down, junk of zero or one | what arrives is what was sent; the server is told the right client; agreeing relays never take each other for probes nor wait for each other for ever; a peer that served is not blamed |
| `late_relay` | one configuration: a latency limit at the first relay | **violated**: a relay that waits for its peer is aborted |
| `bidi_copy` | three bytes a side, buffers of two, one byte held, window of one, both builds | implements `ByteStreams`; bytes and closes are passed on without waiting for more |
| `udp_relay` | two clients, three packets, batches of two | see below |
| `group_by_addr` | all batches of up to six packets of three addresses | a permutation into one uniform, non-empty run per address, each address once |
| `config` | six files, three legacy files, pairs of them, eight environments and unset, 36 command lines to start from and a few that leave | each network option of each endpoint comes from where it should; all endpoints run or none; a legacy file is served port by port |

The bounds are the smallest at which every case of the code occurs: weights that
differ; windows that open, expire and are reopened within one run; a stretch of
two rounds; batches that leave packets behind; streams longer than a buffer, so
that it is filled again; a pool that is to hold less, and more, than fits; first
chunks that catch none, some or all of what was sent; two actors wherever they
race, and three threads at the hash balancer: one walks while a failure and a
success of the same peer are being reported, each in two stores. That run leaves
out what the unwatched threads picked (`VIEW`), which nothing reads. In
`balanced_failover` one connection uses the hash balancer, whose interleavings
are `ip_hash_calls`'s. In `config` port numbers end at 7, so that a range ends
there; in a pair of files every order is explored. In `endpoint_pool` only
tokens 0 and 2 are handed out, so that one peer is contended and the other left
to the warm-up task. Runs that may stop (bounded packets or bytes, a loop or a
program that ends) switch off the deadlock check, the others keep it.

`udp_relay` checks that a relayer that has not finished is the one its client's
entry leads to (so that removing by address removes the right entry), that an
association is never replaced by another, that answers go home, that every
packet is taken off the listener whatever fails, and that without traffic the
map empties. Its one exception is a race in the code: the relayer is spawned
before its socket is inserted. If the inserting thread is held up for longer
than the time-out, or the relayer's first receive fails, the relayer removes an
entry that is not there yet and the insertion leaves a socket nobody reads from,
for good: every later packet of that client goes through it and no answer
returns. `early` marks those sockets; `NoDeadAssociation` says this is the only
way to get one.

### What the violated runs say

* `ip_hash_stuck`: `middle.rs:205` counts distinct tokens, and without a health
  configuration the hash balancer never returns another one: the retry loop does
  not end. The round-robin balancer has the milder form of the same: with other
  connections taking the other picks, an attempt may draw the dead peer again
  each time.
* `endpoint_refs`: `run_tcp` gives the tasks raw pointers into its own frame and
  returns on an error of `accept` or of setting keepalive (`tcp/mod.rs:93-96`,
  `:104`) while they run. `trick.rs:11` says the memory must outlive them.
* `late_relay`: the documentation of `relay_plain_timed` (`middle.rs:231-237`)
  says a relay that exceeds `max_latency_ms` is not killed, and the comment at
  `:417-418` has it complete; `:277-292` drops it and returns `TimedOut`. With
  `Deadline` taken out of `Next` the property holds of the same instance.
  `ServiceNotBlamed` speaks of relays that were served, which a late one is not.

### What was seen on the way

These are no runs of their own; the models have the code's behaviour.

* `net.rs:298` reads the number of keepalive probes from the option for the
  interval; the option for the number (`flag.rs:235`) has no effect.
  `Precedence` leaves that field out.
* A configuration from the environment skips the global section and the command
  line (`bin.rs:26-30`). `Precedence` has it as the code does, and so
  would not find it wrong. It leaves out the endpoint a command line describes by
  itself.
* `legacy/mod.rs:28` computes the bound of a port range in `u16`: a range that
  ends at 65535 is lost, or a panic where overflow is checked. `LegacyServed`
  excludes it.
* `endpoint.rs:120-124`: a weight that is not a number is dropped and the later
  ones move up to the wrong peers.
* `middle.rs:195` asks the stream it has just made, or taken from the pool, for
  its peer's address. If the peer has reset it meanwhile, the attempt ends there
  with an error: nothing is reported, no other peer is tried, a slow stream in
  reserve is dropped. Since it is an argument of `log::info!`, this happens only
  where that level is logged. `NoNeedlessFailure` excepts it: it speaks of
  attempts that end without a stream in hand.
* A client that resets, or closes before it was answered, gets the peer blamed.
* `tcp/mod.rs:131` says the warm-up task leaves with the endpoint, and
  `pool.rs:281` that cancelling the token stops it; but dropping a token cancels
  nothing, so that the task and its pool stay for good. The model has it so;
  `Refilled` asks nothing of it once the endpoint is gone. It also counts idle
  connections as the warm-up task does, dead ones included (`pool.rs:329`):
  that a task gets none of those is `PopHonest`.
* `pool.rs:171-200` and `:230-275` have no caller; the documentation of
  `pool_min_idle` says 128 where the code has 64.
* `accept_proxy_timeout` 0 waits for ever; in `Tunnel` the wait may end at any
  time.
* `round_robin.rs` keeps weights and their total in `i16`: 128 peers of weight
  255 fit. `WidthAssumption` bounds the peers accordingly, and the models' weights
  are integers.
* `udp/socket.rs:47-50` and `conf/endpoint.rs:94-105`: with `through` an address
  *and* a port, the sockets of all clients are bound to that one address
  (`SO_REUSEADDR`), and which of them gets an answer is up to the kernel.
  `UdpRelay` has sockets with a port of their own, and `RepliesGoHome` speaks of
  those.
* `round_robin.rs:187` sets the effective weight to one, also where the
  configured weight is zero: a peer meant to get nothing gets picked. `EwBounds`
  states the bound as it is.
* `ip_hash.rs:126-129` acts on an expired window in two later stores, which may
  wipe out an exclusion another thread has just made. `:164` moves the window
  with every failure while the peer is excluded; round robin does not.
* `ip_hash.rs:119-122` loads the failure count and the window one after the
  other, and `:150-151`, `:162-167` store them one after the other. A walk that
  sees the count before a success and the window after a late failure passes over
  a peer that was at no moment excluded, and the window such a failure leaves
  behind outlives the count. `Affinity` therefore speaks of each half separately.
* `ip_hash.rs:78` hashes virtual nodes without their token.

### Fairness

A task that can run is run again (the runtime polls woken tasks): weak fairness
of each task's steps. Time passes: weak fairness of `Tick`. In `RoundRobinShare`
connections keep arriving, as an excluded peer is only readmitted by a call. In
`BalancedFailover` each task goes on selecting and dialling, and time passes;
`AttemptEnds` further supposes, for each connection, that the others do not go
on selecting and dialling for ever, as their picks could leave it with the same
peer each time. `MCSpec` states this fairness in a form that is quick to check:
a task that selects or dials can always do so, except with the hash balancer, of
which `AttemptEnds` asks nothing. In `TcpEndpoint` the warm-up task's steps are
fair, its dials included, as they end by their time-out; nothing is assumed of
the tasks nor of the network. In `Tunnel` the relays go on while they can, in
both directions of their copy (each poll tries both), and the client and the
server take what comes; they need not speak, and no deadline need pass: the
first chunk's timer is the one that is relied on. In `BidiCopy` the endpoints
consume what they are sent; they need not send nor close. In `UdpRelay` timers
fire and sockets become writable; nothing has to fail, to be sent or to be
answered. No fairness is assumed of failures or recoveries.

## The proofs

All are for every value of the constants, from the named assumptions on them.

* **RoundRobinProofs.** The inductive invariant is `TypeOK`, `ZeroSum`,
  `WindowBehindFailures`, `EwBounds` and `Even`: conservation needs integers to
  sum, a window's length says something only next to the failures that opened
  it, and the bound of a single weight (`CwBounded`) needs one for every *set*
  of peers: a set of s peers is together owed at most `MaxWeight * s * (N - s)`.
  A pick keeps that for each set, whether the peer that pays is in it or not;
  for one peer, and for all but one, it is the bound. (That no weight leaves
  plus or minus the *total* weight, as one may think, is false: with weights 8,
  1, 1, 1 exclusions in the right order break it.) `FairShare` follows: over a
  calm stretch, what a peer was picked beyond its share is the change of its
  current weight. The proofs do not use `WidthAssumption`: they are of integers,
  and of the code while its `i16` sums do not overflow. `NoEarlyReadmission`
  follows action by action: neither a call of `next` nor a failure, of whichever
  peer, ends a window. The sums over any number of peers need induction over a
  *set* of naturals, which is derived from the well-foundedness of `<`.
* **UdpProofs.** For every batch size and any addresses, the grouping stays in
  bounds, is a permutation, and each range is uniform and non-empty and starts
  where the last ended. The strengthening says that what is behind `beg` is
  finished, what lies between `beg` and `end` has the address at `beg`, and what
  lies between `end` and `probe` has not. `GroupsServeClients` joins it to the
  relay: groups lie one behind another, so no two overlap, and swaps keep the
  batch one-to-one, hence onto; so each client's packets are the members of
  exactly one group.

  For any number of clients, packets and batches: types, `Registered`,
  `NeverReplaced`, `RepliesGoHome` and `NoDeadAssociation`. The types need a
  count: every socket is made for a group that has left the batch, so there are
  never more sockets than packets taken. The map needs to be known with its
  surroundings: each entry leads to a socket of that client, and between look-up
  and insertion the client has no entry, so that the one relayer that may then
  remove nothing is the one about to be inserted. That answers go home follows a
  packet through group, socket buffer and relayer.
* **IpHashProofs.** For any ring, any number of threads and calls of any length:
  types and `Affinity`. The invariant says that no virtual node the walk has
  passed belongs to a peer that was well so far, and that a thread between its
  two loads stands at a peer that was at the limit at least once. One lemma
  covers every step that leaves the watched thread where it is; the history can
  only shorten.
* **FailoverProofs.** For any number of connections, peers and tokens, under
  each strategy: types, `NoNeedlessFailure`, `BlameFollowsStream`,
  `ReserveIsFastest`. The connections are proved against a balancer that may
  answer anything it has a token for (`ConnStep`); every step of the composition
  is such a step or leaves the connections alone, for which the hash balancer's
  walks must be known to stay on the ring. A client is turned away without a
  stream in hand only when as many distinct tokens have failed as there are,
  hence all of them; and a peer that was up all along is behind none of those.
  `RoundRobinServes` and `HashServes` go the other way: seen from the balancer
  the composition is `RoundRobin`'s, or `IpHash`'s, `Spec`. Each step is one of
  the balancer's or leaves it alone, since a task that dials, relays or reports
  has one of its tokens (`Armed`). So the balancer's own invariants hold under
  the connections too, for any constants that meet its assumptions.
* **TcpEndpointProofs.** For any number of tasks, peers and addresses and any
  sizes and times: types, `PoolBounded`, `PopHonest`. The pool is pushed to
  under its size check alone, so boundedness needs no more than types; those
  need each dialer's place, that a task between two dials is back at the first
  address, and that the warm-up task dials only while something is wanted. That
  a pop takes the *newest* healthy connection is an induction over positions.
* **BidiCopyProofs.** For buffers, streams and windows of any size and writers
  that hold back any amount: types, and that both builds implement
  `ByteStreams`. The invariant says of each direction that what it has read is
  what it has written and what its buffer holds, that a direction past its last
  read has seen the end of its stream, and past its last flush has nothing held
  back. Every step is then a step of `ByteStreams` or leaves its two streams
  alone.
* **TunnelProofs.** For every configuration in which the relays agree, any
  number of chunks and any lengths of junk: types, `TunnelIntact`,
  `ProperHeaders` and `ServiceNotBlamed`. The configuration and the length of
  the junk fix what each link carries from its first item to its last (`Ideal`):
  header, head, junk, then the chunks, enciphered or not. The invariant says
  that there are numbers, for each link how many of those items its writer has
  written and its reader has taken, with which the link holds just what lies
  between, perhaps with an end behind it, or nothing of it once a reset has
  thrown it away (`Holds`); that the place of a relay determines the numbers on
  its four links (`Placed`); that nobody has passed on more than was sent
  (`Supply`, `Behind`); and that a relay which has blamed its peer had passed on
  less than there was (`Excused`). The numbers are in no variable: each action
  has a lemma that gives them for the next state. What C sends to a relay that
  has failed is left out, as nobody reads it. The properties then compare
  numbers. A link that was reset carries nothing any more, so that
  `TunnelIntact` holds through resets as well.
* **StartupProofs.** For any files in any order, with any number of endpoints,
  any environment and command line: `AllOrNothing`, `LegacyServed`,
  `Precedence`. The assumption is on the shape of what the parsers hand over
  (`IsDocument`, `IsCommandLine`), not on what it says. The invariant `StartInv`
  follows the documents through the start-up: none of those read is bad or
  panics (`DocsInv`); each of their endpoints is in the configuration, with what
  the phases so far have made of its options (`KeptInv`); a global option is
  what one file has said, or absent if none has (`GlobalInv`); and what is built
  and run is the whole of the configuration (`BuiltInv`). Merging is associative
  with the empty structure as unit, which carries an option through three
  merges; which endpoint a port of a legacy file becomes needs to know where the
  concatenation of its ranges puts it.

Only model-checked: the liveness properties (`Readmitted`, `AttemptEnds`,
`Refilled`, the two `Delivered`, `CloseAnswered`, `AllTaken`, `Cleared`,
`AnswersReturn`), as the prover has neither ENABLED nor reasoning under
fairness. Every invariant and every action property of a passing run is also a
theorem. What a recursive definition computes cannot be proved by induction over
data, since the library's induction theorems take an operator as parameter;
`NatSetInduction` goes around that for sets of naturals. No module with proofs
uses a RECURSIVE operator, for which the prover has no backend.

## Not modelled

* `DownstreamHealth` (`bytehub_lb/src/health.rs`), the peek buffer and the
  statistics stream: nothing outside their own tests uses them.
* The active probe: its caller is commented out (`tcp/mod.rs:56-61`). How its
  configuration is built is in `Conf`.
* Hooks: a C symbol of a library loaded at run time decides.
* `IpHash::new`: where virtual nodes fall depends on hash values; the models
  take any ring.
* TLS and WebSocket handshakes, the encoding of PROXY headers, the resolver and
  the parsing of options: in external crates.
* The restart of a relay after `splice` has failed with `InvalidInput`
  (`plain.rs:34-48`): which errors it returns, and when, is the kernel's business.
* Memory layout of `mmsghdr`, socket options, daemonizing and limits: system calls.
* Binding of listeners: a worker that cannot bind panics by itself, after
  `AllOrNothing` has been decided.
* Clients that share one local UDP address (see above).
* Log output and the text formats of configuration files.

## Plan

Larger instances: `tunnel` with three relays, `balanced_failover` with three
peers under one strategy at a time.
