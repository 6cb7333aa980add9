# TLA+ verification of gecit

gecit desynchronises DPI boxes: before a TLS connection sends its ClientHello, a
fake ClientHello with a small hop limit is put on the wire. It also points the
system resolver at a DoH resolver of its own. On Linux the work is done by an
eBPF `sock_ops` program and a user-space manager, on macOS and Windows by a TUN
device and one goroutine per connection. A macOS app drives the binary through a
root helper daemon.

What makes this code hard to test is time: kernel callbacks run between the steps
of `Start` and `Stop`, events are consumed after the fact, handlers run while the
engine is taken down under them, and the process may be killed while the system's
DNS points at a port that dies with it. The project models that.

## Inventory

| Part (source) | State | Operations | Interacts by |
|---|---|---|---|
| fake hop limit (`pkg/tun/fakettl.go`, `pkg/rawsock/rawsock.go`) | none | `fakeTTL`, header byte | value passed to `SendFake` |
| sock_ops program (`pkg/ebpf/bpf`) | maps `gecit_config`, `target_ports`, `exclude_ips`, `connections` (LRU), perf ring; the sockets' MSS and callback flags | established, write-header-option callbacks | maps and ring shared with the manager |
| eBPF manager (`pkg/ebpf/manager.go`, `config.go`) | stage of Start/Stop, reader goroutine, raw socket, link | Start, Stop, UpdateEnabled, readEvents, injectFake | maps, ring, wait group |
| Linux engine (`cmd/gecit/app/run_linux.go`, `pkg/dns/system_linux.go`) | `/etc/resolv.conf`, port 53 | Start, Stop | file and port shared by processes and DHCP clients |
| TUN handler (`pkg/tun/handler.go`) | one goroutine per connection | NewConnectionEx, injectAndForward | raw socket, tracker, Stop |
| seq/ack tracker, capture (`pkg/seqtrack`, `pkg/capture`) | map local port -> event, global pointer | Store, WaitForSeqAck, SetSeqTracker | callback from the pcap goroutine |
| pipe and UDP relay (`pkg/tun/handler.go`) | two goroutines, their deadlines | copy, expire | deadlines of shared connections |
| macOS resolver (`pkg/dns/system_darwin.go`, `cleanup_darwin.go`) | servers of the service, breadcrumb file, `savedDNS` | SetSystemDNS, RestoreSystemDNS, cleanup | breadcrumb survives the process |
| TUN manager (`pkg/tun/manager.go`) | devices, monitors, raw socket | Start, Stop | order of closing |
| Windows resolver (`pkg/dns/system_windows.go`, `cleanup_windows.go`) | server of every interface, breadcrumb file, `savedInterface` | SetSystemDNS, RestoreSystemDNS, cleanup | breadcrumb survives the process; the connected interface changes |
| DNS server and DoH client (`pkg/dns/server.go`, `doh.go`) | one goroutine per query, upstream URLs | handleQuery, Resolve, Start, Stop | the system resolver may ask this server on its behalf |
| macOS helper daemon and app (`apps/macos`) | command, pid and status files, displayed state | poll loop, start, stop; buttons, refresh | files written by two processes; signals to the engine |
| raw sockets, IPv6 injector, SNI parser, checksum | none the rest depends on | | see "Not modelled" |

Hard behaviours, each listed in PROJECT.json under `hazards` at its line: the callback
that would raise a lowered MSS is not run, and eviction and detaching would strand
sockets even if it were; the program is live before its exclusions are; the raw socket
may close under a sender; a SYN-ACK may be lost, repeated, or belong to the previous user
of a local port or to its user in the other address family; the tracker pointer is
read twice; two goroutines set the same deadline; a file is truncated before it is
written; a crash is followed by another run instead of a cleanup, maybe on another
network interface; a lookup waits for itself; an engine is killed while it restores
what its successor will read.

## Modules

| Module | Models | Actions correspond to |
|---|---|---|
| `FakeTtl` | `fakeTTL`, the byte conversion, a SYN-ACK and a fake crossing routers | capture of the SYN-ACK, `SendFake`, router hops |
| `SockOps` | the kernel program and its maps | one action per callback; the socket lock makes a callback one step |
| `EbpfManager` (extends `SockOps`) | the manager | one action per map update or resource acquired or released, `readEvents`, `injectFake`, crash |
| `ResolvConf` | the two rewrites of `/etc/resolv.conf` as functions on sets of lines | `SetSystemDNS`, `RestoreSystemDNS` text |
| `LinuxEngine` (extends `ResolvConf`) | processes around the file and the port | read, truncate and write are separate steps, each may fail or be the last |
| `Desync` | the abstract promise: a burst of fakes, or giving up after an error, before the real ClientHello | Fake, GiveUp, Real |
| `TunFlow` | handlers, capture, tracker, `tunEngine.Stop` | one action per blocking call or shared access |
| `Pipe` | the two copying goroutines of `pipe` and of the UDP relay | arm, read, write, expire (TCP only); deadlines in ticks |
| `DarwinEngine` | resolver, breadcrumb, cleanup on macOS | one action per command or file access |
| `HelperDaemon` (extends `DarwinEngine`) | the macOS app, the daemon's script and the engine as three processes | one action per file access, signal or command of the script; the engine's actions are `DarwinEngine`'s, its cleanup the script's `"$BINARY" cleanup` |
| `WindowsDns` | resolver, breadcrumb, cleanup on Windows, over several interfaces | one action per command or file access |
| `DnsServer` | queries over the upstreams, lookups of their names through the server itself, Shutdown | dial, lookup, request, time-out of each handler |
| `MC*` | instances for TLC | |
| `*Proofs` | theorems about the module they extend | |

`TunFlow` implements `Desync` (`ImplementsDesync == Promise!Spec`, with
`Promise == INSTANCE Desync WITH ...`). `HelperDaemon` implements `DarwinEngine`, whose
variables it keeps (`ImplementsEngine == Spec`). `PipeEnds` of `TunFlow` is
what `Pipe` details, `MgrStart` of `LinuxEngine` and `DarwinEngine` the outcome of
what `EbpfManager` and `TunFlow` detail, `TakeOver` of `DnsServer` the outcome of what
the three resolver modules detail.

Definitions named after a defect (`...NoWait`, `...Early`, `...DropsServers`) are
not part of the specification: each is a plausible mistake in the definition that
follows it, and shows that the property named in PROJECT.json would notice it.

## Abstractions

* Sockets, ports, addresses, servers and events are model values. An event is named
  by the connection whose SYN-ACK it is; its numbers are those and no others.
* `sent` and `bytesSent` count `skb_len`, the unit the program counts in. The kernel
  asks the programs of the cgroup how much option space a segment needs and runs the
  write callback only if some was reserved. `handle_hdr_opt_len` reserves none, so the
  program is called for a segment only if another `sock_ops` program of the cgroup
  reserved space for it: the constant `Neighbour` says whether there is one, and which
  segments it does so for is left open.
* The counter and the threshold are taken modulo `CounterMod` (2^32 in the code), the
  threshold from any int, as `pushConfig` casts it.
* `remote_ip4` of an IPv6 socket is no address (`Zero`). The constant `ExcludeMap` says
  whether the BPF object has an `exclude_ips` map; the embedded one has.
* `reader.Read` may fail at any time; the failure is not told apart from others.
* History variables (`sent`, `broken`, `faults`, `orig`, `cleaned`, `silent`)
  record what happened for the properties and guard nothing in the code's steps.
* `LinuxEngine` and `DarwinEngine` model runs with DoH enabled; a run without it does
  not touch the resolver. A resolv.conf is the sets of its live nameserver lines,
  saved lines and other lines, as the code treats each line on its own.
* `networksetup` refuses a list with a word that is not an address and changes
  nothing; what follows the word `empty` may be refused or ignored, so both are
  explored. Cleanup's own well-formed requests are taken to succeed; requests of a
  run may fail. mDNSResponder keeps no state the properties speak of.
* The capture may miss any SYN-ACK and repeat it up to `MaxCopies` times. The kernel
  does not give two open sockets of one address family the same local port; an IPv4 and
  an IPv6 socket may have it both.
* `HelperDaemon`: `cleanup` is handled as `stop` and is not told apart from it; a start
  has arguments `sanitize_start_args` takes or rejects. A daemon that dies takes the
  engine with it, because the launchd property list does not set AbandonProcessGroup.
  The pid in the file is the engine's, nobody's or another process's. The user does not
  change the resolver's configuration here (`DarwinEngine` has that).
* `WindowsDns`: an interface's configuration is DHCP or its first static server, which
  is all `getCurrentDNS` keeps; what DHCP gives an interface does not change. The user
  reconfigures an interface only while gecit is not running.
* `DnsServer`: an upstream has a name or an address; `good` ones have an address and
  answer in time, all others may answer, fail, send something else or nothing. Of two
  concurrent lookups of one name Go's resolver makes one. A query that cannot be packed
  is not modelled. `dns.Server.Shutdown` waits for the handlers (library).
* A panic, SIGKILL, power loss and a signal before `signal.Notify` are one action,
  `Crash`, possible between any two steps.

## Runs

| Run | Question | Bounds |
|---|---|---|
| `fake_ttl` | does the computed hop limit die in time on every path within the margin, and not long before | initial hop limits 64, 128, 255; configured values from negative and zero to more than a byte holds; path lengths on both sides of every boundary |
| `ebpf` | does any order of callbacks, Start, Stop, pause, crash fake an upstream or a socket twice, raise an MSS too early, leak or use a closed resource; does Stop end, is the ring drained | a web socket, one to an upstream over IPv4 and one over IPv6, a neighbour, one map entry, one ring slot; the web socket sends up to 5 bytes in segments of 1 and 2, threshold 2, counter modulus 4: eviction, ring overflow, both sides of the threshold and the counter's wrap occur. The others send nothing, as the counters of sockets do not interact |
| `linux` | is the file restored, served, recoverable | two processes, six files, every access may fail or be the last |
| `tun_flow` | do fakes precede the hello, with the connection's own numbers or those of a dead connection or of the other family on its port, does a handler only go forward, and is a hello ever held up by a lost SYN-ACK | a TLS and a plain connection over IPv4 and a DoH connection over IPv6 on two ports, two copies, ring of two, two fakes |
| `pipe` | do both goroutines end, in particular when both sides fall silent, along a measure once one has ended; is nothing written after teardown; does a relay between healthy peers end by silence only | an idle timeout of three ticks |
| `darwin` | are servers given back, does cleanup unstrand | DHCP, one and two servers |
| `helper` | does the engine under the daemon stay one of `DarwinEngine`, is there one at a time, does a stop end with the resolver given back, does the display follow | a user with one server; any number of commands, kills of daemon and engine, reused pids |
| `windows` | is an interface at 127.0.0.1 ever forgotten, a first server ever lost, does one recovery suffice | two interfaces, one with and one without a server from DHCP, two servers |
| `dns` | is every query answered, does one good upstream suffice, does Stop return | two upstreams given by name before one given by address, good or not; one application query and the two lookups it may cause (with two application queries the properties hold too, in some four minutes) |

Two fakes instead of three, two ports, and thresholds of a few bytes keep every
distinction the guards make (less, equal, greater; free, taken, reused). The
theorems remove the bounds for the safety properties.

The runs expected to be violated state what a comment says and the code does not do;
`findings` in PROJECT.json quotes each line:

* `tun_stop_panic`: the nil tracker between two reads ends the process before DNS is
  restored.
* `mss_restored`: without a neighbour (`Neighbour = FALSE`, otherwise the instance of
  `ebpf`) the write callback never runs and a socket past `restore_after_bytes` keeps the
  small MSS. The theorem `NoWayBack` says so of every instance: no MSS is ever raised.
* `darwin_rerun`: the breadcrumb of a crashed run is misread by the next run, which
  then saves 127.0.0.1 as the servers to restore.

## Observations

Limits of the code met while modelling, each visible in the model and stated by no run:

* `FakeDiesOnPath` needs a router before the server: `fakeTTL` returns at least 1
  (`pkg/tun/fakettl.go:41`), so a server on the local link gets the fake.
* On Linux the fake races the real ClientHello: `injectFake` runs when `readEvents`
  gets to the record and nothing holds the socket back meanwhile.
* Where the write callback does run, the MSS is restored after `restore_after_bytes`,
  whatever the length of the hello. Segments no space was reserved for are not counted, a
  threshold close to 2^32 may be passed over when the counter wraps, and `Stop`, a pause, a
  crash or an eviction leave sockets with the small MSS: `MssRestored` does not hold with a
  neighbour either, only `RestoredOnlyPastThreshold` does.
* An IPv6 upstream is not excluded (`pkg/ebpf/config.go:59-62`, `remote_ip4` in
  `sockops.bpf.c:37`), although `run_linux.go` collects the addresses of all upstreams: its
  connections get the small MSS, and their events an address that is none. Neither is any
  upstream with a BPF object that has no `exclude_ips` map.
* `readEvents` returns on any error of `Read` (`pkg/ebpf/manager.go:170-178`): from then on
  the engine lowers the MSS and sends no fake, and nobody notices (`failed` in
  `EventsDrained`).
* `gecit cleanup` changes nothing on Linux.
* A rerun after a crash on Linux loses the original servers: `SetSystemDNS` drops every
  line that starts with `# gecit` (`pkg/dns/system_linux.go:26`), the saved lines of the
  crashed run included, although its comment says they survive a crash.
  `OriginalsSurviveCrash` holds until that rerun and is stated so; the theorem
  `RerunLosesServers` shows the loss for every file.
* `GetSeqAck` "returns the real TCP seq/ack for a connection"
  (`pkg/seqtrack/seqtracker_darwin.go:56`), but the tracker's key is the local port alone. It
  may return the event a closed connection on the same port never consumed, or, as the TUN
  and the capture carry both address families, that of a connection of the other family,
  which may be open and then misses it; `NoCrosstalk` says that these are the only wrong ones.
* The reader goroutine of the UDP relay ends after 30 s without a reply while the other
  one goes on as long as the application sends: later replies are not delivered.
* Two peers of a TCP connection that both stop reading keep both goroutines in `Write`,
  which has no deadline (`BothBlocked` in `QuietEnds`).
* On Windows, a server DHCP gave is listed like a static one, so that a run leaves it
  behind as static; `FirstServerKept` speaks of the server that is asked, not of how it
  is configured. Further servers of a list are lost.
* A failed `netsh` in the restore at the start of a run is ignored and the breadcrumb
  overwritten: that interface stays at 127.0.0.1 (the fault `failed`). A breadcrumb cut
  short makes cleanup set "Ethernet" to DHCP, whichever interface was meant.
* `NewDoHClient` looks names up "before gecit takes over system DNS" (`pkg/dns/doh.go:54`);
  when that fails, for instance because a killed run has left the system at 127.0.0.1,
  the client is used anyway and every dial asks this server for the name.
* A body with status 200 that is not DNS (a captive portal) is an answer to the fallback
  resolver; the query fails without another upstream being tried (`bad` in `GoodSuffices`).
* `ipQueue` (`pkg/dns/server.go:141`) grows by every address of every answer that is not
  connected to afterwards.
* The helper daemon loses a command written between its read and its truncation of the
  file; it does not report that an engine died by itself (`Poll` writes only while one
  runs); it signals whatever process has the pid in the file.
* `pipe` says "if no data flows for idleTimeout, close both sides"
  (`pkg/tun/handler.go:189`), but each goroutine looks at its own direction: a download of
  more than five minutes on which the application sends nothing is cut while data flows.
  `EndedBySilence` is what holds: one of the two directions was silent.
* `cleanup` on macOS takes the second of two servers in the breadcrumb for the network
  service, so `CleanupRestoresOne` is stated for at most one server; for every longer list
  the outcome is DHCP (`CleanupManyToDhcp`).
* The restore at the start of a run on macOS changes nothing for any list of servers, not
  only in the instance of `darwin_rerun` (`RestoreFirstRefused`).
* `FakeTravelsFar` needs a return path of less than 64 routers: from there on the hop limit
  that arrives may look like one of a smaller initial value.

## Fairness

* `EbpfManager`: weak fairness of the goroutine in Start or Stop and of `readEvents`.
  They block only in `reader.Read` (ended by `Close`) and `wg.Wait`; the kernel's
  callbacks and crashes get none.
* `TunFlow`: weak fairness of each handler's steps (dial, read and the tracker's wait
  all have deadlines) and of Stop once it was called; none for new connections, the
  capture, the peers or the end of a pipe.
* `Pipe`: time passes and a goroutine that can run is run; a blocked write can fail
  only after its deadline, and a UDP write does not block. Nothing is assumed of the
  application or the server.
* `HelperDaemon`: weak fairness of the daemon's script, which blocks in nothing but
  `sleep` and commands that end, and of the app's refresh timer; none for the engine, the
  user, launchd's kills or pids.
* `DnsServer`: weak fairness of a handler's dial, of its time-out, of the answer of a good
  upstream, and of Shutdown's wait; none for the other upstreams and for lookups.

Deadlock checking is off only for `TunFlow` and `DnsServer`, where the process ends.

## Proofs

All theorems are about the same definitions TLC checks, for every value of the
constants that satisfies the named assumptions.

* `FakeTtlProofs`: `FakeDiesSafe`, `FakeTravelsSafe`. The invariant ties the hop limit left
  to the routers crossed; arithmetic on the three initial values closes the gap between
  the guessed and the real distance, from above and from below.
* `EbpfManagerProofs`: `IInv` says what a map entry implies (`EntryInv`: small MSS,
  callback flag, and a count that is at most the bytes sent, as segments are missed and
  the counter wraps), which resources exist at which stage (`StageInv`), and that an open
  ring has all exclusions there can be (`RingInv`). None of the run's invariants is
  inductive without it: `RestoredOnlyPastThreshold` needs the bound on the count,
  `ExcludedNeverFaked` needs the stage at which the ring is opened. `FakeInv` adds that an
  event is in one place only (the ring, the goroutine's hands, or sent), which gives
  `FakeWarranted`. `NoWayBack` is the general form of the finding `mss_restored`.
* `LinuxEngineProofs`: mutual exclusion by the port, then what the buffer of the
  process that holds it says of the file, give `FileRestored`, `LoopbackServed` and
  `OriginalsSurviveCrash` for any number of processes and any files. `RestoreUndoesSet` is
  the fact about the two rewrites that a run rests on.
* `TunFlowProofs`: an event in the ring or the map belongs to a connection that was
  dialled from that port, and open connections of a family do not share ports; so an event
  taken from the own port is the own one, a closed connection's or one of the other family
  (`CrosstalkSafe`).
  `Refinement` shows every step is a step of `Desync` or leaves its variables alone.
* `PipeProofs`: while a goroutine reads from a connection nobody expired, ticks left and
  ticks of silence make up the timeout (`Accounted`), and only a goroutine that has left its
  loop expires one (`ExpiredBy`): hence `SilenceSafe`. `TeardownSafe` and `EndsInFive` are
  action properties, for any idle timeout.
* `MacosProofs`, about `DarwinEngine`: the servers and the breadcrumb at each step of a run
  without faults (`RunInv`), what a killed process leaves until the next run (`CrashInv`:
  the user's breadcrumb, or, once cleanup has used it, a single server restored), and that
  what cleanup left stays until then (`CleanInv`). `RunRestores`, `LoopbackServed`,
  `CleanupUnstrands` and `CleanupRestoresOne` follow for server lists of any length.
* `MacosProofs`, about `HelperDaemon`: the engine is the process the pid file names except
  just after the fork (`Tracked`), none is alive at the steps of the daemon that rely on it
  (`Quiet`), and the status file says "starting" before the fork and cleanup has been run
  before a stop is reported (`Reports`). None of
  `NoSecondEngine`, `StopUnstrands` and `StoppedMeansOff` is inductive alone: all the daemon
  knows of an engine is a pid. With `HInv` every step of the three processes is a step of
  `DarwinEngine` or leaves it alone (`HelperRefinement`), so that the engine's theorems hold
  under the daemon (`PromisesKept`) and `StopUnstrands` follows from `CleanupUnstrands` and
  `CleanupRestoresOne` instead of being proved again.
* `WindowsDnsProofs`: between two commands of `SetSystemDNS` no interface is at 127.0.0.1,
  and from the write of the breadcrumb to the restore it names this run's interface
  (`Steps`); a breadcrumb is true of the interface it names (`CrumbOwn`); without faults
  there is one only within a run (`CrumbWithinRun`). With these, `NoneForgotten`,
  `FirstServerKept`, `RunRestores` and the action property `RecoveredAtOnce` hold for any
  interfaces, servers and leases.
* `DnsServerProofs`: no query has gone past a good upstream, and a query that waits for a
  lookup is at an upstream without an address, which is not good (`NotPast`); hence
  `GoodSuffices` for any list of upstreams.

Liveness (`StopCompletes`, `EventsDrained`, `HelloNotHeldUp`, `BothEnd`, `QuietEnds`,
`StopHeeded`, `StoppingNotForEver`, `QueryEnds`, `ShutdownEnds`) is only model-checked:
fairness and ENABLED are out of the prover's reach. What can be proved of it is that the
process in question only goes forward, along a measure that bounds its steps, whatever the
others do; that it takes those steps is the fairness TLC uses.

| Liveness | Its safety half | Measure |
|---|---|---|
| `StopCompletes` | `StopBounded` | the stages of Stop, two steps of the goroutine |
| `HelloNotHeldUp` | `HelloSteps` (`HelloForward`, which the run checks too) | six steps and the fakes left |
| `BothEnd` | `EndsInFive` (`EndingOnly`, which the run checks too) | five steps, once nothing can be written |
| `QueryEnds` | `EndsInThreeEach` | three steps for each upstream left |
| `ShutdownEnds` | `ShutdownDrains`, with `EndsInThreeEach` | no handler is added |
| `StopHeeded` | `StopInSix` | the steps of `stop_gecit` |

Every invariant and every action property of the passing runs is stated by a theorem. The type
invariants are proved in every module (`TypeCorrect`, `HelperTypeCorrect`); TLC checks
`DarwinEngine`'s, which says what a breadcrumb looks like.

## Not modelled

Left out, with the reason:

* the start-up of the TUN manager: what a failed `Start` leaves open goes with the
  process, which ends right after it; devices and routes belong to the sing-tun library;
* the SNI parser and the queue of domain labels: they name connections in log lines;
* packet layout, checksum and the neighbour lookup: functions of bytes without a state
  that another part reads;
* routes left on Windows and their deletion by cleanup: no other part reads them;
* user interface, installer scripts, flag parsing, log output, the vendored BPF headers
  and generated `vmlinux` headers.
