# BlueEye agent: a verification project

The BlueEye agent is a long-running Node.js process on a customer's host. It
measures (interfaces, flows, probes, SNMP devices, transaction tests), listens
(sFlow, NetFlow, syslog, SNMP traps), and reports to a server over HTTPS and one
WebSocket, from which it also takes commands, among them the one that replaces
the agent itself. This directory holds TLA+ specifications of its core, the TLC
configurations that model-check them on small instances, and proofs that TLAPS
checks for every value of the constants.

The program is single-threaded (the Go rewrite, which has goroutines, apart): one
callback runs at a time and everything between two `await`s is atomic. What is hard to test is therefore what happens
*between* callbacks: two calls of one function in progress, an answer that
arrives after the state it was asked about has changed, a timer that fires
during an await, a process that dies between two writes to disk. An action of
these models is, unless said otherwise, everything one callback does up to its
next `await`.

Paths below are relative to the repository's own `src/` directory.

1. [Inventory](#1-inventory)
2. [The modules and how they follow the code](#2-the-modules-and-how-they-follow-the-code)
3. [The runs: questions, bounds, fairness](#3-the-runs-questions-bounds-fairness)
4. [What is proved](#4-what-is-proved)
5. [Where the code and its comments disagree](#5-where-the-code-and-its-comments-disagree)
6. [What is not modelled](#6-what-is-not-modelled)
7. [Plan](#7-plan)

## 1. Inventory

| Component | Code | State | Operations | What makes it correct | Modelled in |
|---|---|---|---|---|---|
| Result spool | `resultSpool.js`, callers in `runtime.js` | queue of batches, count of dropped ones, the `deliver` calls in progress | add, flush, deliver | bounded; nothing lost uncounted; oldest first | `ResultSpool` |
| Live channel | `agentClient.js`, `wsRedirect.js` | sockets and their flags, heartbeat/stale/reconnect timers, URL index, backoff | dial, open, refuse, redirect, stale check, end, stop | always exactly one connection pursued; a half-open one is left | `AgentLink` |
| Runtime lifecycle | `runtime.js` | bootstrap stage, timers, 401 pause, terminal flag, config chain, exporter | start, timers, REST answers, config loads, channel events | the timers of the configuration in force run exactly when they should | `AgentRuntime` |
| Self-update and release guard | `selfUpdate.js`, `release/*` | release directories, `current`, `.previous`, `.pending`, confirmation timer | download, install, prune, confirm, guard, roll back | the link names a whole release; a bad release is undone | `SelfUpdate` |
| Update offers | `runtime.js`, `updateWindow.js`, `version.js` | what was asked for, the body being read | read, consider, ask, restart | asked once, forward only, and in the end | `UpdateOffers` |
| Process lifecycle | `index.js`, `shutdown.js`, `lib/crashGuard.js` | exit code, calls of `exit()`, teardown | signals, fatal state, exceptions, backstop | told to end, it ends, with a true code | `ProcessEnd` |
| Transaction tests | `transactions/*` | definitions, stored file, timer chains, result buffer | push, schedule, run, run now, flush, stop | one chain per test with the current definition; no result unaccounted for | `Transactions` |
| Header capture | `capture/*` | `active` session, tcpdump processes | start, ready poll, deadline, stop, cancel | no tcpdump without its run | `HeaderCapture` |
| Syslog and trap receivers | `syslog/*`, `traps/*` | buckets, folded rows, counters, TCP streams | ingest, refill, drain, connect, end | bounded; every line accounted for | `DeviceEvents` |
| Trust anchor, signed commands | `commandAuth.js`, `license/*`, `release/keyStore.js`, re-keying in `runtime.js` | two pinned keys, trust record, latches, replay window | verify, rekey, persist, start | carried out once; no older authorisation | `TrustAnchor` |
| Bootstrap, enrolment | `bootstrap.js`, `enroll.js`, `tokenStore.js`, `cli.js` | token file, config file | enrol, store, drop the code, delete | a code spent is a token kept | `Enrollment` |
| Command dispatch, burst, tools, removal | `command.js`, `burst.js`, `toolInstaller.js`, `selfDelete.js`, `runtime.js` | handlers in progress | one handler per command | answered; one burst at a time; a stop stops | `CommandDispatch` |
| REST client, server URL | `apiClient.js`, `httpsClient.js`, `serverUrl.js` | connections, URL in use, chain of reads | call, pin, redirect, probe | the token goes to nobody else | `RestCalls` |
| SNMP poller | `snmpPoller.js`, `runtime.js` | targets, schedule per device, cycles | cycle, setTargets, run now | every device has its turn; Poll now polls | `SnmpPolling`, `PolledDevices` |
| SNMP topology | `snmpTopology.js`, `snmp/session.js` | walks of a poll, VLAN cursor, tables | sweep, rotate, build | what is called whole is whole; an address is on its port | `SnmpTopology` |
| sFlow and NetFlow collectors, result budget | `sflow/*`, `netflow/*`, `resultBudget.js` | pending counters, templates | datagram, drain, hand back | turns are fair; records are read as written | `CounterRotation`, `FlowTemplates` |
| Local exporter | `sflow/hsflowd.js` | package, file, unit, flag | install, enable, disable, delete | what runs is what was asked for last | `LocalExporter` |
| Traffic samplers | `trafficMonitor*.js`, `snmpMonitor.js`, `monitor.js` | two readings, the powershell process | sample, respawn, stop | a difference is what crossed between its readings | `TrafficSampling` |
| Discovery | `discovery/*` | rate slots, workers | scan | the rate is kept, every port tried once | `Discovery` |
| Path MTU probe | `probes/pathmtu.js` | search interval, hops | probe, retry, report | a verdict that holds against loss and silence | `PathMtu` |
| Certificate probe | `probes/tls.js`, `probes/ocsp.js` | the revocation answer on its way | handshake, staple, responder, verdict | a "good" no older than it says; a sound certificate not blamed | `CertificateProbe` |
| DHCP probe | `probes/dhcp.js` | offers | bind, send, hear, end | every server counted once | `DhcpProbe` |
| SNMP counter reading | `snmp/counters.js` | the walks of one snapshot | clock, walks, snapshot | two snapshots can be subtracted | `CounterReading` |
| Go rewrite | `blueeye-agent-go/` | collectors, interpreter, binary, channel | reload, run, upgrade, dial | counted once; own output; a binary to start; one channel | `GoCollectors`, `GoStream`, `GoUpgrade`, `GoLink` |
| Other probes, transaction executors, host data, the rest of the Go rewrite, packaging | see `PROJECT.json` | none between calls | run once | settled once | not modelled |

How they interact. `index.js` builds the runtime, which owns everything else and
shares one event loop with it. The live channel calls back (`open`, `close`,
`token rejected`, `command`, `transaction-config`); the runtime answers with REST calls
whose answers come back as callbacks. The reporting timer, `run-test` and
`run-probe` commands all end in `spool.deliver`. A config load changes the reporting
cadence and the local exporter. The transaction manager shares one capture
runner among all its tests and sends its results through the channel. Both
event receivers share one flush timer in the runtime. An update command
rewrites the release directories and asks the service manager to restart the
process; the guard, started before the agent, judges what it finds there.

The hard behaviours, each listed with its line in `PROJECT.json`, are: overlapping
calls of one asynchronous function (spool, config chain, updates, captures, polls,
bursts, Go reloads);
answers that are stale on arrival (401s, config bodies, counter readings);
sockets that report their end twice or never; timers armed by one generation
and fired in the next; crashes between two file operations (releases, keys,
tokens, the exporter's file); caps and buckets at
their limit; and whatever must happen in the end (a reconnect, a rollback, a flush).

## 2. The modules and how they follow the code

Each component has a module named for it, an `MC` module with the values TLC
uses, and, where something is proved, a `Proofs` module. Definitions named
"Mutant" are plausible bugs kept beside the operator they would replace; no
specification uses them. They document which mistake each property would catch.

### MeasurementSeries, ResultSpool (`resultSpool.js`)

`ResultSpool` keeps the `queue`, the `dropped` counter and, per *lane*, the
`deliver` call in progress (`call`): a lane is a chain of callers that never
overlaps itself (the reporting timer, a `run-test` command, a `run-probe`
command), and different lanes overlap freely. `Deliver` is everything up to the
first `await`: append, trim to `resultSpoolMax`, take the oldest batch of the
kind out, start its submit. `Land` is the server taking the batch;
`SubmitResolved` the loop of `flush` going on to the next batch;
`SubmitRejected` the `splice` that puts a refused batch back and the throw. A
submit may fail after it landed (the answer is lost).

`MeasurementSeries` is what a caller may expect: of each kind, readings wait in
the order they were taken, the server receives only the oldest, and a reading
stops waiting because the server has it or because the bound pushed the oldest
out. `ResultSpool` implements it (`ImplementsSeries`) as long as no two deliveries have
overlapped, which the history variable `overlapped` remembers: the refinement mapping counts the batch in the hands of a `flush`
as the head of its series. Once two have, it does not (section 5).

### LiveChannel, AgentLink (`agentClient.js`, `wsRedirect.js`)

`AgentLink` has the socket objects with the `opened` and `settled` flags that
their handlers close over, `ws` (the socket dialled last), the three shared timers,
the URL list with the index and the schemes an https adoption rewrites, the
backoff counter and the `started`/`stopped`/`fatal` flags. Earlier sockets may
still deliver events after a newer one was dialled. Actions are the handlers:
`SocketOpens`, `TokenRefused` and `AdoptsHttps` and `OtherStatus`
(`unexpected-response`), `DialFails` (`error` before open), `OpenSocketErrs`,
`SocketCloses`, `PeerSpeaks` (any frame re-arms the stale timer), `StaleFires`
(terminate), `ReconnectFires`, `Start`, `Stop`. The far end is nondeterministic
per URL and scheme (`Answers`), may vanish without a word, and may never answer.

`LiveChannel` is the channel the rest of the agent sees: down, open, or halted
for good. `AgentLink` implements it (`ImplementsChannel`, also proved), and
`AgentRuntime` is built on it, so the runtime is checked against what the client
was shown to promise.

### AgentRuntime (`runtime.js`)

The bootstrap (`boot`: capabilities, config, binding, over), the four
timers, `authPaused`/`fatal`/`reportingStarted`, and the promise chain of
config loads (`loads`) with what they change: `monitorConfig`, the cadence of the report
timer, the local exporter, the key the next refresh compares with. A REST
call is *served* when the server looks at it and *answered* later (`calls`), so
a 401 can arrive after the token was accepted again. `HandleTokenRejected`
pauses or halts; `ResumeAfterAuth` is the channel's open event. `Sent` does not
follow calls beyond `MaxCalls`.

### SelfUpdate (`selfUpdate.js`, `release/releaseGuard.js`, the unit files)

The disk (release directories and whether each is whole, the `current` link,
`.previous`, `.pending`), the process and its confirmation timer, downloads in
progress, the synchronous install as steps between which only the host can die
(`Extracts`, `Swap`, `Link`, `Record`, `Mark`, then the restart), the guard's
rollback (`RollBack`, `Relink`, `RolledBack`) and the service manager
(`StartUnjudged`, `StartCounted`, `StartExhausted`). systemd runs the sh
guard before the release; launchd and the Windows service run the Node guard
inside it, so a release that does not parse takes the guard down with it.

What can go wrong on the host is a set of *mishaps* fixed at the start of a
behaviour: `crash` between two steps, `restart` refused by the service manager,
`hasty` (an update ordered before the running release is proven), `overlap` (updates
to different releases downloading), `twice` (a second command for a release that is
downloading), `reinstall` (an update to the release that is current), `disk` (a marker
cannot be written), `flap`. `downloads` counts the commands of each release, as
`handleUpdate` has no update in progress: each installs when its download is complete,
also while the restart the one before asked for is still to come (`Serving`). Every property says under which mishaps
it is claimed; a property that needs none of them is stronger for it.

### HeaderCapture, Transactions (`capture/index.js`, `transactions/*`)

`HeaderCapture` is one capture runner: per lane a `stage` (resolving, opening,
live, stopping), the tcpdump process (alive, told to end, gone), the `active`
session and the one `cancel()` is stopping. The one-at-a-time check is made
before the awaits of `start()` and `active` is written after them, as in the code.

`Transactions` is the manager. A lane is a place where a test can run: lane 0 is its
on-demand run (the `running` set allows one), lane *n* > 0 is one timer chain, the closure of one
`scheduleTest` call, so a run in progress keeps its chain and its old
definition while a push starts another. `timers` is the map of the code; `Owns`
is the identity check by which a finished run decides whether to re-arm.
Actions: `ConfigPushed` (with a save that may fail), `Start`, `Stop`,
`Restart` (which may cut a save short), `TimerFires`, `RunNow`, the steps of a
run with its capture, `ChannelOpens` and `ChannelDrops` with the buffer's flush.
`pushed` and `torn` are history variables.

### DeviceEvents (`syslog/receiver.js`, `traps/receiver.js`, the flush in `runtime.js`)

Both receivers as one machine (the trap receiver has no TCP): allowlist, token
bucket, folding into a bounded buffer, the counters of `stats()`; a TCP stream per
sender with the incomplete line it carries, the data event that is too long and of which
only the first 2 KB go on as a line (`TcpOversized`), and its two ends (`end`, then `close`); `startSyslog` then `startTraps`, each starting the shared timer if it bound;
the flush that drains both into one batch and does not put it back. The
allowlist can change between two lines, so a vouched sender is accepted or not,
and any other never.

### TrustAnchor (`commandAuth.js`, `license/trustProof.js`, `release/keyStore.js`, `handleRekey`)

Four files outlive the process: the pinned release and command keys, the trust
record (last authorisation, the "server signs" latch), the replay guard. A handler
writes them one after the other without awaiting, so only a death can come between
two of them: `job` is the handler and `job.step` its next write
(`Latch`, `PinsKey`, `SyncsUnit`, `Records`; a write may fail).
Commands may be repeated and delayed at will; a command is the key that signed it, its
id, its time, and, for a re-key, its proof. `carried` counts how often an id was
acted on, `since` the authorisation behind an anchor, `lapses` the exceptions that
the properties name.

### Enrollment (`bootstrap.js`, `enroll.js`, `tokenStore.js`, `cli.js`, `selfDelete.js`)

Two processes, the service and the `enroll` command, share the token file and the
config file, and neither file is written atomically. A code mints one token; an
answer may be lost, a disk full, a process die between opening and writing, the
agent be deleted. The service manager starts the service again whenever it ends.

### CommandDispatch (`command.js`, `burst.js`, `toolInstaller.js`, `selfDelete.js`, `dispatchCommand`)

A command from its arrival to its answer, beside the others: bursts with their
ticks and the stop that ends them, an installation with its attempts, the steps of
a removal, and the commands that await one thing and reply. An answer goes to the link
as it is then.

### RestCalls (`apiClient.js`, `httpsClient.js`, `serverUrl.js`, `configChain`)

A call is a connection with events: connected, secured, sent, answering, over; the
pinned client checks the certificate itself and follows no redirect, the plain one
is the platform's `fetch`. Which of the two it is is decided once, by the URLs as they are
after the probe of the first (`fetch`); the channel goes on to move to other URLs and to
rewrite the http one in use to https (`Moves`, `Adopts`), and calls follow it. Reads of the configuration
queue in a chain.

### SnmpPolling, PolledDevices (`snmpPoller.js`, `runtime.js`)

`SnmpPolling` has both cycles over one assignment that can change between two
devices of a cycle: each device's time since its last attempt, the cycle in
progress with what it took and what it is polling, and "Poll now", which reads the
assignment, waits for a cycle in progress and runs its own. `PolledDevices` is
what the runtime remembers of a device for its traps: the host it is assigned by,
the addresses looked up for it, the interface names its polls brought, each
answer perhaps begun under an earlier assignment.

### SnmpTopology (`snmpTopology.js`, `snmp/session.js`)

First the order in which one switch's tables are read, poll after
poll: core walks, optional walks while time is left, then the VLANs in rotation
from a cursor, by several workers that give up after failures in a row. It
records what was cut (`partial`) and what is reported as supported.
Then, as a specification of its own (`BuildSpec`), the table that comes of it, against a switch that knows
the truth: bridge ports are numbered anew in each VLAN, the default
instance repeats what others had, and the report is capped. Ports, status and port map of an instance are three
walks, of which each may have failed or been cut (`read`, `stated`, `mapped`).

### CounterReading (`snmp/counters.js`)

One snapshot is the device's uptime and then its columns, group by group, every walk of
which may fail while the device restarts. A counter is where it comes from: the life of the
device it was counted in and its width. The module keeps the snapshot before, and says what a server
may subtract.

### CounterRotation, FlowTemplates (`sflow/collector.js`, `resultBudget.js`, `netflow/*`)

`CounterRotation` is the table of interface readings: a result drains the longest
unsent, awaits, is trimmed, and hands back what it could not carry, while newer
readings come in and a second measurement may overlap. `overtook` remembers who was sent while
an interface waits: fair turns mean that none of them is sent again first. `FlowTemplates` is the one
template cache of the NetFlow collector, under loss, reordering and
redefinition.

### LocalExporter (`sflow/hsflowd.js`, `reconcileHsflowd`, the removal)

Every system command of an enable or a disable is one step, each of which may be
refused or fail; between two of them the agent may die, the host reboot, or the
removal of the agent run. `reported` is what the last attempt answered.

### TrafficSampling (`trafficMonitor.js`, its macOS and Windows versions, `snmpMonitor.js`)

A sample is two readings of cumulative counters and their difference. Interfaces
carry traffic, leave, and come back with their counters at zero; over SNMP a walk
may be lost in either reading; on Windows a powershell process prints readings,
dies, is started again or cannot be, and a sample waits for what it needs up to two
deadlines while the wall clock may be set back. The model keeps how much really
crossed, which the snapshot is compared with.

### Discovery (`discovery/*`, `runDiscoveryAndSubmit`)

One sweep: workers take the next port of an address, queue for a grant of the rate limiter,
connect, and the address is named and reported; timers may fire late.

### PathMtu (`probes/pathmtu.js`)

One ping is one step. A path is a row of links with a size each; a router that drops
says so or not and names the size or not; any answer may be lost. The search, the
retry, the hops and the report are followed to their verdicts.

### CertificateProbe (`probes/tls.js`, `probes/ocsp.js`)

One handshake, which may bring a stapled answer, perhaps a question to the responder, and the
verdict. Beside it the clock runs and the issuer may revoke the certificate at any moment; an
answer says what the issuer knew when it was made, and may be old, undated, about another request,
unreadable, or signed by somebody else.

### DhcpProbe (`probes/dhcp.js`)

The interface, the port, alone or shared, one DISCOVER, and whatever reaches the port until the
time is up, the socket breaks or the send is refused: offers to this host, repeated or through two
relays, offers to others, other messages. `heard` keeps which servers answered.

### UpdateOffers, ProcessEnd (`considerSelfUpdate`, `updateWindow.js`, `version.js`; `index.js`, `shutdown.js`, `crashGuard.js`)

`UpdateOffers` is what leads to an update: the server's offer changes while a
configuration is read, the reasons not to ask (each a conjunct of `Wanted`, `Within`
or `AskedBefore`), the request on a channel that drops, and the process that is
replaced by one of either release. `Within` is the window that may cross midnight.
`ProcessEnd` is `main()` and `exit()`: signals, the terminal state and exceptions
arrive at any moment, also while the process is already ending; each call of
`exit()` closes what it can under a cap and then waits for its backstop.

### GoCollectors, GoStream, GoUpgrade, GoLink (`blueeye-agent-go/`)

The Go rewrite has real concurrency, and a step is what a goroutine does between
two locks or waits. `GoCollectors` has definitions from the binary, the cache and the
channel, `Reload` by two goroutines, a loop for each collector, and the deltas they report.
`GoStream` is the persistent interpreter: bodies with end markers, timeouts, its
death. `GoUpgrade` is the swap of the running binary, on Unix and on Windows, with
a failure of any step and a death between any two. `GoLink` is the rewrite's live
channel: the read loop, the heartbeats, the greeting with its calls. It is shown to
implement the same `LiveChannel` the JavaScript client implements.

## 3. The runs: questions, bounds, fairness

A run checks one MC module, and an MC module may hold several components that share no
state: a behaviour is then of one of them (`part`, or `world`), chosen
in the initial state, and the others stay as they begin. That keeps each state
space what it would be alone. Properties that consist of several named parts
(such as `GoIsHonest`) say so in their definition, and begin with the type
invariant of their component.

| Run | Question | Answer |
|---|---|---|
| `spool` | With two deliveries in progress, is anything lost uncounted or held twice, and as long as no two overlapped, is the spool the ordered series (`LossIsCounted`, `ImplementsSeries`)? Is a signed command carried out once, and an anchor never replaced by an older authorisation, over deaths between any two writes (`NothingForgotten`, `NoRollback`)? Is a code that was spent a token that is kept, and does the agent get to work (`SpentIsKept`, `GetsToWork`)? Does a pinned client send the token over https to nobody else (`NothingToStranger`)? | yes |
| `spool_reorder` | Does "order is preserved" survive two deliveries? | no (expected violation) |
| `link` | With late events of three sockets, is exactly one connection pursued, is the client a `LiveChannel`, does it come back past a dead URL without a tight loop of redirects (`OnePursuit`, `ImplementsChannel`, `AgentComesBack`)? Is the Go client one too, and does it come back (`GoImplementsChannel`, `GoComesBack`)? Does a stop end a burst, and is every command answered (`StopStops`, `AllAnswered`)? | yes |
| `runtime` | Do cadence and exporter match the configuration in force, does a resume restore all a pause stopped, does a reconnect end the pause and bring a configuration (`ConfigIsWhole`, `RunsUnlessPaused`, `Recovers`)? Does a sweep keep its pace and its ports (`SweepKept`)? Is a traffic snapshot true of the time between its readings (`SamplesKept`)? | yes |
| `runtime_stuck` | Does the pause end by itself? | no (expected violation) |
| `update_guarded` | Does the link always name a whole release, is the fallback good, does every update end in a release that works (`LiveTreeWhole`, `KnownGood`, `UpdateEnds`)? Is an offer asked for once, forward only, and heard (`OffersKept`)? Does a process that is told to end, end, with a true code (`EndIsKept`)? | yes, under the stated mishaps |
| `update_redone` | Is the live tree whole if the current release is ordered again, or one release by two commands at once? | no (expected violation) |
| `transactions` | One chain, the current definition, every result accounted for, no tcpdump without its run, and a test that keeps running? | yes |
| `device_events` | Bounded memory, every line and occurrence accounted for, buffers that empty (`Accounted`, `EventsLeave`)? Do counters take fair turns, with the newest reading (`RotationKept`)? Are records read as written in the end (`ReadsSettle`)? | yes |
| `measuring` | Is what was pressed polled, and does every device keep its turn (`PollsKeepUp`)? Are traps and names of the assignment in force (`DevicesKnown`)? Is the exporter the one wished for (`ExporterKept`)? Is a sweep honest about what it left out (`SweepIsHonest`)? Is a forwarding table true, and can two counter snapshots be subtracted (`ReportIsTrue`)? Are the verdicts right on a path's MTU, on a certificate, on the DHCP servers of a segment (`VerdictsHold`)? Does the Go agent count once, give a body its own output, leave a binary to start (`GoIsHonest`)? | yes |
| `unpinned` | Does a pin cover every call over https, also to a URL the channel adopted? | no (expected violation) |
| `rest_cut` | Does a read of the configuration whose answer is cut short end? | no (expected violation) |

**Bounds.** Every bound is a constant marked "bound" in its module.

- Spool: 4 batches and a queue of 2 let a delivery trim what another has taken an
  index into; with one delivery at a time they overflow the queue while a flush loops.
  Trust: three keys, two licences, two ids, two time units and an id carried out twice,
  the least with which a proof can be older than another and a command expire
  between two deliveries. Enrolment: two codes. REST: three calls, two of them reads, lists of one or
  two URLs, of either scheme.
- Link: three socket objects, because the end of the last but one may still be
  reported when a third is dialled; two URLs, one http and one https;
  `attempts` to 2 (only its being bounded matters). Go: two connections, since only one
  that is left and the current one can interfere. Commands: two bursts of two
  samples, a stop, and one of each other slow kind.
- Runtime: two configurations with different intervals, one with an exporter; a REST
  call and a config load beside the bootstrap's own, the least with which an answer
  overtakes a state change and two loads chain. Discovery: two addresses,
  three ports, two workers, so that one waits behind another and a third port is left.
  Sampling: two interfaces (one on Windows), two events each, a clock of six, three
  times what a sample takes.
- Update: four releases, two good, one that starts and dies, one that does not
  parse; three kept, so the fourth install prunes. Worlds: no mishaps;
  all but `disk`, `reinstall` and `twice`; at most two downloads at once. (With `disk` nothing is
  claimed here, only type correctness, which is proved.) `update_redone` has `reinstall` alone and
  `twice` alone; either violates the property. Offers: three
  releases, a day of three minutes with windows inside and across midnight, two
  changes of the offer. End: three calls of `exit()`, one for each of closing, waiting,
  forced.
- Transactions: one test (tests share only the buffer, whose batches the two
  lanes of one test already contend for, and the capture runner), three
  definitions (plain, captured, disabled), two chains beside the on-demand
  run, two runs in progress, a buffer of one and two results. A test at first
  absent is `Nothing`.
- Device events: two senders, one fold key (a row is a sender and a key, so there are two rows), a buffer, a bucket and a bucket
  table of one each, so each limit is met by the second line or sender; two
  lines. Counters: three interfaces, room for two, so one always waits; NetFlow: two
  exporters, two layouts, two datagrams under way.
- Measuring: two switches at one host, one of them counted, one press; two boxes, two
  names, two addresses, one of which both names have; four VLANs, three walks a poll, two workers;
  three addresses on two ports in two VLANs under a cap of two, over both port maps,
  every subset of VLANs walked, and a lost map, status or row of one instance, or all maps or every status; a path of three links with sizes one to four, two pings a size
  and one loss; two interfaces of which one is reported, two snapshots and one restart; certificates
  with every fault of dates, chain, name and issuer, a clock to two, answers good for one unit of it and a
  rounding of three halves, so that an answer can be stale and an expiry rounded away; two
  servers and one that gives no name, two leases, four datagrams and room for three offers, so that
  the room runs out; one Go collector with three versions, of which the second is not for this host; four
  runs of the interpreter; three Go releases.

Deadlock is checked in `transactions` and `device_events`. In the others a bound
(batches, orders, runs, ticks), a part that may really end (a stopped
client, a process that has ended, an agent that was removed) or a part without
repetition (a report that is built once) ends the behaviour, and
progress is stated by liveness properties instead.

**Fairness.** Only what the event loop, the service manager or a timeout in the
code guarantees: an armed timer fires; a socket that was hung up is reported
closed; a far end that answers at all answers in the end (a mute one may stay
mute: the client sets no handshake timeout); a REST call is answered or times
out (`httpsClient.js` ends a silent one after 15 s; without a pinned certificate
the limits of `fetch` apply; `rest_cut` shows the one case in which a pinned call does
not settle, and in `RestCalls` nothing assumes it does); the guard and an install, which are synchronous,
run to their end; the service manager starts what is down (`Restart=always`, its
counterparts elsewhere); executors, captures, polls and walks end (each has a timeout); the
timers of a shutdown fire, whereas nothing assumes that a connection closes or the event
loop drains. Strong fairness is used where something is retried on every tick and what it needs
flickers: a config load that is retried on every
refresh gets through in the end, a refresh tick whose precondition flickers is
taken, a transaction timer that the bound on runs postpones fires, and of the reads
that fall into an update window which keeps coming back one is made and considered. Drops,
vanishing peers, token changes, crashes and orders are never fair.
Where a liveness property needs the world to settle (a token that stays
good, a connection that holds, a layout that is not redefined), the property says so in its own formula.

**Not checked by a run.** `TypeOK` of the four proved modules `ResultSpool`, `AgentLink`,
`AgentRuntime` and `SelfUpdate`, which is a theorem; `DeviceEvents` and
`Transactions` with two tests.

## 4. What is proved

Every safety property that a run checks is a theorem as well, for every value of the
constants, except the ones listed at the end of this section. The assumptions are the
ASSUMEs of the modules, which TLC evaluates on every run: the types of the constants, that what is counted
or summed over is finite (interfaces, senders, addresses), that every link of a path carries some size, and a few facts the code has by
construction: the empty string is not an enrolment code, there is at least one release to go to
(`MaxRelease`) and room for one offer (`MaxOffers`), a sweep covers an address and has a worker (`Discovery`; `scanner.js:70`), the configurations the agent writes are
not files an administrator writes (`LocalExporter`), and a switch numbers the ports of one VLAN
without repeating itself (`SnmpTopology`).

Two forms of argument occur throughout. An invariant that is not inductive is strengthened until it
is, and three lemmas say that it holds at first, that every step keeps it, and that it implies what the
runs check. And since induction over data is out of the provers' reach, what a model adds up (sums over finite
sets) or takes the least of is known to them by lemmas derived from the library's well-foundedness of
the naturals.

**ResultSpoolProofs.** `SpoolTypes`, and `SpoolBound`: for any number of
lanes the batches queued and in flight exceed `resultSpoolMax` by at most the number of lanes
less one. The invariant adds that a call in progress is never "direct" when
spooling is on. The argument counts: a delivery adds one batch, trims, and takes one out into
its hands; a refusal puts it back. The lemmas say what trimming, taking out and
reinserting do to a sequence's length.
`LossesAreCounted` (`LossIsCounted`) takes the set of the lost, the ids neither held nor received, and shows
that no step enlarges it by more than it adds to `dropped`; that needs `LandedArrived`, that a batch whose
answer is on its way back has arrived.
`OneAtATimeIsASeries` is the refinement `ImplementsSeries`. Its invariant, `InSeries`, holds as long as no two
deliveries overlapped: of each kind the queue is in order, the batch in the hands of the one call is older than
all of its kind, the index it will be put back at is in front of them, and there is room for it. Then taking out, putting back and
trimming are steps of the series or stutters.

**AgentLinkProofs.** `IInv == TypeOK /\ Attempts /\ Pursuit /\ Watch`. `OnePursuit` is
not inductive alone: a socket may report its end twice, so `Attempts` ties the flags
`opened` and `settled` to the phase and says that only the socket dialled last can be
unsettled; then a late event of an older socket is a stutter. From it:
`LinkPursuesOne`, `LinkWatchesOpen`, `LinkHaltsQuietly`, the action property
`LinkKeepsUrl`, and the refinement `LinkIsAChannel`: every step of the client is a
step of `LiveChannel` or a stutter. So the runtime's assumption about its channel
is a theorem, for any number of sockets and URLs.
`BurstsStop` (`StopStops`) has in `OneBurst` what the runner's two flags say of the burst in progress and in
`BurstsEnd` what a command has to its name at each stage of its handler. `RewriteIsAChannel` is the same
refinement for the Go client; it needs `HasConn`, that only a client with a connection serves or greets.

**AgentRuntimeProofs.** `FatalIsQuiet`, `CadenceMatches`,
`RunsUnlessPaused`, `ConfigIsWhole` and type correctness. `Armed` strengthens `RunsUnlessPaused` by what each stage of the
bootstrap has already armed; `Chain` describes the promise chain (which load
is applied, which one is reconciling the exporter, that one behind the head
is untouched), from which `ConfigIsWhole` follows when the chain is empty;
`Queues`, `BootCall`, `BootLoad` and `Bounded` keep the sequences typed and say
which entry belongs to the bootstrap.
`SweepIsKept` (`SweepKept`) is about Discovery. `LineInOrder`: while an address has its ports tried, the line for the
rate limiter holds the workers that wait, with just the ports that follow those already tried, so grants in the
order of the line try the ports in the order of the list. `SlotsApart`: the slot claimed last lies an interval
beyond the grant before the last one, however late the timers fired, and the number of grants times the interval
beyond the start of the sweep.

**SelfUpdateProofs.** `IInv == TypeInv /\ Phases /\ (Careful => Apart /\ Whole /\ Calm)`,
where `Careful` is a host whose markers can be written and that is never ordered a release
that is live or being downloaded. `Phases` says what the link names at each step of an install
and of a rollback; `Apart`, that what is still to be extracted is to be extracted once, and is neither live nor
the fallback; `Whole`, that whatever may be started is complete; `Calm`, what a
host without mishaps adds. `LiveTreeStaysWhole` and `FallbackIsKept`
assume that no world contains `reinstall` or `twice`, each of which `update_redone` shows to
be necessary; updates to different releases may overlap in every way; `FallbackWorks` and `BadReleasesAreMarked` speak of hosts without
mishaps, as the properties do. All hold for every set of releases, every limit and every
number of kept releases.
`OffersAreForward` is the safety part of `OffersKept`: the configuration in hand may be an old one, but what it
offers is compared with the running release when it is considered, and a restart forgets it. `ExitCodeIsTrue`, that of
`EndIsKept`: until the end the exit code is that of the last call (`LastCallDecides`), and every call has a reason on
record for its code (`SuccessHasAReason`, `FailureHasAReason`).

**TransactionsProofs.** `IInv == Shape /\ Owned /\ Remembered /\ Scoped`. `OneChain` is
not inductive: `Owned` adds that the chain a timer names carries the definition
in force, armed or running, so that the re-arming after a run is right whatever was
pushed meanwhile (`RescheduleEffect`, `FinishesEffect`). `Scoped` ties each
capture's stage to its run's and each tcpdump to the stages between its spawn
and the end of its stop. From these: `TransactionsOneChain`,
`TransactionsDefinition`, `TransactionsPushSurvives`, `TransactionsNoStrayCapture`,
`TransactionsActiveInUse`, for any number of tests, definitions and chains.
`TransactionsAccounted` (`ResultsAccounted`) has an invariant of its own, `Tally`: the buffer repeats nothing and
nothing that was accepted, and `dropped` is the number of results in neither.

**IdentityProofs.** The three components share no state, and each has its invariant.
`TrustForgetsNothing`: `KeysOnFile`, `StrictOnFile` and `IdsOnFile` say that between two handlers memory and
disk agree on keys, strictness and refused ids; `CarriedIsRemembered`, that an id acted on is refused as long as
its command is fresh, from which acting once follows. `AnchorsNeverRollBack` is the action property `NoRollback`: a handler on
the vendor's word (`JobsInOrder`) carries an authorisation no older than the one on record, and what authorised
the anchors is on record or about to be (`SinceOnFile`) unless a write was lost. `SpentCodesAreKept`: a token that
is not yet on disk is in the hands of a process that stores it, and so for a torn config file. `TokenGoesToOurs`, whatever
becomes of the URLs once the client was chosen: `JudgedFirst`, a
connection that the token went out on was judged before; `ChainKept`, a read that waits is in the chain and
only the head of the chain is on its way.

**CollectingProofs.** `EventsAreAccounted` (`Accounted`) and `SamplesAreTrue` (`SamplesKept`) are about sums, so the
module begins with lemmas on sums over finite sets: they exist, are unique, monotone, and change by
as much as one term does. For the events the conjuncts of the property are inductive together with the
types; the lines an oversized data event cuts are a term of the sum (`cut`), so that it is known to lose these and no others. For the samples the invariant says of each reading kept that it is one of the past: no interface
had carried more by then than now, nor had its counter been started over later than since; the difference of
two readings in that order is then what crossed, row by row and in total. `TurnsAreFair` (`RotationKept`) is about
the order of the table: whoever was sent while an interface waits ranks behind it, or is later in the same
snapshot (`OvertakersAreBehind`). A drain keeps that because it takes the front of the order and new ranks keep
the old order (`RanksKeepTheOrder`); a trim, because it cuts the tail. That a reading handed back
replaces no newer one needs that one which was overtaken in hand has its successor in the table, unless the
table was full (`OlderWasReplaced`), and then there is no room to return to (`FitsInTheRoom`).

**MeasuringProofs.** Six components and the Go rewrite, without shared state.
`SweepStaysHonest`: the turns taken since the rotation began are an interval of places that may wrap round
(`TurnsHold`), which a modulus taken once keeps. `ReportStaysTrue`: every row of the table is true of the switch
by cases of where it was read and of which walks brought it (that an address is not the switch's own, where its status was read), the cap keeps a prefix of an order by crowding; and a snapshot whose
walks met no restart is of the life whose uptime it read (`ReadingInv`). `ExporterStaysKept`: `JobHolds` says what is behind
a reconciliation at each of its points, `DaemonHolds` that the daemon runs what the file says unless a restart was missed.
`VerdictsAreRight` (`VerdictsHold`) has one invariant per probe. For the path MTU search it says three things. Where the search is (`SearchHolds`):
the window ends at the ceiling, and a bisection has a size that passed below and one that did not above. That a
size which would be answered was tried in vain at most as often as an answer was lost (`TriesHold`), so that with fewer
losses than tries a search never concludes from a loss. And, as long as that is so, what is true of the path (`MtuTrue`): the interval encloses the
narrowest link; where every hop so far was measured, the ceiling is what the links before carry (`NewHere`), and then a
link that drops in silence shows as silence and as no message; so the row of a hop is right and a
blackhole has a silent link behind it. The lemmas on `Upto` say where a path narrows. `GoAgentIsHonest`: a collector's reports are
covered by what was counted, with a reading on its way or without (`Covered`); the pipe of the interpreter holds what its
run expects, unless it was left (`Expected`); and the phases of an update say where a
binary that can be started is.
`PressesAreServed`, the safety part of `PollsKeepUp`: what a command is still owed is owed of devices where they are
assigned now (`OwedIsAssigned`), by no cycle it is past (`OwedIsAhead`), and by the cycle it runs itself only what that
cycle still has to do (`OwnCycle`). `TrapsAreAlwaysOurs`, that of `DevicesKnown`, is inductive as it stands.

**Only model-checked.** Liveness under fairness is outside the prover's reach: every property whose name speaks of
coming back, ending, recovering, leaving, settling or keeping running, `AllAnswered`, `GetsToWork`, and the liveness parts of
`PollsKeepUp`, `DevicesKnown`, `OffersKept` and `EndIsKept`, whose safety parts are theorems that state them.
Of `FlowTemplates` the types are only model-checked too: what a datagram leaves in the cache is a fold over a sequence.
No proved module uses a recursive operator.

## 5. Where the code and its comments disagree

Five disagreements have a run whose counterexample shows them.

- **`spool_reorder`.** `resultSpool.js:58` puts a refused batch back "where it
  was; order is preserved", at the index it was taken from. While the submit was
  awaited another delivery may have taken entries in front of that index or
  trimmed the queue, and the batch lands behind a younger one of its kind.
- **`runtime_stuck`.** `runtime.js:451-453` says the pause after a 401 ends by itself.
  It ends at the channel's next open event; a late REST 401 pauses an agent whose
  channel is open and simply holds, and nothing ends that pause.
- **`update_redone`.** `selfUpdate.js:252-255` says a crash never leaves a
  half-written live tree. An update to the version that is current removes and
  re-creates the very directory the link names. So do two commands for one release that
  is not current yet: `handleUpdate` has no guard against a second (`runtime.js:1509`), and the later of the two installs
  meets the tree that the earlier one made live. Either alone violates the property.
- **`unpinned`.** The comment where the channel adopts an https URL says that nothing "moves to a host
  the certificate chain and the pins do not already cover" (`agentClient.js:368-371`). Where every URL was http when the
  runtime was made, its client is the platform's `fetch` for good (`runtime.js:236-238`), which knows of no pin, and the
  calls that follow the adopted URL send the token to whoever a certificate authority vouches for.
- **`rest_cut`.** `GO-REWRITE-AUDIT.md:68` promises a 15 s request timeout. Under a pinned
  certificate an answer that is cut after its headers ends neither in `end` nor in
  `error` as `httpsClient.js:101` listens for them, the read never settles, and the chain of
  configuration loads waits behind it for ever (`runtime.js:734-738`).

Others were met while modelling and have no run. They are in the models where the
model reaches them (marked M).

*Runtime, channel, REST.*

- M The bootstrap goes on through a pause and arms the timers the pause stopped
  (`runtime.js:2045-2064` against `448-450`); scheduled probes run on while paused
  (`1344-1346`).
- M A dial to a far end that never answers has no deadline (`agentClient.js:283`),
  so the client stays on that URL, against the header's "one dead DNS name or proxy".
- M With an unpinned http URL behind a redirect, `fetch` drops the token on the way
  and the 401 that follows is read as a rejected token, until the channel adopts https.
- M `NothingToStranger` is therefore about an agent that had an https URL when its client was chosen.
- The probe of `serverUrl.js` covers the first URL of the list only.
- M `poll-snmp` is not answered once the agent is terminal (`runtime.js:1995`).
- A delete may answer `ok: true` and then `ok: false`; an asynchronous spawn error in
  `selfDelete.js` has no listener.

*Releases, updates, the process.*

- M A confirmation timer is not cancelled when the connection closes
  (`runtime.js:1331` against the comment at 1322); it may also delete the marker of a newer
  release.
- M Two updates in a row make an unproven release the fallback
  (`selfUpdate.js:296`); hosts run as a scheduled task are updated but have no guard
  (`index.js:100`); the guard of launchd and Windows cannot run if the release does
  not parse; between the sh guard's `rm` and `ln` (`releaseGuard.js:145`) the unit
  has no working directory.
- M A request that was sent into a channel that then went down is not repeated until the
  process restarts; an attempt for another offer while disconnected forgets the
  earlier request; after a rollback the restarted process asks for the failing release
  again. `isNewer` ignores pre-release suffixes.
- M Of two calls of `exit()` the last one's code wins when the loop drains, so a SIGTERM
  after a fatal state ends with 0. `runtime.stop()` during the bootstrap does not keep it from
  starting timers and sockets afterwards; only the backstop of `exit()` ends such a process.
- M A death while `config.json` is rewritten leaves it unparseable.

*Keys and commands.*

- M A re-key of the command key without the vendor's proof writes `command-key.pem`,
  which `keyStore.js:39-42` says never happens. An override of "off" still lets a latch close,
  which holds from then to the restart.
- M A death between the key and the trust record leaves an agent that asks for less, where
  the comment at `runtime.js:1699` says more; so does a trust record that cannot be
  read (`keyStore.js:95-97`).
- M At the very instant of its expiry an id is forgotten by the replay guard and still fresh to
  the check (`commandAuth.js:138`, `181`, `253`).

*Captures, tests, device events, spool.*

- M Two captures can run at once: `capture/index.js:154` checks `active` before
  the awaits and 290 writes it after them, against "ONE AT A TIME" (105-107). A
  capture still opening at shutdown is missed by `cancel()`, whose late
  `active = null` (299) can also clear a newer session. `NoStrayCapture` holds
  nevertheless.
- M A batch of device events whose post failed is in no counter of `stats()`,
  although `runtime.js` near 973 says the counters record what was lost; a paused
  agent goes on draining. The buckets stop tracking senders beyond 1024, which are
  then unlimited. Of a TCP data event that brings what is held of a stream over 16 KB the first 2 KB become one line, and
  the other lines of it are in no counter (`syslog/receiver.js:240-243`), where the comment above speaks of a sender that
  never ends a line; what follows of the last one is taken for a line. `StreamLineOnce` tells these
  lines (`cut`) from the others. A terminal agent keeps its sockets and its flush timer.
- M `deliver` returns without an error when overflow has discarded the batch
  it was given while another lane was delivering (`resultSpool.js:76`). Re-insertion
  exceeds the spool's bound by one batch per further lane (theorem `SpoolBound`).

*SNMP, collectors, exporter, measurements.*

- M `setTargets` says removed devices lose their schedule; the cycle in progress writes
  it back (`snmpPoller.js:249`). The interface names of a device that moved are shown until
  the next poll (`runtime.js:324-325`).
- M An address whose status was not read is taken for a learned one (`snmpTopology.js:769-772`), so that a lost status walk
  reports the switch's own addresses and those it is forgetting, which "must never be reported" (`81-83`);
  `RowsAreTrue` says of the others that they are not.
- M Core walks that fail, and entity or VLAN walks cut by their row bound, are
  not in `partial`; a VLAN whose turn always falls at the deadline can be starved; the
  cursor is keyed without the device's id.
- M The template key of NetFlow lacks the exporter's address. Counter
  readings handed back by one result forget who waited longest (`collector.js:192` deletes their turns, so
  the keys decide): if every result comes back but for one reading, three interfaces are sent 1, 2, 1, 2 and the
  third starves, against "ROTATES through them instead of starving the same ones every time" (80-82).
  `FairTurns` therefore does not count what was sent before both were handed back by one result. And
  overlapping measurements may send an older reading after a newer one (`collector.js:185`).
- M hsflowd: if the file is written and the restart refused, the next enable answers
  active while the old configuration runs (`hsflowd.js:212`, `235-250`); a removal
  beside an enable can leave the exporter running (`runtime.js:1746`); a torn file has
  lost the marker that says it is ours.
- M Health columns of `snmpMonitor.js` read as 0 when their first walk failed, so the second
  reports the whole cumulative counter as the difference (against `53-54`). Three
  samplers take elapsed time from the wall clock (`trafficMonitor.js:192`): set
  back, it yields 1 ms and rates a thousand times too high. The Windows sampler is not started
  again after an asynchronous spawn error (`trafficMonitorWin.js:169`). A failed
  `system_profiler` refresh clears cached Wi-Fi rates.
- M Discovery paces each sweep by itself, so two commands scan at twice the rate; after a
  late timer two probes may leave within one interval. A non-numeric `addressCap` disables the cap.
- M Path MTU: a size named by a router is believed although a later link is narrower
  (`pathmtu.js:343-348` against line 12); a limit of the local interface hides where the path
  narrows; a tool error during a hop is read as silence.
- M With `ocsp: 'fetch'` a staple that can be read is believed even if its `nextUpdate` has passed; the
  responder is not asked (`ocsp.js:385-386`), the answer only marked stale. Days left are rounded
  to hundredths (`tls.js:75`), so a certificate in its last seven minutes is already expired.
- M A failed walk of `ifHCInOctets` makes a device that has 64-bit counters report narrow ones, where
  the comment speaks of a device that "answers nothing at all" (`counters.js:110-113`). The uptime
  is read first, so a restart while the walks go on is not told by that snapshot. A device that cannot be
  reached at all yields a snapshot without interfaces, not an error.
- M Eight offers by one DHCP server, each for another address or relay, hide a second server (`dhcp.js:349`).

*Go rewrite.*

- M `Reload` computes its list before it takes the lock (`engine.go:222`), so
  the older of two may win, and leaves a collector that runs as it is (line 236), where the comment above says that it
  "restarts changed ones" (`218-219`). What a cancelled body still prints is read by the next one
  (`stream.go:213`). "`.old` is cleaned up on the next start" (`upgrade.go:260`) has no code, and
  on Windows a death between the rename and the write leaves nothing to start.
- M The channel does not reset its backoff after a success
  (`GO-REWRITE-AUDIT.md:66-67`), does not close a connection it left, and sets no
  read deadline.

## 6. What is not modelled

`PROJECT.json` lists every component and says for each what is left out. In
general: parsing, masking, decoding and formatting (one nondeterministic
outcome stands for a line, a datagram or a body), the length of delays and
intervals where no property needs a clock (a pending timer fires at any time, so every order
is covered but no duration), cryptography (a signature is the key that made it), external
package managers, and the tests' support code.

Whole components without a module, and why:

- The executors of transaction tests and the other probes (DNS, HTTP, TCP,
  traceroute and so on): each is one socket or process with a timeout that settles one promise;
  their substance is parsing. The models that call them let them end in any way.
- SNMP, DER and DHCP encoding and decoding, and host data: pure functions of bytes and of files.
- Of the Go rewrite, everything but the four parts above: it is configuration, and
  collectors that run once.
- Build, packaging and the fake server of the tests.

`runtime.stop()` is in `ProcessEnd` by what it closes; `AgentRuntime` has no stop, because
the process exits after it. Of the batch
the server refuses for good (`resultSpool.js:60`), which stays at the head of its kind until
the overflow drops it, only the accounting is checked: nothing in the code promises more.

## 7. Plan

What destroys data or strands an agent came first (spool, link, runtime, self-update,
transactions, device events), then everything above; then the proofs of section 4. What is left
to prove:

1. The types of `FlowTemplates`, a fold over the at most two parts of a datagram.
