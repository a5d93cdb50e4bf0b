# Verification of the AEGIS NIDS daemon

TLA+ models of the concurrent core of this repository: the Windows daemon written
in Zig (`src/src/daemon.zig` and what it starts), the pipe through which the Go
capture process feeds it, its native sensors in C, the two kernel drivers and
their callers, and the C++ bridge library. Modules are translated from the code.
Below, Zig, Go and sensor files are named relative to the repository's own `src/`
directory, all others (`drivers/`, `bridge/`, …) relative to its root.

Contents: [the system](#1-the-system) · [modules and code](#2-modules-and-the-code-they-model) ·
[runs](#3-runs) · [fairness](#4-fairness) · [proofs](#5-proofs) ·
[where the code and its own words part](#6-where-the-code-and-its-own-words-part) ·
[what is not modelled](#7-what-is-not-modelled) · [plan](#8-plan)

To repeat a check: `tlc -config <cfg> <module>` with the pairs of section 3, and
`tlapm <Module>Proofs.tla` for the proofs (about four minutes in all).

## 1. The system

```
 capture process (Go) --named pipe--> Nose reader --+
 fim_native.c, etw_native.c (threads of their own) -+--> event queue --> pipeline thread
 registry / injection sensors ----------------------+                     | flow table
                                                                          | automaton  <-- rules.reload
                                                                          | threat tracker
                                                                          | policy set, PEP
                                                                          v
 service control manager --> handler --+                            forensic ring
 aegisctl --control pipe--> owner thread (control plane) --reads-------^
                              | enforcement.block / verify / unblock
                              v
              aegis_wfp_user.dll --IOCTL--> network driver (WFP)       file-system driver
                                            filters, ring of packets   (minifilter): ring of
                                                                       records, port
```

One process, some dozen threads, and two drivers. The **owner** thread runs
`runDaemon`: it starts the workers, waits for their readiness, serves the control
pipe, and joins everything. **Sensor** threads push into one ring; one **pipeline**
thread pops and processes. The service control manager calls the **handler** on a
thread of its own. The drivers live in the kernel and outlast the daemon; the filters
it asks for are the only state that outlasts the machine.

### 1.1 Components that are modelled

| Component (code) | State | Operations | Talks to | What is hard | What makes it correct |
|---|---|---|---|---|---|
| Event queue (`pipeline/event_queue.zig`) | ring of 4096, `head`, `tail`, two mutexes, drop count | `pushEvent`, `popEvent` | sensors push, pipeline pops | producers and consumers take *different* mutexes; each decides on a cursor the other moves | bounded FIFO; no slot written while read; what was accepted is popped |
| Daemon lifecycle (`daemon.zig`, `platform/win32_service.zig`, `platform/win32_pipe.zig`, `pipeline/runtime_state.zig`) | stop flags, thread handles, failure mask, published states, pipe instance, allocations | start-up, barrier, publishing, serving, joins, teardown; the handler's four steps | all threads, SCM, control clients | failing in the middle of start-up; a stop from two sides; a blocking server; the order of a dozen `defer`s | STOPPED only after all joins; data outlives threads; RUNNING means the pipeline runs; a stop completes |
| Signature engine (`detection/signature_engine.zig`) | trie, failure links, output lists | `addPattern`, `build`, `match` | built by the rule loader, walked by the pipeline | the breadth-first construction; bounded state array; repeated patterns | automaton state = longest suffix; reports are occurrences |
| Rule loading and reload (`pipeline/rule_loader.zig`, `control/handler_registry.zig`) | `g_active_ac`, `g_ac_mutex`, retired list, `g_rules_loaded` | `reloadRules`, `rules.reload` | control thread swaps, pipeline uses | the pointer is used after the unlock; every step of a reload can fail | no use after free, no leak, the count is that of the rules in force |
| Nose link (`nose/pipe_writer.go`, `capture/nose_pipe_reader.zig`) | writer: sequence, handle; pipe: buffer, mode; reader: partial frame, counters | `Send`, dial, short writes; connect, read, decode, reconnect | two processes over one pipe instance | short reads, a writer that dies in mid-frame, restart from sequence 1, a stop during a read | whole frames, in order, counted once; no false regression |
| Forensic ring (`forensic/forensic_pipeline.zig`) | 64 MiB of records, `last_hash`, `next_seq`, mutex, `g_pipeline_audit_id` | `append`, `readRecord`, `verifyHashChain`, `forensics.list` | pipeline appends, control thread reads | overwriting under a search; the chain's first retained link; a counter two threads bump | the chain verifies; a search is exact |
| Event processor (`pipeline/event_processor.zig`) | the counters and the trace | `processEvent` | everything below it | each stage must hand its result on to the next | every detection is decided |
| Flow table (`capture/flow_table.zig`) | 4096 buckets, linear probing | `lookupOrCreate` | event processor | collisions; wrap-around; a full table | a flow is always found again; a panic means full |
| Threat tracker (`detection/threat_tracker.zig`) | scores, incidents | `observeFlowThreat` | event processor | the threshold crossed once | one incident from the threshold on |
| Policy and PEP (`policy/policy_ir.zig`, `policy/pep_bindings.zig`, `policy/action_dispatcher.zig`) | policy set, provider available or not | `evaluate`, `enforce` | event processor, Rust PEP DLL | ordering of policies; provider missing | never a privileged action unauthorised |
| File sensor (`windows/fim_native.c`, `windows/fim.zig`, `pipeline/telemetry_threads.zig`) | per directory: one buffer, `data_ready`, `running`, an overlapped read, a thread | start, the reading thread, `poll`, `stop` | Windows' change notifications; the daemon's FIM thread | one buffer shared without a queue; a stop that must cancel a read another thread issues; a wait with a time-out | every change is held, delivered or counted lost; a session is not freed under its thread |
| Process sensor (`windows/etw_native.c`, `windows/etw_realtime.zig`) | trace session, handle, properties, callback, consumer thread | start with five ways to fail, consumer, stop | Windows' trace sessions; the daemon's ETW thread | a session outlives the process; each failing call must undo the ones before; a callback into a caller's variable | no session left behind; freed once; no callback into a daemon that has returned |
| Minifilter driver (`drivers/minifilter/`) | byte ring with head and tail, port, client, hooks | `DriverEntry` with rollback, file and process callbacks, `READ_EVENTS`, unload | the filter manager; any process's threads; a client | an unlocked test of the ring's pointer; records that wrap; a client that connects during an unload | the ring outlives its users; nothing is left behind; the byte ring is a queue of records |
| Network driver (`drivers/wfp_callout/`, `windows/wfp_ioctl.c`, the WFP part of `control/handler_registry.zig`) | byte ring, `g_ProofFilterId`, filters in the platform | `DriverEntry` with rollback and recovery, classify, block, query, unblock, unload | the filtering platform; other programs' filters; the control plane | filters persist over restarts; test and removal of a filter are two calls; a receipt must stay true | the ring outlives its users; a confirmed receipt is of a filter in force; others' filters are kept |
| Bridge library (`bridge/aegis_ipc.*`, `bridge/aegis_packet_parser.*`) | event queue, DEFCON counters and level | init, shutdown, push, pop, get/update DEFCON, `aegis_parse_packet` | its self-test, console and tests | lengths a packet's sender chose; a queue that overflows | counters are the events taken; parsed spans lie inside the buffer; FIFO |

### 1.2 Components that are not modelled

| Component | What it is | Why not (yet) |
|---|---|---|
| Control plane protocol, authorization, audit (`control/`) | parses a request, checks a capability, logs | sequential on one thread; in the plan. The thread, its pipe, the shutdown command, `rules.reload`, the forensics and the enforcement commands *are* modelled |
| Brain link (`core/bridge_init.zig`, `core/rust_pep.zig`) | DLL loading, UDP spool to the Python brain | DLL loading is a step of `Daemon`; the spool is reached only from the older entry point; in the plan |
| Registry and injection sensors (`windows/`) | threads that poll Windows and push | workers of `Daemon` and producers of `EventQueue`; no state between them and Windows |
| Federation and cluster (`federation/`) | membership, heartbeats, leader election, incident sharing | reached only from tools and tests, but the one distributed protocol here; in the plan |
| Alert aggregator (`go/aggregator/`) | follows the NDJSON log | its race with the log's writer is in the plan |
| Enforcement progression (`core/canary_progression.zig`, `windows/ips_canary_order.zig`) | two stage machines | driven by tests only; in the plan |
| Event fabric (`contract/event_fabric.zig`, `core/priority_queue.zig`) | an older three-priority queue | the daemon uses `event_queue.zig`; in the plan for its accounting |
| Capture adapter framework (`bridge/aegis_adapter.*`, `windows/cpp_adapter.zig`) | a registry of C++ adapters with bounded queues | compiled into the bridge DLL, but `cpp_adapter.zig` is imported by no file |
| Older WFP pieces (`drivers/wfp_callout/aegis_wfp_comm.c`, `windows/aegis_wfp.c`) | repeats of functions of `aegis_wfp.c`; an engine session | in no build file, or called by nothing that enforces |
| Reference wire codec (`shared/wire/wire_codec.h`) | two pure functions | the reader of the same format is in `NosePipe` |
| Generated scanners (`*.c` written by Cython) | text matching of the brain | see section 7 |
| Watchdog, fault injection (`reliability/`) | thread heartbeats | the daemon registers and beats, and never calls `check` or `drainAlerts`: there is no behaviour |
| Packet capture and decoding, older entry point (`capture/`, `core/nids_main.zig`) | Npcap path, parsers, reassembly | data transformations of the program before the daemon |
| Anomaly detector, other detection engines, XDR | scoring | floating point or text, sequential; the daemon discards the anomaly result and calls none of the others |
| Evidence replay, release tooling; policy compiler (TypeScript); Brain (Python); Mouth, Shield, dashboard (Rust) | offline tools and separate processes | sequential, no protocol with the daemon's state |
| Operator tools (`tools/aegisctl/`) | clients of the control pipe | what they may do to the server are the client actions of `Daemon` and the commands of `WfpDriver` |

## 2. Modules and the code they model

Components of the daemon meet at narrow interfaces (one ring, one pointer, one
counter, one flag), and each interface is in the module where both of its sides can
be interleaved. Only the two native sensors share a variable, the stop flag, and are
composed in a module of their own.

```
 Daemon       life of all threads              NosePipe        capture process -> reader
 EventQueue   sensors -> pipeline thread       EventProcessor  one popped event
   refines BoundedFifo                         RuleReload      g_active_ac, two threads
 ForensicRing append vs. search                AhoCorasick     what that pointer points to

 HostSensors = FimSession + EtwSession, over SensorStop, joined by the daemon

 Minifilter --refines--+                       WfpDriver       network driver, platform,
                       +--> RecordFifo                         user DLL, control plane
 Bridge ------refines--+
```

An event passes `NosePipe` (submitted) → `EventQueue` (pushed, delivered) →
`EventProcessor` (processed, decided) → `ForensicRing` (appended). `RuleReload`
treats an automaton as a number and its life; `AhoCorasick` is its contents.
`Daemon` knows of a worker only whether it is starting, up, waiting for another process
or ended; `HostSensors` opens two of those workers up, `NosePipe` a third.

### EventQueue, BoundedFifo

`ring`, `head`, `tail`, `drops` are the fields of the queue; `producerLock` and
`consumerLock` its two mutexes; `pc` and `local` the threads; `delivered` a
history. `pushEvent` is `PushLock, PushLoadTail, PushDrop | PushWrite, PushPublish,
PushUnlock`; `popEvent` is `PopLock, PopLoadHead, PopRead, PopAdvance, PopUnlock`.
One action per shared load or store, so any interleaving of the two critical
sections is a behaviour. Cursors count up without wrapping, as in the code
(`u64`); a slot is `cursor % Size`. `BoundedFifo` is the promise: a sequence of at
most `Size` events, a push at its end or a counted refusal when it is full, a pop
from its front. `RefinesFifo` is `Fifo!Spec` under the mapping "the slots from tail
to head"; a refusal is mapped to the load of the tail, where it is decided, and not
to the later increment of the counter.

### Daemon

`main` is where the owner thread is, `at` its index in the spawn or join order,
`worker[w]` the life of a thread, `failed` the failure mask, `stop` and `shutdown`
the two flags different workers poll, `sys`, `cpp`, `scm` the three published
states, `handler` the service control handler's position, `pipe`, `request` and
`answer` the one control-pipe instance with what is unread in it, `bridges` and `data` what is allocated. Actions follow
`runDaemon` in order: `Boot, InitBridges, Spawn | SpawnFails, Barrier,
PublishSubsystems, PublishSystem, ReportRunning`, the server's loop `CreatePipe,
LoopTest, Connect, ConnectReturns, ReadRequest, HandleRequest, FlushAnswer, Disconnect,
LoopTail`, then `RequestStop, Join, TransitionStopped, ShutdownBridges, Release,
ReportStopped`. `ScmStop, ScmRequestShutdown, ScmReport, ScmWake` are the handler.
A blocking call is an action that is not enabled: `ConnectReturns` and `ReadRequest`
wait for the client to come and to send, `FlushAnswer` (`FlushFileBuffers`) for it to read
its answer (`ClientReads`), and any of them for it to leave. The workers in `Blocking` (the Nose
reader) make such calls too: `WorkerWaits` enters one, `WorkerWoken` is another
process ending it, and only in between can `WorkerStops` see the flag. Several lines of `defer` blocks
become the order of `RequestStop … Release`, on every return path.

### AhoCorasick

A state is the string that leads to it, so `Goto` is append-if-present. `states`,
`output`, `outputCount`, `outputLists`, `failure` are the engine's arrays.
Every iteration of every loop of the code is a step of its own, so that nothing is
defined by recursion. Of `addPattern`: `AddByte` follows or makes one transition and
`AddRule` ends a pattern; `EmptyPattern` and `TooManyStates` are its two errors, of which
the second leaves the states made so far in the trie. Of `build`: `TakeState` takes `u`
from the breadth-first queue, `TakeSon` a child of it, `Follow` is one iteration of the
inner loop along the failure links, `SetLink` what comes after it; `StartBuild` and
`EndBuild` are around them. Of `match`: `ReadByte` and `Advance` are before and after the
same inner loop, `Follow`. `u`, `byte`, `queue` and `cur` (in `build`: `f`) are the
locals. The text is not chosen beforehand: every byte is a choice.

### RuleReload

Automaton 0 belongs to start-up, automaton *r* is allocated by reload *r*.
`frees[a]` counts its deinitialisations, `unbuilt` remembers which ones `build`
failed for, that of start-up included, which stays in force unlinked. `Create, OpenFails, AddPatterns, BuildFails, Build, Swap | KeepOldRules,
StoreCount` are `reloadRules` and its handler; `TakeActive, Match` the pipeline
thread, between whose two steps any number of reloads may run.

### NosePipe

A frame is a sequence of units, the grain of short reads and writes; the header is
the first `HeaderLen` of them. Writer: `Dial, StartNose, Send, WriteSome,
WriteFails, StopNose`. Reader: `CreateServer, LoopTest, Connect, SetMode,
ClientTest, ReadSome, ReadEnds, ReadFails, Decode, Disconnect`. `mode` is the
pipe's wait mode, and `canSetMode` is open, because whether
`SetNamedPipeHandleState` works on an inbound handle is Windows' business and the
code ignores its result. `sent`, `taken`, `cut` are histories.

### ForensicRing

`store`, `written`, `nextSeq`, `lastHash`, `mutex` are the ring; positions are
counted in records, as the daemon's 64 MiB are a whole number of them. The hash of
a record is the tuple of what is hashed (SHA-256 as an injection), the CRC the fact
that it matches. `append` is five steps under the mutex (`Lock, WriteSlot,
EmbedHash, WriteCrc, Publish`); the draw of an audit id or request id is three
steps without a mutex (`Load…, Reread, Bump`), which is what an increment of a
plain `u64` and the later use of the variable amount to between two threads.
`Verify`, `StartSearch, Search, EndSearch` are the two control requests;
`OtherRequest` any other that draws an id. `log` is a history.

### EventProcessor

`buckets` is the flow table and `hash` an arbitrary function from flows to buckets
(chosen in `Init`, so every pattern of collision is a behaviour), `panic` the flow that
met a full table. Nothing evicts a flow, since nothing calls `evictExpired`. `score`,
`incidentOf`, `incidents` are the threat tracker; `policies` and `available` the
policy set and the provider; `count` the `g_pipeline_*` counters; `last` the
decision trace. `ProcessEvent` is the whole of `processEvent` on one event,
including the stage where the matched rule and the incident's severity are written
back to the event that policy sees. `Panic` is `@panic("FLOW_TABLE_FULL")`.
No other thread writes this state; the two places where another thread interferes
(the automaton pointer, the audit id) have modules of their own.

### SensorStop, FimSession, EtwSession, HostSensors

`SensorStop` is `g_stop_requested`, which every sensor thread polls.

`FimSession` has one session of `fim_native.c` per directory: `session`, `running`,
`buffer`, `dataReady` are fields of the C struct, `thread` the place of `fim_thread`,
`io` its overlapped read. A change is a number; Windows holds the unread ones in
`kernel` and a read takes them all. `LoopTest, WaitForPoll, Read | ReadFails,
ReadReturns, Publish` are the native thread; `ReadCompletes, ReadOverflows,
DirectoryChanges` are Windows; `Start, TestStop, Poll`, and `ClearRunning, CancelIo,
Free` for each session in turn, are the daemon's FIM thread (`fim.zig`,
`telemetry_threads.zig`). `Joined` is the wait of five seconds: it ends with the
thread, or with the time-out if the thread is blocked in its read. `lost` names the two
losses of the code: an overflow in Windows, and a batch larger than the poller's
16 KiB. `missed` records that a `CancelIoEx` met no read.

`EtwSession` keeps `g_session` (`handle`, `properties`, `callback`), the trace session
Windows owns (`trace`, which may be a stale one at the start, and which another process
may stop), and the places of `consumer_thread` and of the daemon's ETW thread. Every
return of `aegis_etw_start` is a disjunct of `StartFails` or `Started`.

`HostSensors` is both in one daemon: it requests the stop, joins the FIM thread and
then the ETW thread, and returns, after which the callback's context is gone.

### Minifilter, RecordFifo

`driver` is the thread in `DriverEntry` or `AegisFilterUnload` and names what is next;
each call of `DriverEntry` may fail and goes to its place in the rollback, whose tail is
the unload's. `pc[t]` is a callback or a message between its *unlocked* test of
`g_EventRing` and its use of the ring. `WriteEvent` and `ReadEvents` are the spin-locked
halves. The ring is modelled byte by byte (`data`, `head`, `tail`): a cell holds the
number of a record and the offset of a byte in it, and `RecordAt` gives 0 for bytes
that are not one whole record. The filter manager's rules are in the guards: removal of
the process notification and `FltUnregisterFilter` wait for the calls that run, and the
latter for the server port.

`RecordFifo` is what a ring promises both sides: records leave whole, once, in order;
one is dropped only when the ring is as full as it can be. `Minifilter` implements it
with `queue` mapped to the records read off the bytes, `Bridge` with the slots from
head on.

### WfpDriver

`driver` and `owned` are `DriverEntry` with its rollback, and the unload. The platform
is `named` (every filter ever added; its index is its id, given once) and `present`.
`ProofFilter(flow)` is the filter of `AegisWfpBlockFlow`: our key, and persistent, so a
`Reboot` keeps it. `RecoverProof` is the search for it at the next load. `write`, `read`
are the offsets of the byte ring, of which only the fill is kept: the writer computes it
by comparison (`Used`), the reader by remainder (`Available`); `unread` is a history of
what it ought to be.

A command of the control plane (`enforcement.block`, `.verify`, `.unblock`) is a client
with a place in `wfp_ioctl.c` and, inside a request, in `aegis_wfp.c`: `AddFilter,
NoteProof, QueryFilter, TestOwner, DeleteFilter, ClearProof`. A block that is not
confirmed takes itself back. `OtherAdds`, `OtherDeletes` are other programs and
administrators, `ClientDies` the end of a daemon between two requests. `confirmed` and
`withdrawn` are histories: which receipts were reported, which removals asked for.
`withdrawn` is written when a command asks, not when the filter goes.

### Bridge

`Start, Shutdown, PushEvent, PopEvent, GetDefcon, UpdateDefcon` are the exported calls,
`buffer`, `head`, `tail`, `count`, `dropped` the queue, `counters` and `level` the DEFCON
aggregator, `event` the caller's `IpcEvent`, which holds anything before it is filled:
the parser leaves the tier unwritten when its heuristics find nothing. A packet is the
length of its buffer and the header fields the parser tests, as an arbitrary sender may
write them; `SizeT` is the unsigned subtraction of the code. One thread calls, as every
caller in this build does.

## 3. Runs

| Run | Module / cfg | Distinct states | What it shows |
|---|---|---|---|
| `event_queue` | EventQueue | 27 thousand | the ring is a bounded FIFO for any interleaving; no slot race; accepted events are popped |
| `daemon` | MCDaemon / Daemon | 226 thousand | safety of start-up and teardown on every path; a stop completes unless another process holds the owner up for ever |
| `aho_corasick` | MCAhoCorasick / AhoCorasick | 486 thousand | failure links and current state are longest suffixes, reports are occurrences |
| `rule_reload` | RuleReload | 92 thousand | what a reload guarantees, whichever step fails |
| `rule_reload_use_after_free` ✗ | RuleReload / RuleReloadUseAfterFree | – | failed reloads free twice or publish a freed automaton |
| `nose_pipe` | MCNosePipe / NosePipe | 215 thousand | whole frames, in order, counted once, over deaths and reconnections |
| `forensic_ring` | ForensicRing | 1.0 million | the chain verifies and searches are exact while the ring is overwritten |
| `event_processor` | MCEventProcessor / EventProcessor | 10 thousand (under symmetry) | flow table, tracker and policy over every hash |
| `host_sensors` | MCHostSensors / HostSensors | 125 thousand | no change unaccounted, no session left or freed under a thread; a stop completes |
| `minifilter` | Minifilter | 68 thousand | the byte ring is a queue of whole records; load, rollback and unload own what they use |
| `wfp` | MCWfpDriver / WfpDriver | 1.6 million (under symmetry) | receipts stay true and others' filters stay, over crashes, reloads and reboots |
| `bridge` | MCBridge / Bridge | 160 thousand | the queue, the alert counters, and the bounds of what the parser hands on |

✗: the run is expected to violate its property; section 6 says what that means.

**Bounds.**

- `event_queue`: 2 producers, 2 consumers, a ring of 2, 5 pushes. Two of a side are
  enough for contention on its mutex; five pushes pass every slot more than twice,
  so a cursor one lap off is seen. The theorems remove the bound.
- `daemon`: four workers that differ in what the code distinguishes: the sensor (started
  before the pipeline, polls the other stop flag), the pipeline, the Nose reader (may
  block) and the ETW adapter (waited for by the barrier, may end by itself). The pipe
  monitor, a sensor that leaves no failure mark, and further workers of these kinds add
  interleavings and no new branch; the theorems are about any set of workers.
- `aho_corasick`: up to 3 patterns of up to 3 bytes over 2 letters, empty and repeated
  ones included, and every choice of one pattern of 4 bytes and two of 2; 8 states, texts
  of 4. A failure chain of two links, an output shared by suffix and a state array that
  fills up in the middle of a pattern all occur. The patterns of 4 are there for the order
  of `build`'s queue: with a stack for a queue, shorter ones still get the right links.
- `rule_reload`: 3 reloads of up to 3 rules; the pointer in use can be two
  generations old.
- `nose_pipe`: frames of 3 units (4 if refused), a buffer of 4, 2 events from each of
  2 processes, one after the other. The second process starts from sequence 1
  behind the remains of the first one's frame.
- `forensic_ring`: 2 slots, 4 events of 2 sources, 2 requests: the ring wraps twice
  around a search.
- `event_processor`: 3 flows over 2 buckets and every hash, so chains wrap and the
  table overflows; kinds 40 (a signature match from a sensor) and 70, severities 2,
  4 and 7, one rule, the six policies of `configs/policies.json` or no file, provider
  present or not, threshold two detections, one incident, 4 events. Flows are
  symmetric: nothing orders them and the hash is any function of them.
- `host_sensors`: 2 directories, of which the first changes twice and the second stays
  quiet: a change can wait behind a batch that has not been polled, a batch of two can overflow
  either buffer, and the poller can prefer one directory. One stop.
- `minifilter`: a ring of 11 bytes for records of 3 (three fit, and neither number
  divides the other, so every record after the third wraps somewhere else), 2 file
  callbacks, 1 process callback, 1 message thread, 7 records, 2 loads, reads with
  buffers of 1 to 6 bytes.
- `wfp`: 2 clients, 1 classifier, 1 flow, 2 filters, 2 loads; a ring of 5 for events of
  2, read in pieces of 1 to 3: an event may begin at every offset and so lie across the
  end, not fit by one byte, or fill the ring to its last byte.
  Clients are symmetric: nothing orders them, and no liveness is checked here. That a
  receipt names a filter for its own flow and not for another takes two flows: that part
  is left to the theorem.
  Two filters are one of ours and one of another program, or two of ours one after the
  other.
- `bridge`: 2 slots, 4 pushes, 2 lives of the library; packet lengths on both sides of
  every test of the parser, each with every version, header length, protocol and data
  offset; two of the sets of counters of `bridge/aegis_bridge_test.cpp` for the
  overwriting call. A `size_t` has 65,536 values; the theorem leaves their number open.

`CHECK_DEADLOCK FALSE` is set where the system may stop: a text is at its end, a
daemon has ended, a process has panicked, a bound is reached. `event_queue` is
checked for deadlock.

**Properties.** Each is stated above its definition; in short:

- *EventQueue*: `NoSlotRace`, `RefinesFifo`, `AcceptedIsDelivered` (liveness).
- *Daemon*: `WorkersHaveTheirData`, `StoppedMeansJoined`, `RunningMeansProcessing`;
  liveness `StopCompletes`: a stop from anywhere, at any place of the server, ends in a
  stopped service, or the owner is for ever in a call that another process would have to
  end (`OnClient`, `OnReader`, `OnWorker`). `ShutdownCommandCompletes` is the same for
  an accepted command, which cannot be held up by a client that does not come or send.
- *AhoCorasick*: `LinksAreLongest` (failure links and current state),
  `ReportsAreOccurrences`, `LongestIsReported`, against direct definitions over strings.
  The last two are promised while no two rules have one pattern (`OneRuleEach`); section 6
  says what happens otherwise.
- *RuleReload*: `ReaderSafe`, `NoneLeaks`, `LoadedIsInForce`; `NoUseAfterFree` fails.
  `ReaderSafe` excludes exactly the automata whose `build` failed.
- *NosePipe*: `FramesAccounted` (whole, and each counted once), `SubmittedInOrder`,
  `NoFalseRegression`; liveness `StopCompletes`.
- *ForensicRing*: `ChainAlwaysVerifies`, `SearchIsExact` (an action property).
- *EventProcessor*: `FlowsFoundAgain`, `PanicMeansFull`, `IncidentAtThreshold`,
  `DetectionDecided`, `NoUnauthorisedAction`.
- *HostSensors*: `LifetimesNest` (a FIM session is freed under its thread only where
  `CancelIoEx` came between two reads; the consumer calls back only into a daemon that
  has not returned; the properties are freed once), `EveryChangeAccounted`,
  `SessionTracked`; liveness `FirstWatchHeard`, `StopCompletes`.
- *Minifilter*: `LifetimesNest`, `RefinesRecordFifo`; liveness `UnloadCompletes`.
- *WfpDriver*: `LifetimesNest`, `WrittenIsReadable` (until an event fills the ring to its
  last byte, both sides count exactly what was written and not read), `ReceiptsHold` (a
  receipt names a filter of ours for that flow, which is in force until its removal is
  asked for), `OthersAreKept` (an action property).
- *Bridge*: `CountersAgree`, `RefinesRecordFifo`, `SpansInsideBuffer` (an action
  property).

`LifetimesNest`, `CountersAgree`, `LinksAreLongest` and `FramesAccounted` have the
module's type invariant as a conjunct; the type invariants of the other modules are
proved.

## 4. Fairness

- *EventQueue*: weak fairness of every step inside `pushEvent` (a thread that holds
  the mutex is not stopped there) and of every step of `popEvent` with its entry:
  `pipelineLoop` polls for ever. No sensor is obliged to push.
- *Daemon*: weak fairness of the owner thread, of the handler once it has been called,
  and of each worker's observation of its stop flag. All of them are loops or straight code
  whose calls return; the calls that may not return (`ConnectNamedPipe`, `ReadFile`,
  `FlushFileBuffers`) are disabled until a client or the wake-up acts. Windows owes no
  stop, a client owes neither a request nor a read nor a close, and nobody owes a
  waiting worker (the Nose reader in `ConnectNamedPipe` or `ReadFile`) its wake-up: such
  a worker may wait for ever, also after a stop. Strong fairness is asked of its
  `WorkerStops`: what the reader takes in without a test of the flag is the rest of
  one frame, so that one that is woken again and again comes to the test.
- *NosePipe*: the reader runs whenever a call of it can return. The capture process
  owes nothing. `StopCompletes` is claimed only in the non-blocking mode or once the
  client has left.
- *HostSensors*: the daemon's two sensor threads and the native threads run when no call
  blocks them, which is weak fairness; Windows completes a read for which it holds
  changes. Both loops poll with a sleep and take no lock for longer than a copy. Strong
  fairness is asked of one step, the end of `ProcessTrace`: the events that are still
  buffered after a session was stopped interrupt it, and they are finitely many in
  Windows though not in the model. No directory is obliged to change and no read to
  succeed. The time-outs of five seconds are taken to be longer than a thread's own
  steps, so that they strike only a thread that is blocked.
- *Minifilter*: a call of the driver that has begun ends, and so does every callback:
  both are straight code under a spin lock. Neither a load nor an unload is owed.
- The other modules are checked for safety only and have no fairness.

## 5. Proofs

TLAPS checks these for all values of the constants under the named `ASSUME`s of
each module (which only give constants their types, and sizes, thresholds and weights
positive; a record is smaller than its ring).

| Module | Theorems |
|---|---|
| `IngressProofs` (the queue) | `TypeCorrect`, `NoRace`, `CursorsOrdered`, `DeliveredWasPushed`, `RefinementTheorem` (`Spec => RefinesFifo`) |
| `IngressProofs` (the nose link) | `NoseInvariance`, `FramesAreAccountedFor`, `FramesAreInOrder`, `RestartIsNoRegression` |
| `DaemonProofs` | `TypeCorrect`, `StoppedIsAPostcondition`, `DataOutlivesWorkers`, `RunningIsTrue` |
| `PipelineProofs` (hot reload) | `ReloadTypeCorrect`, `HotReloadIsSafe`, `NothingLeaks`, `CountIsInForce` |
| `PipelineProofs` (an event) | `TypeCorrect`, `FlowsAlwaysFound`, `PanicOnlyWhenFull`, `OneIncidentPerScore`, `NeverUnauthorised`, `EveryDetectionDecided` |
| `PipelineProofs` (matching) | `AhoInvariance`, `LinksLongest`, `ReportsTrue`, `LongestReported` |
| `ForensicRingProofs` | `TypeCorrect`, `ChainIsSound`, `SearchIsSound` |
| `HostSensorsProofs` | `Lifetimes`, `NoChangeUnaccounted`, `SessionIsTracked` |
| `MinifilterProofs` | `Lifetimes`, `Statistics`, `Refinement` (`Spec => RefinesRecordFifo`) |
| `WfpDriverProofs` | `Lifetimes`, `WrittenIsRead`, `ReceiptsAreTrue`, `NoOtherRemoved` |
| `BridgeProofs` | `Invariance`, `CountersAreTrue`, `Refinement` (`Spec => RefinesRecordFifo`), `SpansStay` |

Two modules hold the theorems of neighbours: `IngressProofs` those of `EventQueue` and
`NosePipe`, the way of an event into the daemon, and `PipelineProofs` those of
`EventProcessor`, `RuleReload` and `AhoCorasick`, what the pipeline thread works with. That
is why `NosePipe`, `RuleReload` and `AhoCorasick` prefix `Init`, `Next` and `Spec` with
`Nose`, `Reload` and `Aho`. The specifications stay apart: no theorem is about two.

**EventQueue.** `NoSlotRace` is not inductive. It rests on two checks that were made
some steps earlier and without the other side's mutex. `ChecksStable` says they
stay true: a push sees `head - tail < Size`, and a pop can only make that smaller;
a pop sees `tail < head`, and a push can only make that larger. With `LocksHeld`
(one thread per side) nobody on the same side can spoil them. Positions less than
`Size` apart are at different slots (`ModDistinct`), so a write at `head` never
meets a read at `tail`. `CopiesAgree` and `SlotsFilled` add that what is between the
cursors is what was pushed. The refinement uses the same invariant: each action is
a push, a refusal, a pop or a stutter of `BoundedFifo` (`PushRefines`, `PopRefines`).

**NosePipe.** None of the three invariants is inductive: what a read completes depends on
what was written many steps earlier, cut where the pipe was full. `LinkInv` looks at all
the units on their way as one `Line`: what the reader has kept of the frame it is in,
what the pipe buffers, and what the writer has left, if its client is still connected.
`Follows` says of the line that each unit continues the frame before it or, if that one
is complete, begins a later one; `Lines` adds that the last frame of the line is complete
as long as the client is connected, and that a frame whose last unit has arrived is
counted as sent; `Orders` that the line starts at the first unit of a frame. A read moves units along the line and changes
nothing of it, nor does a write; a send lengthens it at its end; a death cuts it; a disconnection
empties it, and the reader drops what it kept (`LineGrows`, `RestOfLine`,
`StartOfLine`, `FirstFrame`). The header the reader acts on is therefore that of the
frame whose units follow it, and the payload it waits for is that frame's
(`TakenWhole`). What is left over when a discard is cut short by a stop is out of step,
and `Doomed` says that nothing is read from that connection any more. The rest of `Orders` is
the order of frames, what was submitted before what is on the line; `Accounts` are the
counts, and that no more frames are taken than were minted.

**Daemon.** The order of the joins is a constant; the only assumptions are that every
worker is somewhere in it and that the pipeline thread waits for no other process. `JoinInv` says that behind the join cursor every worker
has ended, so after the last join none lives. `PublishInv` ties STOPPED and RUNNING
to the owner's position, `DataInv` what is allocated. `StoppedIsAPostcondition` and
`DataOutlivesWorkers` follow on all paths, failed start-ups included.

**RuleReload.** What is in force or in use is older than the automaton being built
(`Older`), and that one has not been freed before it is published unless its
`build` failed (`FreshAlive`, `ActiveAlive`). Retired automata are never freed by a
reload, so the stale pointer stays good for any number of reloads. For `NoneLeaks`,
`Kept` says of every automaton behind the current reload that it is in force, retired
or freed; for `LoadedIsInForce`, `CountAgrees` follows the count from the loop that adds
patterns through the swap to the handler's store.

**ForensicRing.** `RingInv`: every filled slot but the one being rewritten holds a
whole record, at its sequence number modulo `Slots`, at most one lap old, hashed
and linked to its predecessor if that is retained. The lemmas `Remainder`, `SlotOf`,
`FirstLap`, `LapApart`, `SamePosition` are the arithmetic of that modulus. From it
`ChainHolds` (the verification loop succeeds at any moment) and, with `SearchInv`
(what a search has passed and is still retained does not match), `SearchIsSound`.
Assumption: SHA-256 is injective.

**AhoCorasick.** A link is right (`Linked`) when it leads to the longest proper suffix of
its state that the trie knows. That is false of most states while `build` runs, so
`Links` says which may still be wrong: those `Below` the queue, that is, the son whose link
is being set, the sons of `u` still to come, and what lies beneath any of these or of a
queued state. `BreadthFirst` says that the queue is in order of depth and spans at most
two depths, and so every state as short as `u` has its link (`LinkedSoFar`). The inner loop walks
from `u`'s link over shorter and shorter suffixes of `u`, all of which therefore have
theirs; `Walks` says that no suffix longer than the one it has come to knows the byte. A
suffix of `u` with a byte behind it is a suffix of `u` and then the byte (`SuffixWithout`,
`SuffixAppend`), so the transition that ends the loop, or the root, is the longest suffix
of the son. In `match` all links are right, and the same `Walks`, about the suffixes of the
text, makes `cur` the longest suffix after every byte. `LinksLongest` has no condition on
the rules: patterns may be empty, repeated or too many for the array.
For the reports, `Outputs` says that, while rules differ, the state of a rule's pattern has
that one rule and no other state has any; a rule that is left out for want of room is one
whose state does not exist, since the array stays full.

**EventProcessor.** `FlowsFoundAgain` is inductive as it stands, given that a probe
chain visits every bucket exactly once: `ProbeDistinct` and `ProbeReaches`, over
`(hash + i) % TableSize`. The second also turns "the loop ended" into "every bucket
is taken" for `PanicOnlyWhenFull`. `OneIncidentPerScore` needs only the type
invariant beside itself. The last two are about every policy file, not only the
shipped one.

**HostSensors.** The invariant is a part for each sensor and one for the daemon, each
shown to be kept by its own steps and not to be touched by the other's (`FimStep`,
`EtwStep`, `FimUnchanged`, `EtwUnchanged`). For the files: `Reading` relates the
thread's place to its read (it is in flight only at one place), `Stopping` what the
poller has done to the session it stops, `HandedOver` that a running session never
starts a read while its last batch waits, which is what keeps the buffer from being
overwritten. From these `Accounted`: the four places a change can be in are apart and
together all changes; `Shares` turns that into the sum of their sizes. For the process
sensor, `EtwPlaces` says what each place of the ETW thread owns.

**Minifilter.** `Owns` says what each place of `DriverEntry` and of the unload has, and
`Out` that Windows has drained the callbacks whose hook is gone; they carry
`Lifetimes`. For the refinement, `Whole` says that there is a sequence of records that
the ring holds byte by byte from the tail on. A write keeps it because a record that
fits does not reach back to the tail (`WrittenAt`), a read because positions add up
around the end of the buffer (`Distances`); the abstract queue is that sequence, so a
write is `Put` or, when another record would not fit, `Drop`, a read is `Take`.

**WfpDriver.** `Owns` per place of `DriverEntry`, and `Inside` (whoever is classifying
keeps the callout registered) give `Lifetimes`. `Pending` says what a client may rely on
at each place inside a command: a filter it is about to delete has been found ours, and
stays ours, since ids are never given again. That is why test and deletion being two
calls harms no other program (`NoOtherRemoved`). `Persists` and `Receipts` give
`ReceiptsAreTrue`: only a deletion that was asked for takes a persistent filter, and no
restart does. `Unread` is the ring: writing on adds to the distance of the offsets, reading
on takes from it (`Moves`), and an event that fits is never written over a byte unread.

**Bridge.** `Linked` says that the tail is where the head and the count put it. With it
a push appends to the contents and touches none of the slots that wait (`Positions`,
`PushAppends`), and a pop removes the first of them (`PopTakesFirst`); that is the
refinement. The counters are compared with `Taken`, what was delivered followed by what
waits: a push appends one event to it and adds to each counter what that event adds to
the number of events of its kind (`OneMore`, `CountsGrow`), a pop moves an event inside
it (`TakenStays`), and a refused push touches neither. `SpansStay` is arithmetic: every
length the parser subtracts has been compared with what it is subtracted from, so that
the remainder of the division by the size of a `size_t` is the difference itself
(`NoWrap`).

**Only model-checked.** Liveness: `AcceptedIsDelivered`, the five properties that a stop
or an unload completes, and `FirstWatchHeard`. Fairness and `ENABLED` are beyond the
prover. Every invariant, action property and refinement that a run checks is a theorem.

**Assumptions of the models.** Allocations succeed except where the code's failure
path is an action (reload, spawning, start-up, both drivers, both native sensors). A
64-bit cursor or counter does not overflow. A hash collision of SHA-256 does not
happen. Windows' pipes, change notifications, trace sessions, filter manager and
filtering platform behave as documented; in particular a filter that asks to be persistent
is, although the session that adds it is dynamic (`aegis_wfp.c:259, 289`). Were it not, the
filter would be gone before it is queried, every block would be taken back, and no receipt
confirmed.

## 6. Where the code and its own words part

### Shown by a run

| Run | The code | What is said of it |
|---|---|---|
| `rule_reload_use_after_free` | An unreadable rules file destroys the new automaton twice (`pipeline/rule_loader.zig:40-81` and `:124`); a failed `build` publishes the one it has destroyed (`:99`, `:107-111`) | "this fail-safe policy prevents use-after-free" (lines 119-120) |

### Met while reading, without a run

The daemon and its control plane:

- `platform/win32_pipe.zig:227`: after `DisconnectNamedPipe` the instance takes no client
  until `ConnectNamedPipe`. A stop between the loop test and that call comes too late
  for the test, and its wake-up finds no instance to open: the server waits with the
  stop pending, against "so a blocking ConnectNamedPipe returns promptly on shutdown"
  (lines 262-263).
- `platform/win32_pipe.zig:252`: `FlushFileBuffers` returns when the client has read its
  answer or has left. A client that does neither holds the owner thread there, on which
  everything else of the shutdown happens: also an accepted shutdown command, whose
  answer said "STOPPING", then waits for its own sender. A client that sends nothing
  does the same in `ReadFile` (242).
- `platform/win32_pipe.zig:227-234`: a client that leaves before `ConnectNamedPipe` makes
  it fail from then on, and nothing disconnects the instance: the server loops until the
  stop and takes no further client. The Nose reader disconnects in that case
  (`capture/nose_pipe_reader.zig:216-226`) and says why.
- `StopCompletes` of `Daemon` says that no other wait than these, and that for the Nose
  reader below, keeps a stop from completing.
- `state_machine.zig:50-64` lists RUNNING → STOPPING → STOPPED; a stop from the service
  manager, and a failed pipe creation, go to STOPPED directly (`daemon.zig:87-88`). Only
  the shutdown command, not the handler, publishes STOPPING (`win32_service.zig:66`),
  and handler and owner write one status struct without a lock (line 69).
- `daemon.zig:471-479` "Wait for the complete sensor set" also ends when any worker,
  waited for or not, has failed; `daemon.zig:72` "reverse startup order" is not the
  order of the joins. Subsystem states are published once, from readiness flags that
  change afterwards (line 489).
- `handler_registry.zig:380` stores the count again after a reload that kept the old
  rules, so the control plane reports 0 rules while the old ones are in force.
- At a stop the pipeline thread ends without draining the queue. `event_queue.zig:30`
  says pop is "serialized by the same mutex"; the code has two, which is harmless: the
  refinement is proved for two.

Detection and evidence:

- `build` leaves the outputs of the failure state out and no caller walks the chain
  (`detection/signature_engine.zig:130`): with patterns `ab` and `b`, the text `ab`
  reports the first only, against "Multi-pattern matcher using Aho-Corasick automaton"
  (line 2). `ReportsAreOccurrences` and `LongestIsReported` are what does hold.
- `signature_engine.zig:88-96`: when another rule is added between two rules with one
  pattern, `output + k` reports that other rule: "For multiple rules in same state, we
  append" (lines 91-92), but not to the state. `OneRuleEach` keeps such files out of two
  properties.
  `depth` and `output_count` are `u8` (line 82).
- The audit counter is a plain variable two threads increment
  (`pipeline/event_processor.zig:184`, `platform/win32_pipe.zig:143-148`); a store that
  was overtaken sets it back, against "every security decision gets a unique audit_id"
  (`event_processor.zig:182`).
- Nobody calls `evictExpired`, so the 4097th flow of a lifetime panics
  (`capture/flow_table.zig:133`), against "Background sweeper evicts flows idle >
  FLOW_EVICTION_TIMEOUT_SEC" (line 7). Once called, it would empty a bucket inside a
  probe chain (line 157) and break `FlowsFoundAgain`.
- `flow_id` is 0 for every event of the daemon (`IpcEvent.init`; `pushCanonicalEvent`
  does not set it), so all flows share one score and one incident, against "Per-flow /
  per-host threat aggregation" (`threat_tracker.zig:2`). That incident's severity
  replaces the event's, usually *lowering* it, at "Escalate event severity"
  (`event_processor.zig:125`).
- The policy loader reads `gte` as "greater than": "block_critical_threats" (severity
  ≥ 6) does not match critical, which is 6. The anomaly result is discarded, so the
  policy for kind 41 never fires; nothing produces kind 77.
- `g_pipeline_detections` counts a policy match, an incident and up to two matches as
  a detection each, up to four for one event.
- `readRecord` returns null for a failed allocation as for a record that is gone, and
  a search skips either (`handler_registry.zig:473`); the search follows a count that an
  appending pipeline moves (472); `appendWrapped` would misalign a ring that is not a
  whole number of records (not this one).

Sensors:

- Nose reader: after its first client the pipe stays in blocking mode
  (`nose_pipe_reader.zig:239`), so a stop may find it in a call that does not return, and
  the owner in the join of it (`daemon.zig:81`);
  its header (lines 32-34) says non-blocking. Frames of a client that leaves between
  two polls are discarded (line 221); the frame that triggers a redial is dropped by
  `Send` (`pipe_writer.go:130`).
- File sensor: a `CancelIoEx` between two reads cancels none; five seconds later the
  session is freed while its thread is still in the next read (`fim_native.c:101-107`).
  `LifetimesNest` shows that this is the only case. A batch over 16 KiB is discarded and
  reported as no data (lines 119-124), against "preserves completion bytes under a lock"
  (`docs/runtime/NATIVE_GATES_IMPLEMENTATION.md:17`). `FimWatcher.poll` returns at the
  first directory with data, so that a busy one can keep the later ones from being
  heard; a failing read ends the thread and leaves its readiness.
- Process sensor: when `CreateThread` fails, the handle stays set and the properties
  pointer dangles (`etw_native.c:239-245`; the daemon does not call again); when
  `OpenTrace` fails, `g_etw_ready` stays true (165). Events before `set_callback` are
  dropped.

Drivers:

- The one reader of the file-system driver, a thread of the older entry point, waits in
  `FilterGetMessage` (`capture/minifilter_reader.zig`), which the driver never answers: it
  only replies to messages. Port name and record layout differ as well. The ring then
  fills and drops.
- The unload tests `g_ClientPort` before it closes it, and a disconnect in between
  closes it too (`aegis_minifilter_comm.c:267`).
- The network driver's ring: a ring filled to its last byte looks empty to both sides, and
  its contents are lost (`aegis_wfp_callout.c:90`). The reader, also a thread of the older entry
  point, takes 64 KiB at a time, which cuts a 44-byte record
  (`capture/windows_capture.zig:14`); comments speak of
  a 40-byte header, the reader's struct has 48 bytes (lines 111-131), and a deferred
  shutdown closes the device before the reading loop (85-87).
- The unload unregisters the callout at run time before the filter that refers to it is
  deleted, at "FAIL-OPEN design" (`aegis_wfp_callout.c:8`, 258-275).
- A proof filter of an earlier life makes every further block fail, since one key has one
  filter (`aegis_wfp.c:280, 291`); `g_ProofFilterId` may name an older one (297, 395).
- The Rust adapter never closes the device (`rust-src/lib.rs:355`), so the driver
  cannot be unloaded while the daemon that used it lives.
- `g_prevention_gate_open` is never set (`handler_registry.zig:660`) and no loader marks a
  policy `trusted`: the blocking branches of enforcement are unreachable in this
  build. `WfpDriver` models what they do when the gate is open.

Bridge library:

- "Thread-safe event queue with condition variable signaling" (`aegis_ipc.hpp:13`) and
  "Uses mutex instead of spinlock" (234): there is neither. `core/bridge_init.zig` pushes
  under a *shared* lock; in this build nothing calls it from two threads.
- A second init prints "DEFCON: SAFE" while the label keeps the old level until the next
  alert (`aegis_ipc.cpp:270`). A full queue freezes the alert counters, since an event is
  counted only when the queue takes it.
- The Zig copy of the event has three fields in front that the C++ struct has not
  (`bridge_init.zig:63-83`).
- The parser leaves ports in network order, so the test for DNS never sees 53; an HTTP
  tier overrides a sled's (`aegis_packet_parser.cpp:82-84`); the tier is otherwise not
  written at all.

Outside the models:

- Brain spool (`bridge_init.zig:141-195, 485-510`): a put-back moves the write cursor,
  so the next pop reads the slot behind it (175); its count is raised without a test
  (177); "drops oldest" drops the newest.
- Go log follower (`collector.go:186`): the offset comes from the file's size after
  the scan, so lines appended in between are skipped; half-written lines are dropped
  (157).
- `federation/cluster_coord.zig:734`: an election takes the highest active id of its own
  registry; sensors whose registries differ elect different leaders, and no term tells
  the two apart.

## 7. What is not modelled

Beyond 1.2, inside the modelled components: the field-by-field copy of
`pushCanonicalEvent`; JSON parsing of rules and policies (what they accept is kept);
the text of control replies; `matchFirst`; the `u8` widths of `depth` and
`output_count`, whose limits lie far beyond the shipped rules; the anomaly detector,
whose result is discarded; the tracker's ring of recent evidence, which nobody reads;
the contents of a trace record, of a change notification, of a kernel record and of a
packet event (their lengths and order are kept); the hand-over of bytes through a
buffered IOCTL; `NamedPipeChannel` and the shared-memory ring of the bridge, which
nothing instantiates; termination of a search while the ring is appended to faster than
it is read, on which the code says nothing. The hazards in `PROJECT.json` that no
property covers wholly have a note each.

The C code is 69 thousand lines, of which 63 thousand are what Cython wrote from a few
hundred lines of Python text matching, one file of it in two copies. Those are transcriptions with
reference counting of stateless scoring functions; a model of them would be a model of
Cython. What remains of the C and C++ is: both drivers, both native sensors, the DLL in
front of the network driver, the bridge's queue and parser (modelled), and the adapter
framework, the older WFP pieces and the codec (1.2). The core of the program is in Zig
and Go.

The daemon starts the bridge and shuts it down and pushes nothing into it: `Bridge` is
checked for the clients the repository has (self-test, console, tests).

## 8. Plan

Done, in the order of importance: the queue and its refinement, the lifecycle, the
automaton, the reload, the link to the capture process, the evidence ring, the
processing of an event; then the native sensors, the two drivers and the bridge library;
each with its proofs where the prover reaches and the argument was worth it.

Next, each a module with its own run:

1. `BrainSpool`: the UDP spool, its drain thread and the put-back. Abstract
   specification: a bounded queue that loses only when full. Bounds: 3 slots, 5 messages.
2. `Collector`: the writer of the NDJSON log against the follower; every line is read
   once. Bounds: 3 lines of two halves.
3. `ClusterCoord`: registries, heartbeats and election between 3 sensors, with lost and
   delayed heartbeats; one leader per connected set once heartbeats have settled.
4. `ControlDispatch`: capability check, handler and bounded audit log per request.
5. `Progression`: the canary stages; no stage is skipped, a rollback ends at the start.
6. `EventFabric`: three priorities and their accounting.
7. A run for the score all flows share (`threat_tracker.zig:2`).

Theorems to add: an inductive invariant for each module above with its run; and for a
matcher whose states list all the rules of their patterns, once the code has one, the two
theorems on reports without `OneRuleEach`.
