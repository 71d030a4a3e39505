# nimbus-notify in TLA+

A broker process collects what AI coding sessions report through their hooks and shows
them as segments of a ring on a small device. A red or amber segment asks for a human,
so the two failures that matter are a segment that asks although nothing waits, and a
waiting session that is not shown. These modules model the broker from its source and
check and prove what it promises about the ring.

Line numbers below are those of `src/notify/`.

## 1. The system

| Component | State | Operations | Interacts with |
|---|---|---|---|
| Session states (`broker/session.py`, `state.py`) | none | `verb_to_state`, state classes, `_resolve_wakeup` | called by the event handler |
| Segment table (`broker/segments.py`) | `_sessions`, `_index`, `_used`, `_order`, `_seq` | `register`, `update`, `free`, `evict_stale`, `active_segments` | owned by the broker, under `Broker._lock` |
| Event handling (`broker/server.py` 47-230) | the table | `handle_event`, `_handle_heartbeat`, `_probe_pid` | called by the socket handler and by the Vibe watcher's thread |
| Broker loop (`broker/server.py` 236-372) | `_seq`, `_hb_was_active`, the last frame | `_push_frame`, `_sweep_once` | writes frames to the transport |
| Start and stop (`broker/server.py` 431-510) | the socket file | `_run`, `_socket_alive` | other broker processes, launchd or systemd |
| Frame codec (`broker/frame.py`) | none | `encode_frame`, `decode_frame` | called by `_push_frame`; the device decodes |
| Vibe watcher (`harness/vibe.py` 185-560) | `_pending_tool`, `_lease_cwd`, `_lease_key_by_sid`, `_lease_pid_by_sid`, `_known`, `_ended`, `_primed` | lease scan, approval timers, session directory scan | a thread; calls `handle_event`, is called by it |
| BLE transport (`transport/ble_tx.py`) | mailbox, wake event, session, retry timer, flap log | `send`, `close`, the worker | a thread with its own event loop; the device |
| Serial transport (`transport/serial_tx.py`) | the open port, the name it settled on | `send`, `close` | the broker, under its lock; the device |
| `led-report`, harness adapters (`cli/led_report.py`, `harness/`) | none | one process per hook: read JSON, send one line | the broker's socket |
| Installer, doctor, service install (`cli/install.py`, `server.py` 527-600) | other programs' configuration files | `install_*`, `status`, `doctor` | run by hand |

How they interact: a hook process connects to the socket and sends one event; the event
loop takes `Broker._lock`, changes the table and pushes a full snapshot of it. The Vibe
watcher calls the same handler from its own thread, and the handler feeds the watcher's
timers, each object behind its own lock. Every quarter of the benign window the sweep
evicts dead and silent sessions and pushes the snapshot again. The transport delivers a
frame or does not; nothing is acknowledged.

What is hard here:

- *Two threads, two locks.* Between the watcher's timer lock and the broker's lock each
  thread sees what the other did a moment ago.
- *Nothing is acknowledged.* Frames are lost on a link that is down; the next snapshot has
  to repair the device.
- *Silence means many things.* A session that says nothing is idle, is thinking, waits for
  a human, or is dead. The windows, the heartbeats and the pid probes tell these apart.
- *The BLE worker* awaits in ten places, and frames, disconnects, timers and `close()` can
  fall into each.
- *Processes come and go.* Harnesses are killed, brokers crash and are restarted, two
  brokers meet at one socket path and at one serial port.
- *One process per hook.* Nobody waits for an asynchronous hook: hooks of one session
  overtake each other, meet no broker, or arrive after the session has ended.
- *Files are read while they are written.* The watcher reads locks and `meta.json` files of
  sessions that rewrite them, that crashed, or that ended long before the broker started.
- *Other people's files.* The installer rewrites configuration files that a person edits, and
  can be killed anywhere in between.

What makes each component correct: the table's maps agree and the ring keeps arrival order;
the handler keeps no wake-up armed behind a call to action, whose next idle prompt would hide
it, and never lets an inference or a heartbeat create a session; a report that arrives sets the ring right; the sweep evicts the silent and nobody
else; the frame pushed last is the table; a timer belongs to a call; a directory or a lock
starts and ends its session once and under one key; the worker loses no wake-up and never
shows an older frame; one broker owns the socket and the port; a frame decodes to what was
encoded; what a person wrote into a file stays, and a second run of the installer does
nothing.

## 2. Modules

| Module | Models | EXTENDS / INSTANCE |
|---|---|---|
| `SessionStates` | verbs, states, `_resolve_wakeup` | |
| `SegmentAllocator` | the allocator's operations, as operators from table to table | `SessionStates` |
| `EventHandling` | the handlers and the evictions of a sweep, as operators on the table | `SegmentAllocator` |
| `Ring` | what the ring promises, the abstract specification | |
| `Broker` | the broker process: reports, heartbeats, ticks, sweeps, restarts, the link | `EventHandling`, `Ring` |
| `VibeWatcher` | the watcher thread beside the event loop | `EventHandling` |
| `VibeScan` | the two directory scans of the watcher, and the files they read | |
| `HookDelivery` | agents, their hooks, `led-report` processes, and the broker that serves them | `EventHandling` |
| `BleTransport` | mailbox and worker | |
| `BrokerLifecycle` | processes at the socket path | |
| `SerialLink` | the serial transport of every process, and the device they share | `BrokerLifecycle` |
| `Lists` | loops over lists, as recursive functions | |
| `FrameCodec` | bytes of a frame | `Lists` |
| `SettingsFile`, `VibeFiles` | what the installer makes of a JSON and a TOML file, as operators | `Lists` |
| `Installer` | the jobs of the installer on a file, step by step | `SettingsFile`, `VibeFiles` |
| `MC*` | the definitions that instances for TLC need, where a `.cfg` cannot give them | the module they are named after |
| `EventHandlingProofs` | proofs about the table and the handlers | the base of the next three |
| `BrokerProofs` | proofs about the broker and the ring | |
| `HookDeliveryProofs` | proofs about the delivery of hooks | |
| `VibeWatcherProofs`, `VibeScanProofs` | proofs about the watcher | |
| `BleTransportProofs` | proofs about the BLE worker | |
| `SerialLinkProofs` | proofs about start and stop and about the port | |
| `LoopProofs` | proofs about the frame codec and the installer, and the laws of lists they share | |

`EventHandling` is the part that `Broker`, `VibeWatcher` and `HookDelivery` are composed with:
the same operators serve a broker that takes any report from any session, the one thread of
the two that share the table, and a broker that gets what the hooks of two agents send it.

### How state and actions correspond to the code

*Table.* A table is a record with one field per map of the allocator. `age` is `now -
last_event`, which `Elapse` advances for every session. Slots are numbered from 0 as in the
code. A session record keeps the fields some branch reads or the ring shows; the harness
name is left out, because it is fixed at registration and only labels a segment.

*Broker.* A handler runs under `Broker._lock` from its first read to its push, so it is
one action: `SessionStarts`, `SessionReports`, `SessionAppears`, `SessionEnds` are the
branches of `handle_event`, `Heartbeat` is `_handle_heartbeat`, `Sweep` is `_sweep_once`
with the dead-process eviction, the window eviction, the snapshot heartbeat and
`_hb_was_active`. `pushed` is the last frame handed to the transport, `device` the frame
shown. `Retains` tells a transport that sends its last frame again when the link returns
(BLE) from one that does not (serial). The sweep is on time: `Tick` waits for it.

*VibeWatcher.* Each locked section is an action. A hook is two: `HookArrives` does what
`handle_event` does to the timers, `HookApplies` what it does to the table. A pass of the
watcher (`_run`) is its sequence of calls. `ScanLeases` takes the snapshot of the leases and
partitions the keys, then come `EndKey`/`EndFrees`/`EndClears`, `StartKey` and `BeatKey` once
per key. `ScanDirs` takes that of the directories (`_scan_sessions`), of which it cannot read
some that are there (`torn`, remembered in `unread` for the pass); `StartDir` starts the new
ones and those whose working directory was just named, `EndDir` ends the missing ones in the
same two steps. `CheckTimeouts` takes the expired timers out and `InferApproval` reports each.
A run stands for a Vibe session and the process holding its lease; the hooks of a legacy run
carry that process (`HookPid`), those of a unified one cannot.

*VibeScan.* A session writes its files (`Opens`, `NamesProcess`, `Saves`, `Exits`, `Crashes`,
`Deletes`), and a pass of the watcher is `ScanLeases` and then `ScanSessions`, each with the
files it cannot read at that look (`torn`, `tornLock`) as it pleases. `ring` has the keys that
were started and not ended since; `Restarts` is a new broker, which forgets everything but
finds the same files. `VibeWatcher` has the calls of both scans one by one, beside hooks and
sweeps and with leases that can always be read; `VibeScan` has what the scans read, with torn
leases, locks without a process, crashes and restarts. The two share no state.

*HookDelivery.* `stage` is what an agent is doing, and only `Fires` with a wired event starts
a `led-report` process; `hooks` is the set of those of a session that are still running.
`Sends` hands its line to the broker, `GivesUp` is the `OSError` that is passed over. `fired`
and `heard` number the reports of a session; the code has no such numbers, they only say which
report a segment shows.

*BleTransport.* Each stretch of the worker between two awaits is an action; `worker` says
at which await it is. Frames are numbers in the order they are sent. `link = "silent"` is a
peer that vanished without a disconnect callback.

*BrokerLifecycle.* The look at the path, the probe, the unlink and the bind are actions of
their own. A process ends as `down` (stopped), `refused` (it gave up with an error) or
`crashed` (killed at any point); the last two are what a supervisor starts again.

*SerialLink.* `LinkNext` is a step of a process, of the device, or a push. `Send` is the whole
`send` with `_ensure_open` and `_close`. A handle is `dead` when the device has gone since it
was opened, which the process finds out with its next write. Every process from its start to
its end may push: the transport and the watcher exist before the guard (`server.py` 461).

*Installer.* One file at a time, which is what a job works on. A step is a call that touches a
file: the read with the merge, the truncation and the writing of `.bak` and `.tmp`, and the
replacement. `Killed` and the edits of the user come in between. A TOML file is a sequence of
kinds of lines, because the code goes through lines; a JSON file is what `json.loads` returns.
A loop of the code over lines, groups or rules is a `Fold` over the list.

*FrameCodec.* Bytes are bytes: the CRC is the real one with its exclusive or written out bit by
bit, a title is a sequence of codepoints of which only the width in UTF-8 is kept, and the
length byte wraps at 256 as it would. The loops of `encode_frame` and `decode_frame` over
segments carry what the code carries: the room left for titles and the bytes written, and the
place of the reader with the segments it went through. Bytes that pass the checksum and are no
frame make `decode_frame` raise (`Unframed`, `Raised`); nothing the encoder writes does. The loop of
`_crc8` runs over two halves of the data one after the other (`FirstHalf`, `SecondHalf`): TLC
evaluates a loop by recursion, and 255 levels of it exhaust its stack.

## 3. Runs

The defaults of the code are 120 s (benign), 300 s (call to action), 600 s (running and seen
alive), a sweep every 30 s. Every action compares an age with the window of one state, never
two windows with each other, so what matters is which state outlives which. The runs use 1 for
the benign window and 2 for the other two: a call to action and a turn in flight outlive a
session at rest. That a turn (600 s) outlives a call (300 s) is not kept; the theorems of
section 5 about the windows hold for any three of them.

| Run | Shows | Bounds |
|---|---|---|
| `broker_safety` | table consistent, ring refined, frame current, nobody overstays, a call keeps its segment for its window, and no wake-up is armed behind one | 3 sessions, 2 slots, 1 process, 3 registrations per life, windows 1/2/2, verbs `start`, `running`, `approval`, `done`, `wakeup`, `notify:idle_prompt` |
| `broker_live` | idle sessions and dead processes leave, a populated ring repairs a lossy link | 1 session, endless reports and heartbeats, link drops at will |
| `vibe_own` | timers belong to calls, inferences create nothing; an open session keeps its segment unless it ages out at rest or its `meta.json` could not be read at this look | 2 runs, own keys, one unified and one legacy, 1 slot, 2 registrations |
| `vibe_stall` | a stalled tool is shown | 1 run with a lease |
| `vibe_scan` | one key per session, no past session, no guessed end; the ring follows the leases | 2 sessions: both unified in one directory, or one unified and one legacy; any number of restarts |
| `hook_delivery` | reports set the ring right, synchronous ones keep order, ended sessions leave | 1 Claude and 1 Codex session on 1 slot, 4 hooks in all, any number of broker restarts |
| `ble_worker` | no lost wake-up, no older frame, no stray retry; the latest frame arrives, a silent link ends, `close()` ends | 3 frames sent any number of times, one too long, 2 flaps recycle; a write to a vanished peer fails (`WritesFail`) |
| `serial_link` | one broker, reachable, and a dead socket blocks nobody; the device shows its frames | 3 processes, one on the move at a time, 1 port |
| `install_files` | the user's part is kept, a second run does nothing, the copy is there first | all TOML files of up to 3 lines of 7 and 6 kinds, all settings of 2 events and 2 rules over 5 values each, 1 edit |
| `frame_codec` | length, round trip, titles, damage | 0-2, 8, 9 and 16 sessions, six kinds of title |

Why the bounds are enough. Three sessions on two slots is the least with a refused newcomer, a
recycled slot and a survivor whose place must not move. The wake-up code looks at one record
at a time, and the verbs of `broker_safety` are one of each kind it tells apart: a start,
work, a call to action, a turn end, the arming of a timer, and the idle prompt. The
registration bound caps the birth stamps, and three let every session be born again after a
recycled slot. The liveness of `broker_live` is about one session and the link; other sessions
would only add frames that repair it earlier. Two Vibe runs are the least of which one can
take the segment of the other, and one slot makes them compete for it; they share a key in
`MCVibe_shared.cfg`. Three frames are the
least in which a frame waits while another is written and a third overtakes it. Three
processes let one serve, one be refused and one come back after a crash. Two agents on one
slot are the least with a refused report, and four hooks let one agent end, come late and be
refused while the other takes the slot; `MCHook_wide.cfg` has five. Three lines hold a block
of ours with a line before or behind it, and the proofs cover any number. Two scanned sessions
are the least that share a directory. Titles stay below, at and above the cap, and the ring
sizes are those at which the room for titles is more than, just less than and far less than
what 24-byte titles need. A single flipped bit damages a packet of up to `MaxDamaged` bytes,
behind the length byte, which the checksum does not cover; `DamageSeen` is about any one byte
there. Damage of the length byte or of several bytes is not modelled.

Three runs hold under an assumption that hides a hazard, and a configuration below shows what
happens without it: starts and stops of brokers come one at a time (`MCLife_starts.cfg`,
`MCLife_stops.cfg`), a write to a vanished peer fails (`MCBle_halfopen.cfg`), and Vibe runs in
`vibe_own` have a key each (`MCVibe_lastlease.cfg`).

`broker_safety` uses symmetry in the session ids; no run with a liveness property does.

### Runs that disagree with a document

Each is a claim of a comment that the code does not keep. They are in `PROJECT.json` with the
quoted line.

| Run | What happens |
|---|---|
| `broker_latch` | a new pid inherits "seen alive" from the old one |
| `vibe_race` | a turn ends between the expiry of the timer and the report of the inference: false amber |

### Further configurations

They answer smaller questions and are kept to be run by hand
(`tlc -config MCBle_flap.cfg BleTransport`). These pass:

| Configuration | What it shows |
|---|---|
| `MCBroker_link_ble.cfg` | a link that sends its last frame again when it returns repairs an empty ring too |
| `MCVibe_shared.cfg` | two runs on one key: timers belong to calls, inferences create nothing |
| `MCVibe_scanwide.cfg` | the safety of the scans for every mix of legacy and unified sessions, and without leases |
| `MCHook_wide.cfg` | reports set the ring right with 2 slots and 5 hooks (some minutes) |

These end in a counterexample. Where the last column names a line, that line says otherwise.

| Configuration | What it shows | Against |
|---|---|---|
| `MCBroker_link_serial.cfg` | the all-clear is sent twice at most; serial retains nothing, so a device may keep the last segment | `server.py` 365 |
| `MCVibe_unleased.cfg` | before Vibe 2.25 nothing refreshes a stalled session, and it can be evicted in the moment its approval would be inferred | |
| `MCVibe_lastlease.cfg` | the death of one process evicts the segment another session shares | `docs/protocol.md` 158 |
| `MCVibe_torn.cfg` | the directory scan ends a session whose `meta.json` cannot be read at that look, and never starts it again | `vibe.py` 384 |
| `MCVibe_revive.cfg` | a directory that the scan sees only after its session is over starts the session, leases or not | `vibe.py` 26 |
| `MCHook_async.cfg` | two asynchronous hooks overtake each other, so that a call to action vanishes while pending | `server.py` 104 |
| `MCSerial_renamed.cfg` | a port that was detected is remembered for good, so that a device that returns under another name is not found | `serial_tx.py` 5 |
| `MCInstall_claims.cfg`, with `-continue` | `CommentsKept`: comments behind a block of ours are removed with it | `install.py` 416 |
| | `LegacyFlagSet`: a comment that has the flag in it counts as the flag | `install.py` 381 |
| | `MalformedRefused`: a `settings.json` whose `hooks` is no object ends the whole command with an exception | `install.py` 275 |
| `MCBle_flap.cfg` | the age of a session counts the scan (`ble_tx.py` 270, 287), so a short session after a long scan is no flap | |
| `MCBle_halfopen.cfg` | on a stack that never fails a write to a vanished peer the worker waits in the write and never probes | |
| `MCLife_starts.cfg` | the check and the bind are separate calls, so two brokers that start at once both serve | |
| `MCLife_stops.cfg` | a stopping broker removes its successor's socket, so that a third one starts beside it | `server.py` 467 |
| `MCFrame_mtu.cfg` | a v2 packet exceeds the 71 bytes on which the MTU check relies (`ble_tx.py` 82) | `docs/protocol.md` 28 |

Two assumptions can be dropped by changing one line of a configuration: with `LockFirst = TRUE`
(a lock can be there before the directory of its unified session) `MCVibe_scanwide.cfg` shows
such a session twice; with `Racing = TRUE` (a person edits a file while a job is at it)
`MCInstall_files.cfg` loses an edit made between the read and the replacement.

## 4. Fairness

- *Broker*: weak fairness of `Tick`, `Sweep` and `BrokerStarts`. Time passes, `_ttl_loop`
  survives any exception of a sweep, and the service unit starts a broker again. Reports and
  links have none: sessions may fall silent for ever and a link may stay down.
- *VibeWatcher*: weak fairness of a hook in progress and of the watcher's pass, strong
  fairness of `Sweep` and `Tick`: asyncio serves a due timer between two hooks however many
  hooks arrive, and hooks do not stop the clock.
- *BleTransport*: weak fairness of the worker's steps and timers, strong fairness of
  `SeekFinds`: a scan repeated for ever beside an advertising device finds it. The device, the
  link and pairing have none. `LatestArrives` assumes that the link holds from some time on
  (`Calm`), and it and `SilentLinkEnds` except a latest frame that is too long for the
  link, which is dropped (`ble_tx.py` 458).
- *BrokerLifecycle*: weak fairness of the steps of `_run` and of `StartAgain`, which is
  `KeepAlive` in the launchd plist and `Restart=on-failure` in the systemd unit
  (`server.py` 554, 576). A broker that was stopped is started by nobody.
- *SerialLink*: that of `BrokerLifecycle`, and that the broker that serves pushes again and
  again, also at moments at which the port can be opened: the snapshot heartbeat comes every
  30 s, while a process that will be refused is gone within a second. The device has none.
- *VibeScan*: the watcher's pass goes on, a lock that nobody touches gets old, and a rewrite
  does not hit every look that the lease scan takes at one file: the looks are 2 s apart and
  a rewrite takes milliseconds. Sessions have none.
- *HookDelivery*: weak fairness of the hook processes and the broker taken together, since
  none of them waits for another. Agents have none.
- *Installer*: none, it has no liveness property.

## 5. Proofs

All for every value of the constants that satisfies the named assumptions.

| Theorem | Says |
|---|---|
| `BrokerProofs!TypeCorrect` | `Spec => []TypeOK` |
| `BrokerProofs!TableConsistent` | `Spec => []TableOK` |
| `BrokerProofs!ArmedIsQuiet` | `Spec => []ArmedNeverCTA` |
| `BrokerProofs!NobodyOverstays` | `Spec => []SilenceBounded` |
| `BrokerProofs!FrameIsCurrent` | `Spec => []PushedCurrent` |
| `BrokerProofs!HumanIsWaitedFor` | `Spec => HeldForTheHuman` |
| `BrokerProofs!BrokerImplementsRing` | `Spec => RingSpec` |
| `HookDeliveryProofs!HookTypeCorrect` | `Spec => []TypeOK` |
| `HookDeliveryProofs!SyncInOrder` | `Spec => SyncReportsKeepOrder` |
| `HookDeliveryProofs!RingShowsTheTruth` | `Spec => []RingCatchesUp` |
| `BleTransportProofs!WorkerTypeCorrect` | `Spec => []TypeOK` |
| `BleTransportProofs!WakeUpsAreKept` | `Spec => []NoLostWakeup` |
| `BleTransportProofs!DeviceNeverGoesBack` | `Spec => NeverOlder` |
| `VibeWatcherProofs!WatcherTypeCorrect` | `Spec => []TypeOK` |
| `VibeWatcherProofs!TimersFollowCalls` | `Spec => []TimersAreCalls` |
| `VibeWatcherProofs!LateInferenceIsDropped` | `Spec => InferenceNeverRegisters` |
| `VibeWatcherProofs!OwnSegmentStays` | `Spec => OpenSessionKeepsSegment`, if runs hold leases and share no key: besides ageing out at rest, only the directory scan takes the segment of an open session, one whose `meta.json` it could not read in this pass |
| `SerialLinkProofs!GuardKeepsOneBroker`, `!GuardKeepsSocket` | `[]SoleBroker` and `[]ServingReachable`, if brokers start and stop one at a time |
| `SerialLinkProofs!LinkTypeCorrect` | `SerialSpec => []LinkTypeOK` |
| `SerialLinkProofs!PortIsExclusive` | `SerialSpec => ServerKeepsDevice`, without that assumption |
| `SerialLinkProofs!GuardHoldsWithLinks` | `SerialSpec => []SoleBroker`, with it, as the links implement `BrokerLifecycle` |
| `VibeScanProofs!NoSecondKey`, `!PastStaysDark`, `!EndIsNeverGuessed` | `[]HookKeysOnly`, `[]HistoryStaysDark` and `EndMeansGone`, if a unified session's lock is not there before its directory |
| `LoopProofs!CodecInvariant` | `CodecSpec => []CodecInv`, the inductive invariant of the four below |
| `LoopProofs!LengthField` | `CodecSpec => []LengthHonest` |
| `LoopProofs!ShownInPlace` | `CodecSpec => []RoundTrip` |
| `LoopProofs!TitlesShownWhole` | `CodecSpec => []TitlesWhole` |
| `LoopProofs!DamageSeen` | `CodecSpec => []DamageDetected` |
| `LoopProofs!UsersStay` | `Spec => []UsersKept`, if nobody edits a file while a job is at it |
| `LoopProofs!RerunChangesNothing` | `Spec => []RerunIsNoop`, with the same assumption |
| `LoopProofs!CopiedBeforeReplaced` | `Spec => BackupFirst`, with it |
| `LoopProofs!OldOrNewWhole` | `Spec => OldOrNew`, with it: a file becomes what the user writes, or in one step the whole of what a job makes of it |
| `LoopProofs!HooksStayAndSettle` | `Spec => []HooksMergedOnce`, with it: the hooks of a `settings.json` are the user's, or these merged once, which a second merge leaves as they are |
| `LoopProofs!MergeKeepsGroups` | of `MergeHooks`, for any file: an event stays as it is, or had none of ours, keeps its groups at their places and gets exactly one more, which is ours |

*The broker.* None of the first four invariants is inductive alone: whether a record may be
armed depends on its state having a window, its window on a pid latch that a probe may set,
and its age on the sweep having run, while well-formed maps are needed to say which record an
update reaches. The inductive invariant `IInv` puts them together as `TableGood(table,
sinceSweep)`. `EventHandlingProofs` shows that each operation of the allocator keeps the maps
consistent, that each handler keeps `TableGood`, and what a handler leaves alone;
`BrokerProofs` has then one lemma per step of `Next`, and `HookDeliveryProofs` and
`VibeWatcherProofs` cite the same lemmas. `PushedCurrent` needs that a broker that is down has
an empty table, and that a heartbeat changes nothing a segment is made of. `HeldForTheHuman`
follows from both in one step: a report and a heartbeat free no segment but that of a session
that ends, and a sweep evicts by age only what has outstayed the window of its state. The
least free slot comes from a minimum principle on the naturals, `LeastNatural`. Assumptions:
windows are natural numbers and the benign one is positive, there is at least one slot, host
and foreign pids differ.

*The refinement.* `BrokerImplementsRing` maps `members` to the sessions of the table and `before`
to the order of their birth stamps. Registering is a `Join` because a free slot means room:
sessions hold distinct slots (`TableInv`), so there are fewer of them than slots. Any eviction
and any end is a `Leave`; all else stutters.

*The delivery of hooks.* What makes the ring true is not in the state: which stage the agent
was at when it fired the report a segment shows. `Histories` says that for each session there
is a function from report numbers to stages that fits everything there is: it starts at `off`,
its last value is what the agent is doing, each hook under way leads from one value to the
next, and the segment shows the value of the report heard last, as long as no later one is
lost. The step that needs this is a report whose effect depends on what was there (a start in
the middle of a turn, an idle prompt after a timer was armed), which is why the ring is true
only when the last report heard was the last one fired. `SyncOrdered` is the order of the
queue, for agents that wait for their hooks.

*The BLE worker.* `NoLostWakeup` is about a link that works, but a link may fail and come back
while the worker waits, so that `WorkerWillLook` says the same of every link. It needs to know
what a write carries (`WriteIsCurrent`): the frame in the mailbox, unless a wake-up for a later
one is under way that is not the pairing retry, for a write that succeeds takes the retry back.

*The watcher.* `TimersAreCalls` is inductive: only the arrival of a hook adds a timer or
answers a call, and it does both under one lock; every other step only drops timers. The table
is good whichever lock either thread holds (`Typed`), so that the handler's lemma about
updates gives that an inference finds the session or does nothing. `OwnSegmentStays` needs to
know what the watcher carries from one call to the next (`Own`): what it is about to end is
over or could not be read in this pass, a directory it knows is there or its session is over
(`OwnDirs`), and a session with a turn in flight was heard in this tick, or in the last one with
the pass that refreshes it still to come. Its two hypotheses are needed: `MCVibe_unleased.cfg`
has no leases and `MCVibe_lastlease.cfg` a shared key, and both lose a segment. So is the
exception: `_scan_sessions` ends a session whose `meta.json` it catches half written, which
`MCVibe_torn.cfg` shows as a property of the files.

*Start and stop.* `GuardInv` adds that one process moves at a time and that nobody serves
while one clears, binds or closes. The two overlaps the theorems exclude are the two that
`MCLife_starts.cfg` and `MCLife_stops.cfg` show to break it.

*The serial link.* `LinkInv` says that at most one handle is open, on the device and under the
name that is settled on. A push of another process finds the port taken, so that it neither
opens it nor writes: this holds whatever the guard does. `SerialSpec => Spec` then carries the
guard's invariant over, because a push and a step of the device leave the processes alone.

*The scans.* `ScanInv` ties the watcher's memory to the files: a remembered key is that of a
session that was read, a remembered process id that of a lock that named one, and what was over
at a restart has neither a lock that counts nor a directory outside the baseline. That a key is
never guessed then follows from what a scan may fail to read.

*Induction over lists.* The theorems of the library take the induction hypothesis as an
operator, which the provers cannot instantiate. `LoopProofs` does without: what is to be shown
of all lists is the set of the lists it is true of, and `ListInduction` says that a set with
the empty list, and with `Append(s, x)` for each `s` in it, has all lists. It follows from the
minimum principle (`LeastNatural`). A loop is `Fold`, a recursive function with the step as a
function; `FoldLaw` says what it computes of the empty list and of `Append(s, x)`, and needs
only that the step stays in some set of values, which is why the steps of the modules have
domains.

*The frame codec.* `CodecInv` says that the packet is what `encode_frame` makes of the ring,
up to one byte behind the length field if it was damaged, and that a frame is what
`decode_frame` makes of the packet. The rest is about these two functions, for every ring of
at most `MAX_SEGS` segments. A byte of a title never goes unaccounted for (`ExtendedLength`),
so that a payload has at most 255 bytes and the length field does not wrap. The step of the
checksum is one-to-one in the byte and in the checksum before it, so that after one altered
byte the two never meet again (`OneByteIsSeen`). A reader that goes through the extension of
the first segments shows these in their places and ends where the writer ended; the statement
that is inductive says this for whatever bytes follow (`ReadsBack`). Cutting a title at the
cap gives a whole beginning of it and the longest one, by induction over its codepoints
(`AlwaysDecodable`, `CutLaw`). The only assumption is `CodecAssumption`.

*The installer.* `BackupInv` says what each stage has copied, `WholeInv` that a job goes on
only with what it can merge and that a complete `.tmp` is what it makes of the file that is
there. `KeptInv` adds that the file has what is the user's (`UsersKept`) and that the jobs that
are settled find nothing to do (`RerunIsNoop`); neither is inductive without the other two,
because what a replacement does is known only from the `.tmp`. It rests on what each job does
to one file of any length: `LinesAfter` for a TOML file, whose blocks are found by an induction
over its lines (`AlwaysSplits`: taking the blocks apart and putting them together is the file,
as its parser sees it), and `SettingsAfter` for the groups and rules of a `settings.json`.
`FilesFit(G, R)` says what the files are at first, for any set `G` of groups and `R` of rules:
lines of the kinds the code tells apart, and settings whose hooks are a map to sequences of
groups or malformed; and that a file that is not there, an empty one, and text that is no JSON
are no such file. That nobody edits during a job is needed: with `Racing = TRUE` an edit is lost.

*Model-checked only.* Liveness under fairness and anything with `ENABLED` is out of the
prover's reach: `ActiveRingHeals`, `IdleAgesOut`, `NoGhosts`, `StalledToolShows`,
`ClosedIsEnded`, `OpenIsSeen`, `EndedSessionsLeave`, `LatestArrives`, `SilentLinkEnds`,
`CloseEnds`, `ServesAgain` and `DeviceFollowsServer` stay with TLC. Every invariant and every
action property of a passing run is stated by a theorem above.

## 6. Not modelled

- Parallel tool calls of one Vibe session: the models keep one in flight.
- The JSON that hooks read, the `codex-notify` program of `led-report`, and wrong arguments.
- The choice of the transport, the status query and `status.json`: they keep no state, or
  nothing reads it back. Doctor, `status` and dry runs, which only read and print.
- The service files: written once; the restart policy in them is a fairness assumption.
- Changes of the Vibe version, which decide between the two templates of hooks.
- The device: it is the frame it shows. The baud rate and the reset lines of its port.
- Several installers at once, and what an earlier one left behind as `.bak` or `.tmp`, which is
  written anew before it is used.
- The two 30 s timers of the BLE link against each other: when pushes keep an idle link busy.
- Which other exceptions the BLE library raises, and end the worker with.

## 7. Plan

Order of the modules: table, handlers and broker first, because every property a person sees
rests on them; then the two concurrent components, the watcher and the BLE worker; then start
and stop and the bytes; then what surrounds the broker: the delivery of hooks, the directory
scans, the serial link, and the installer. All of these exist. Next, in this order:

1. *Parallel tool calls*: several calls of one session in flight behind one timer.
2. *Claude's order*: what an asynchronous hook that overtakes a call to action costs, and what
   repairs it.
3. *Proofs*: which hypotheses weaker than `OwnKeys` still keep an open session's segment.
