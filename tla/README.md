# TLA+ models of wasm-dolphin

wasm-dolphin runs the Dolphin GameCube emulator in a browser: Dolphin compiled to
WebAssembly inside a worker, its threads as nested pthread workers, and JavaScript on
the page and in the worker for everything Dolphin would ask of an operating system.
What makes that JavaScript hard is that the threads share memory, the two event loops
exchange messages, and every handler that awaits can be overtaken. These models are
about that: the shared-memory protocols (audio, commands, input), the request/response
protocol that loads the core and mounts discs, the transport that carries uploads to the
GPU through mapped buffers, and the persistent cache of compiled blocks.

Paths below are relative to `src/wasm-dolphin/`; `worker` is `src/upstream-discio-worker.js`.

## 1. The system

| Component | State | Operations | Talks to | Hard behaviour | Correct when |
|---|---|---|---|---|---|
| **Audio PCM ring** `audio-pcm-ring.js`, `audio-pcm-producer.js`, `audio-worklet-processor.js` | header words (write, read, state, epoch, acknowledged epoch), samples; the producer's `ring`, `muted` | install, stop, setMuted, transition, refill; consumeAudioPcm per quantum | shared memory between worker and audio thread | two threads, one lock-free ring; flush by epoch handshake; index words wrap | fresh frames only, in order, no gap; a muted ring is silent; an unmuted one ends up playing |
| **WebGPU command ring and upload arena** `WebGPUCommandStream` in `patches/dolphin-wasm/snapshot/00{06,11,15,23,27}*.patch`; `drainWebGpuCmdRing` and around in the worker; `wgpu-upload-watermark.js`, `wgpu-replay-diagnostics.js`, `wgpu-ring-backpressure.js` | record slots, payload arena, read/write/uploadRead words, failure word; staged uploads, held suffix, load fence, deferral count | push of records and whole passes, upload reservation; drain (replay, stage, discard), device loss | shared memory between Dolphin's video thread and worker; GPU queue | bounded ring *and* bounded arena with different release points; passes must be replayed whole; both sides wait for each other | every command replayed once, in order, pass by pass, with its own payload; no deadlock; failure is seen |
| **Input transport** `input-transport.js`, `upstream-worker-adapter.js`, worker, `core/upstream/dolphin_web_discio.cpp` | shared words with sequence and generation; last posted and last applied state; message queue; the core's snapshot | setInputState, setInputMask, reset; poll, apply | shared memory *and* messages carry the same states | torn reads; two channels that overtake each other; wrapping counters; messages skipped under back-pressure | no torn snapshot, never back to an older state, a held state arrives |
| **Session** `app.js`, `core-host.js`, `upstream-worker-adapter.js`, `upstream-worker-protocol.js`, worker, `core/upstream/dolphin_web_core.cpp` | page mode and game; table of pending requests; worker's module, mounted flag, file system; the core's volume and running game | open disc, load, mount, boot, start, pause, reset, frame poll; replies, error events | messages with ids, promises | awaits in the middle of handlers, retries while the first try still runs, half of a mount failing | one core, booted only when configured; readable discs mount; every request settles; buttons do what they say |
| **Renderer runtime** `wgpu-renderer-runtime.js`, `wgpu-replay-quiescence.js`, `wgpu-device-lifecycle.js` | attached ring, last session and heap generation | attach, detach, publish, quiesce | command ring | quiescence judged from samples | detached only when empty or failed |
| **Mapped upload staging** `wgpu-mapped-staging-pool.js`, `wgpu-mapped-drain-coalescer.js` | slots, batches, map promises, generation, deadline timer | stage, seal, accept, reject, invalidate; boundary, force, timer, reset | GPU queue, drain, `quiesce` | a full pool, late promises, stale timers, failures between two of them | the GPU sees what direct writes would have put there, whenever it looks; nothing pending is forgotten |
| **JIT cache and pthread barrier** worker 5253–6100, `jit-cache-identity.js`, `jit-cache-prejs.js` | cache map, rows and stamp in IndexedDB, barrier generation and counts, each pthread's own cache | reconcile, clear, stamp, boot load, seed, lazy fill, distribute, barrier, new compilations | pthread workers, IndexedDB | tabs closed between two transactions, late acknowledgements, pthreads added late, writes beside reads | rows are never taken for another build's; a cache reported ready is everywhere |
| **Presentation** worker 3030–3420, 4095–4130 | frame queue, clocks, watchdog counters | tick, capture, present, recover | core, canvas | timers against frame signals | newest complete frame shown |
| Page, settings, telemetry, diagnostics, projections, semantic checks, other adapters, tools | | | | | not modelled, see section 9 |

The components meet in the worker's event loop. It serves the adapter's messages
(*Session*, *Input*), runs the drain from a timer and from the presentation loop
(*Command ring*), and refills the audio ring from a timer (*Audio*). One event at a
time: within the worker only an `await` lets another handler in. Against the video
thread, the audio thread and the page's writes to shared words nothing is atomic but
one `Atomics` access.

## 2. Plan

1. **Core (done)**: `AudioPcmRing` with `AudioFifo`, `CommandRing` with `ReplayQueue`,
   `InputTransport` with `LatestInput`, `Session`; proofs for audio and input.
2. **Renderer**: `MappedStaging` (done: pool, coalescer, drain boundaries and `quiesce`);
   attaching and detaching a ring (left).
3. **Worker internals**: `JitCache` (done);
   `Presentation` (frame queue, ticks, watchdog) and save-state files (left).
4. **Pass state cache** as operators over command sequences: replaying with the cache
   equals replaying without it.
5. **Proofs**: all safety of `Session`, `JitCache`'s types, store and fence, `CommandRing`'s types,
   indices, whole passes, payloads and refinement, all safety of `MappedStaging`, `AudioPcmRing` and
   `InputTransport` with their refinements (done); the arena in legacy mode (left).

## 3. Modules

| Module | Models |
|---|---|
| `RingArithmetic` | facts about `%` and about the entries of a queue that the proofs share |
| `AudioFifo` | what the audio path promises: a queue of frames that a request empties |
| `AudioPcmRing` | ring, producer and worklet; one action per shared-memory access |
| `AudioPcmRingProofs` | theorems about it |
| `ReplayQueue` | what the command ring promises: published records leave in order, or are dropped by an announced discard, or everything stops |
| `CommandRing` | video thread, worker drain, shared ring and arena |
| `CommandRingProofs` | theorems about its indices, its records and its passes, and that it implements `ReplayQueue` |
| `CommandRingArenaProofs` | theorems about its upload payloads, what is staged of them, and its types |
| `LatestInput` | what the input path promises: a register that only moves forward among the states offered |
| `InputTransport` | adapter, shared words, message queue, worker, core snapshot |
| `InputTransportProofs` | theorems about it |
| `Session` | page, adapter, both message queues, worker handlers, cores |
| `SessionProofs` | theorems about it |
| `MappedStaging` | pool of mapped buffers, drain coalescer, drain boundaries, `quiesce`, GPU queue |
| `MappedStagingProofs` | theorems about it |
| `JitCache` | IndexedDB, `loadCore`'s use of it, the worker's map, pthreads and the fence |
| `MCJitCache` | scenarios of `JitCache` for TLC |
| `JitCacheProofs` | theorems about its store, its types and its fence |

All but `JitCache` are instantiated for TLC directly by a `.cfg`; no configuration
replaces a definition. Definitions named `X_Faulty` (and `LoadCore_Unawaited`) stand
before the `X` they imitate: each is a plausible bug, used to see that a property
notices it, and no specification uses them.

### AudioPcmRing
`header` holds the words of `AUDIO_PCM_HEADER`; `ring`'s samples are tagged by the epoch
they were mixed in and their number, so that "fresh" and "in order" can be said.
`producer.pc` and `consumer.pc` point between two atomic accesses. The worker's handlers
run to completion, so while a refill is under way no other handler starts; the audio
thread interleaves everywhere.

### CommandRing
The video thread's two waits (slots, arena bytes) are guards. With an attached
protocol-3 consumer they have no timeout, and they are 4 ms futex waits that look
again, so a missed notification costs time and nothing else. A drain is `StartDrain`, then
per record `ReplayRecord` (an upload takes `CopyUpload` and `ReleaseUpload`), then
`StartStaging`, `StageCopy`/`StageRelease` per held upload, and `EndDrain`, which publishes
the read index once, as the code does. `Discard` is the load fence.
`setup` chooses among replay modes: `atomic` (shipped), `budget` (`?wgpureplayms=`),
`legacy` (`?wgpuatomic=0`), and how passes arrive: `batched` (the shipped pass
transactions), `incremental` (builds before them; the worker still allows for it). `Fenced` names
the producers whose sessions may have `?wgpuloadfence=1`. `ReplayQueue!whole` says of a session that
its passes are taken whole (`TakesWholePasses`); legacy mode, and a fence over passes published record by
record, do not promise that.
A record is its kind, the index it was published at and its byte range; a payload byte
is the index it belongs to. What the GPU does is left out.

### InputTransport
`sab` is the shared words, `adapter` and `worker` what each side remembers, `reader` the
locals of a poll. Every word of a state carries the state's value, so a mixture of two
states is visible. `unapplied` is history: what was offered after the state the core holds.
The model begins after a successful load.

### Session
`mounts` are the page's calls of `mountFile`, each at one of its awaits; a request is a
record in the adapter's `pending` table and a message; `worker.loads` are the calls of
`loadCore` that are under way, each at one of its two awaits; `cores` are the modules the
factory has made, the last of which is current. `Emulate` is Dolphin's CPU thread.
A load may fail at either await (`FailLoad`); once its module is made, the module stays, nobody configures
it, and the next load is answered at once. The browser may refuse the message of the first load, which takes the
canvas along (`RefuseCanvas`): the request's entry stays in the table for ever, and `load()` sends another,
without a canvas, if the error names the canvas (`LoadAgain`). The same retry answers a load the worker
refuses, or an error event, with such a message (`LoadRejected`, `RejectAll`).
The await for audio unmuting is part of the state `starting`. What users and loads may do in
a behaviour is chosen at its start from `Setups` (`budget.may`), so that one run covers
discs opened one after the other with failures and retries, and discs opened on top of
each other, without the product of the two.

### MappedStaging
`slot` is the pool: a slot's bytes hold, per cell, the number of the upload that wrote it
last. `direct` is history: what buffer and texture would hold had every upload been a
`queue.writeBuffer`. Each submission notes it, so "invisible" can be said when the GPU runs the
submission (`RendersSeeTheirUploads`). A drain is `StartDrain`, one `Replay` action per
record and `EndDrain`, the boundary at which uploads alone may be deferred; while it runs no
other event of the worker does, but the video thread and the GPU do. A remap is
one promise per slot in a set per batch (`remaps`), and the hold on a full pool ends with its
batch. `quiesce` (`wgpu-renderer-runtime.js`) runs beside all this. The ring
is two counters: `CommandRing` has the rest.

### JitCache
`store` names, for each block, the build that wrote its row; `stamp` is the metadata, whose
two parts are written in two transactions. `load[l].pc` is `loadCore` between its awaits.
`thread[t]` is a pthread's mailbox in either direction and its own cache. `CloseTab`
wipes all but the disk at any point, and may install another build. `unclean` and `shared`
are history. A batch of the boot load or of the lazy fill (verification and compilation of up to
64 or 16 rows) is one step, and newly compiled blocks whose bytes are invalid, which the worker
drops with a counter, are left out.

## 4. What is checked

| Run | Question | Result |
|---|---|---|
| `audio_ring` | all interleavings of refill, mute, stop, load with quanta, frame by frame | types; flush and refill exclude each other; no stale frame; the first quantum after silence is prefilled; mute is silent; implements `AudioFifo`; epochs are acknowledged; sound resumes |
| `ring_passes` | all replay modes, passes arriving whole or record by record; device loss or a failing submit anywhere | payloads intact, staged uploads wait in the ring, the arena drains empty, passes replayed whole |
| `ring_live` | a pass larger than the arena | no deadlock; a waiting video thread gets its room; complete passes leave the ring |
| `ring_fence` | `?wgpuloadfence=1`: states loaded at any time, passes longer than the window | implements `ReplayQueue`: what is not dropped stays in order, and a fence drops nothing behind an END |
| `ring_fence_uploads` | uploads behind a fence's discard | **violated**, section 7 |
| `input` | shared memory and messages together, shared memory alone, messages alone; masks and any number of resets, posts queued up | no torn snapshot, never back to an older state, implements `LatestInput`, a held state arrives |
| `session` | discs one after the other, good, refused, too small, with a refused canvas and repeated loads, with and without loads that fail early or late and an error event; or discs dropped during a mount, even during the load | never a second core unless discs overlap; no game boots while a load is under way as long as no error event came, and none on an unconfigured core if no load failed; readable discs mount; the page names the mounted disc, or the demo; nobody waits for an answer that is not under way; everything settles but the request whose message was refused |
| `session_early_boot`, `session_pause` | what an assertion and a button say | **violated**, section 7 |
| `staging` | uploads of any size and place in two slots, with and without coalescing; failing remaps and submissions, device loss; `quiesce` at any time | staging is invisible; a healthy GPU never fails replay; a failure is final; `quiesce` returns only when all is done; everything reaches the GPU |
| `jit_cache` | a tab closed at any point and opened with another build, with a failing store; two loads that overlap; pthreads that a post cannot reach or that are added late | rows never taken for another build's; ready means delivered; a fence counts only its own acknowledgements; loads end and keys do not stay reserved |
| `jit_rest` | what a test says of readiness | **violated**, section 7 |

Deadlock is off where the user or the bounds may stop the system (all Session
and JitCache runs, `staging`) or where a failure stops the ring for good (`ring_passes`); the rest run with it on.

## 5. Bounds, and why they are enough

* **Rings**: capacities of 3 to 5 records, 2 to 5 arena units, 4 audio frames, index words of
  two or three times the capacity. Every index wraps several times, every queue is
  full and empty, a pass spans the wrap, the window and the whole ring. Real sizes
  only repeat these positions. Index moduli are multiples of the capacity in the code
  (powers of two) and in the assumptions.
* `Window` 1–3 for 16384 and `DeferLimit` 1 for 8: a pass longer than the window, equal and
  shorter occur. The legacy mode is in `ring_passes` only, for safety: its deferring drains
  do not look at where staging stood, and an index range small enough for a liveness run
  comes round to an old staging start, which 2^32 indices do not.
* `UploadsFit` asks what `ReserveUpload` asks, that an upload is no larger than the arena, and that
  positions have room for an arena and two uploads, so that their differences are exact. The runs' uploads are
  at most half of the arena: beyond that, padding plus upload can exceed the arena, and `ReserveUpload` waits
  for ever. So `ring_live`'s liveness needs such uploads, and one pass's uploads to fit arena plus staging limit.
  That run joins two builds, passes published record by record (before patch 0015) and waits without a limit (0027),
  because an incomplete pass is held back, and its uploads need the staging, only when records arrive one by one.
* No run puts the fence into legacy mode, and the theorems leave that out too (`LegacyIsUnfenced`): section 7
  says what happens there.
* The fence multiplies the states, so it has a run of its own, `ring_fence`, with passes published
  record by record: a discard starts before a pass and within one. That whole passes stay
  whole behind a fence is proved (section 8), not run. No liveness is claimed with the fence: section 7
  says how it starves the video thread.
* In `ring_passes` an incremental producer uploads within passes and a batched one also while it
  records a pass that may never be published, so uploads stand alone in the ring too. Uploads of 2 units
  in an arena of 5 need padding at its end and none elsewhere.
* **Input**: two or three words for nine, generations modulo 10, sequence modulo 8, two
  posts under way, two attempts for three. Assumed is what the code's widths give: posts
  lag less than half a generation cycle, a writer does not complete a whole sequence
  cycle within one read (`OverlapBound`).
* **Session**: three mounts, one after the other with errors (so two retries), a click and
  a poll, with and without failures, or overlapping with games that are followed. Readable, refused and too-small
  discs. The core's bundle is always there and built with WORKERFS: without it `loadCore` throws last of
  all (worker 2029) and no disc could be mounted. Steps of one promise chain
  that the code runs in successive microtasks (`retrying`, `starting`) are actions of their own: other events may come
  between them in the model. An error event comes once a
  module exists, at most one. `PageShowsTheMountedDisc` excludes overlap together with error events:
  section 8 says why.
* **MappedStaging**: two slots of two cells, a destination of two cells and a texture, four
  records (two in sessions that may fail). Uploads share a slot and split over two, overwrite each
  other within a submission and across, are joined and not, find the pool full while
  another batch is being remapped. A third slot adds no new relation between two batches.
* **JitCache**: two blocks, two builds, caps of 1 (boot load, batch, threshold) and 2 (map), so
  that each is reached and exceeded; a tab closed once, one new compilation; two pthreads
  where posts fail. The theorem has no such bounds.

## 6. Fairness

* Audio: the refill timer and the audio callback recur (WF); mixing is SF because a core
  that keeps running keeps offering frames.
* Command ring: the replay pump re-arms its own timer whatever a drain finds
  (worker 6522–6572), so replay and discard are WF. `StageCopy` is SF: the staging pass has
  its own time budget and its clock starts with the drain, so it is cut short now and
  again, but not always at its first upload. The video thread's steps are WF when
  their wait is over.
* Input: handlers run to completion once started. `HeldSpec` owes polls (WF) and, only where memory is
  not shared, messages (SF, since polls may come between), so that each channel is shown to suffice.
* Session: both event loops serve messages (WF), and promises that do not depend on the other
  side (fetch, factory, pthread fence with its 30 s limit) settle (WF); so do the page's own continuations,
  the bundle's probe, whether or not the canvas is refused then, and the second load. Users owe nothing, and
  neither does any failure.
* MappedStaging: pump, timer, promises and the caller of `quiesce` run on the worker's event loop,
  and the GPU works on (WF each). Nothing makes the video thread publish, and no failure is owed.
* JitCache: a load's promises settle and its polls and time limit fire (WF), as do verification and
  compilation of a block. Pthreads owe nothing: one that runs the game may never look at
  its messages, which is what the fence's 30 s limit is for.

## 7. Where code and text disagree

1. **Fence and staged uploads** (`ring_fence_uploads`; worker 8266). A discard through an END
   forgets the staging position while staged uploads behind it stay; they are copied
   again, from bytes already handed back. The comment at worker 6404 says they "remain valid".
   Handing them back again moves the watermark past what was written, by almost an arena. The video
   thread's unsigned comparison (`WaitForUploadSpace`) then finds the arena full, and since an attached
   consumer removes its limit of 250 waits, it waits on an empty ring: `ring_live` with that producer
   in `Fenced` and `Window = 1` violates `UploadsAreNotStarved`.
2. **Pause** (`session_pause`; worker 1349). `index.html:84`: "Pause or resume emulation". The
   worker has no case for the messages `pause` and `start`; the game runs on.
3. **Mounting before the core is loaded** (`session_early_boot`; worker 2311). The check that throws
   "Upstream core must be loaded before mounting a disc" looks at `moduleInstance`, which
   exists long before `loadCore` has passed its "pre-boot" fence, chosen the video backend
   and called `coreInit`. A second disc opened meanwhile is booted on that core, and so is one opened
   after an error event has ended the wait for the first load, or after a load that failed once it had its
   module (worker 1882–1923, 1938–1940, 2010–2011), which leaves the module set.

4. **Readiness** (`jit_rest`; worker 5438, 5454). `tests/jit-cache-benchmark-readiness.test.mjs:29`: "JIT
   cache readiness fails closed until all asynchronous work is complete". A row to be written
   is verified first, and counted as pending only after that await: meanwhile readiness
   sees nothing under way.

Not given a run, but in the models (hazards in `PROJECT.json`): the reset button's tip says
"Reset the console" (`index.html:87`), the worker calls DiscIO's `Reset`, which zeroes a
counter (worker 962), and `ResetCore` is not bound there; the load fence, which
`docs/wgpu-real-classifier.md:173` says discards an incomplete pass, is armed by a merely
held suffix too and then drops a complete one (worker 8239); with the fence in legacy mode the
replay limit is computed from a backlog counted before the fence dropped any of it (worker 8231, 8374), so
the drain goes past `write` (in the model with the window 3: a backlog of 3, a discard of 2, then a limit one slot past
`write`; the model's worker finds forgotten slots there, the code's finds records of a lap earlier); the entry of a
load request whose message could not be posted stays in the adapter's table (adapter 750); two mounts that
overlap the fetch create two cores, after which a mount fails for ever; an error event
with overlapping mounts lets an orphaned load replace the current core; a disc that is
refused replaces the file system under the running game; sticks held through a reset
stay centred until they move. In the cache: of two loads that overlap, one may be reported ready
before the rows the other took from the store reach its pthreads; nobody looks whether
a clear or a stamp succeeded (worker 5632), so after such a failure rows of another build can
carry this build's stamp; and blocks verified at the same time can exceed the map's cap (5675).

## 8. Proved

| Theorem | Module | Says |
|---|---|---|
| `TypeCorrect` | AudioPcmRingProofs | type invariant |
| `HandshakeIsALock` | AudioPcmRingProofs | `FlushExcludesRefill`, disjoint claims, mixed frames fit |
| `MuteIsHonoured` | AudioPcmRingProofs | `MutedIsQuiet` |
| `OnlyFreshFramesInOrder` | AudioPcmRingProofs | `NoStaleFrames`, `InMixingOrder` |
| `PrefillWorks` | AudioPcmRingProofs | `FirstQuantumIsPrefilled` |
| `RingImplementsFifo` | AudioPcmRingProofs | `ImplementsFifo` |
| `NoWaitingRecordIsOverwritten` | CommandRingProofs | `CursorsInOrder`, `WaitingAreKept` |
| `PassesStayWhole` | CommandRingProofs | `PassesReplayWhole` |
| `RingImplementsQueue` | CommandRingProofs | `ImplementsReplayQueue` |
| `UploadsStayIntact` | CommandRingArenaProofs | `QueuedUploadsIntact` |
| `EmptyRingHasEmptyArena` | CommandRingArenaProofs | `ArenaDrainsEmpty` |
| `StagedUploadsWait` | CommandRingArenaProofs | `StagedAreWaiting` |
| `TypeCorrect` | CommandRingArenaProofs | type invariant |
| `TypeCorrect` | InputTransportProofs | type invariant |
| `SnapshotsAreNeverTorn` | InputTransportProofs | `NoTornSnapshot` |
| `OnlyLaterStatesAreTaken` | InputTransportProofs | `NeverGoesBack` |
| `TransportImplementsLatestInput` | InputTransportProofs | `ImplementsLatestInput` |
| `RowsAreOfTheirBuild` | JitCacheProofs | `StampedStoreIsCurrent` |
| `TypeCorrect` | JitCacheProofs | type invariant |
| `CompleteFence` | JitCacheProofs | `FenceMeansInstalled` |
| `ReadyIsDelivered` | JitCacheProofs | `ReadyMeansDelivered` |
| `UploadsAreSeen` | MappedStagingProofs | `RendersSeeTheirUploads` |
| `FailuresAreFinal` | MappedStagingProofs | `FatalIsFinal` |
| `QuiescedIsDone` | MappedStagingProofs | `QuiescedMeansDone` |
| `FullPoolsAreNoFailure` | MappedStagingProofs | `HealthyGpuNeverFails` |
| `TypeCorrect` | MappedStagingProofs | type invariant |
| `NeverASecondCore` | SessionProofs | `OneCore` |
| `CalmPage` | SessionProofs | `CalmPageBootsAReadyCore` |
| `ReadableDiscsAreMounted` | SessionProofs | `ReadableDiscsMount` |
| `PageShowsTheDisc` | SessionProofs | `PageShowsTheMountedDisc` |
| `NobodyWaitsForNothing` | SessionProofs | `EveryWaitIsServed` |
| `TypeCorrect` | SessionProofs | type invariant |

They hold for every ring size, arena size, window, fill level, number of words, width of the counters, number of
retries, slots, cells, blocks, builds, pthreads, tabs opened, discs, mounts, clicks, polls and every cap that
satisfies the modules' named assumptions. Of the command ring, `NoWaitingRecordIsOverwritten`, `RingImplementsQueue` and
`TypeCorrect` have the hypothesis `LegacyIsUnfenced` (a legacy session has no load fence), the three about uploads
`ReplaysInOrder`.

*Audio.* The properties are not inductive. `IInv` adds what makes the handshake a lock:
while a refill is past its check the acknowledged epoch equals the requested one
(`EpochInv`, `HandshakeInv`), so the consumer cannot be between its epoch check and its
flush; and each thread's claimed interval of slots lies on its side of the indices
(`ClaimInv`). `MuteInv` relates an acknowledged mute to the state word. The theorem about
frames has its own `FrameInv`: the slots between read and write index hold consecutive
frames of the current epoch, and what a thread has claimed continues them. `FrameStep` uses `IInv`.
For the prefill (`StartInv`) the order of two stores counts: a request changes the state word before
the epoch word, so whoever flushes cannot find it running. The refinement reads the queue off the
slots between the indices; a quantum is in flight while the consumer is past its epoch check and the
epoch has moved on, and may then still be heard once.

*Command ring.* `PInv` counts the records from the worker's `next` on. The indices stand in the
order read, next, limit, seen, write, less than a capacity apart (`CursorsInOrder`), so a publication
touches no slot of a record that waits (`WaitingAreKept`; `SlotsDiffer` is the arithmetic, with the
wrap). On that rest the passes: a limit lies behind the END of every pass begun before it
(`LimitClosesPasses`), and every END that waits finds its BEGIN, replayed or waiting, or is the one the
fence is about to drop (`EndsFindTheirPass`). `QInv` says the same of the records passed since
`read`, which is what `EndDrain` and `EndDiscard` hand back: whole passes, or records up to the first END.
Both are theorems of every session but a legacy one with a fence; what they say of whole passes, they say of those that promise it
(`TakesWholePasses`). Legacy mode cuts passes by design. And where passes are published record by record,
a fence may drop the BEGIN of a pass whose END is still to come, and a second load of a state lowers the
fence (worker 1181): the END is then replayed alone. The producer of today publishes passes whole.

*Upload arena.* That a payload keeps its bytes is a statement about one record; to be inductive it
must say where all of them lie. `AInv` has for the staging (`CursorPlaced`) that the uploads staged are
exactly those between `read` and the staging cursor, and for the arena (`Chained`) that the payloads of
the others lie one behind the other, in the order of their records, from `uploadRead` to the end of
what is published, and that the last one reaches that end. Places are counted from the watermark modulo
the arena's size, so a wrap of the arena, or of the position words, is no case of its own. Handing back
the first payload (`nextWgpuUploadRead`) then frees it, and the padding before it, and touches no
other (`ReleaseKeeps`); a reservation fills bytes behind all of them (`ReserveKeeps`); and with no
record left the watermark has caught up with the writer, which `Drained` keeps after a failure. The
worker always reaches the first payload that is still in the arena first, because the prefix it replays
and the suffix it stages meet at the cursor.
`StagedUploadsWait` follows: what `StageRelease` stages stands at the cursor, hence was not staged, so
nothing is counted twice. All three theorems assume `ReplaysInOrder`: no load fence, which drops staged uploads and keeps the cursor
(run `ring_fence_uploads` shows what becomes of them), and no legacy mode, whose deferred BEGIN leaves a
cursor the drain has passed: there the run `ring_passes` finds no violation, but `CursorPlaced` is not invariant.

*Types of the ring.* `TypeOK` bounds the staged bytes, and needs to know that dropping or replaying a
staged record never takes off more than was counted. `TInv` therefore counts: the staged payloads are
a finite set of (record, byte) pairs, whose size is at most `stagedBytes`, which is at most the limit
(`StagedMoves` says how one record changes the size). This holds in legacy mode and with the fence too,
where a record may be staged twice and counted twice. `SlotsUsed` says that a slot outside
`read .. write` is forgotten, so a publication overwrites nothing the staging cursor stands on.

*Input.* `IInv` says that the sequence word is odd exactly while a write is under way,
that a poll's view of it is the number of stores it has missed (`OverlapCounted`), and that
with none missed the words read are the words there (`ReadIsCurrent`). An accepted
snapshot then has missed none, or a whole cycle, which the writer's bound excludes.
`OInv` is about the race of shared memory and posts. It counts how far behind the newest state a
generation is (`Behind`): a post at most as far as messages follow it (`PostsInOrder`), shared memory
one at most (`MemoryIsRecent`), and the worker exactly by the states it has not taken up
(`OffersInOrder`). All of that is at most the number of messages under way, so the comparison by half
a modulus tells these numbers' order (`CompareIs`), across the wrap that skips 0; and a state taken up
is the offer of its generation, with those after it still posted (`OffersArePosted`). A reset or a
mask at the head of the queue is no offer, hence the oldest one not taken up is behind it.

*JIT cache.* A stamp that is right says nothing of what is about to be written. `IInv` adds where
each load stands (`LoadInv`): from its check or its clearing on there is no row, or the stamp
matches and all rows are of this build; a part of the stamp it has written names this build; past
that point (`Past`) both hold. And it adds (`QuietInv`) that blocks are compiled, sent or
written only after some load is past that point, so that `Put` and `Seeded` find a matching
stamp, also when loads overlap. A clear or stamp that failed unnoticed (`unclean`) suspends all this.

*JIT fence.* The count of acknowledgements says something only if each is counted once and for the
right fence. `FInv` therefore has the type invariant and, for each pthread (`Knows`): no message or
answer is of a later fence; of this fence the message, the answer and the acknowledgement exist one at
a time, the latter two only for targets with the map installed; and `acked` is the number of pthreads
whose acknowledgement is of this generation. With as many as there are targets, they are the targets.
`DInv` adds, for a session with one load, what was sent to each pthread and in which order (`Gets`): the map
comes first, the fence last, and each block of the map, of the fill or under way is in the pthread's cache or in its
mail; one that has answered has no mail left, so it has them all.

*Mapped staging.* That a submission leaves what direct writes would have left can be said of the GPU's
queue before it runs (`QueueInv`): each submission, over what the one before it leaves, copies to
that effect from the slots as they are now, and none of these slots is mapped, so that nobody writes
into them until the GPU has run it. What is staged continues the queue in the same way (`StagedInv`):
where records overlap, the one staged last has the right bytes. "Last" needs an order (`OrderInv`):
the sequence intervals of all records in all slots are disjoint, which a record that grows keeps only
because nothing was staged since it was the last: `Continues` checks that, and without it joining would
move an upload ahead of another. Every step is first shown to be one of ten moves of the pool and the queue
(`StepsAreMoves`); the invariants are proved of the moves. `QuiesceInv` says that at the wait for the
GPU only a record published meanwhile or a lost device can end the rest that was seen, and
`HealthyInv` that whoever waits for room waits for a remap: an empty mapped slot takes any upload
(`BufferCells <= SlotSize`), so with no room and nothing staged some slot is being remapped.

*Session.* Neither guard of a second core is a lock: `loaded` is set when an answer arrives, and
`moduleInstance` by the first await's end. `IInv` says instead where the one request for a load
can be (`BeforeLoaded`): while discs are opened one at a time and no error event has come, nobody has
asked, or exactly one load is posted, fetching, installing or answered, and nothing else is on
its way, an orphan in the table apart, whose number nothing else carries (`Alone`). Meanwhile there may be a core that
a load has failed to configure (`HalfMade`), and the next load is then answered at once. Once the adapter knows the
core, there is one core, no load is under way, and the core is ready unless loads can fail; after
the error event, which cuts a load off from its caller, there is one core and no load fetches,
because the event comes while the core runs. So `CalmPage` says two things: no boot overtakes a load, and what is
booted is ready where no load fails.
`DInv` is about the disc, and holds when discs overlap. Requests are taken in the order of their
ids and each is in one place (`Numbered`); a mount waits for one request at a time (`Awaited`); requests
an error event has cut off are older than all others, and a mountFile among them finds the page in its demo mode
(`CutOff`); a load that will still replace the core is waited for (`LoadsAreAwaited`); and a
successful answer to a mountFile names the disc that is open, unless another load or mountFile is still to be
answered (`AnswersShow`). So when no disc is on its way the page shows the last answer, and that is
the open disc (`PageShows`). With overlap and an error event together `LoadsAreAwaited` fails: a second
load that was cut off may make a core behind a page that shows the first one's disc. `RdInv` has
for discs opened one at a time that the worker's flag and the file system of the core agree
(`Remountable`) and that no answer refuses a readable disc.
For the types, `Bounded` pays for ids and cores in advance: every mount can still post a load, the same load
again, a mountFile and a start, each click and poll one request. Cores are counted by the loads that make them: until
there is a module, every load that fetches is one a mount waits for (`FirstLoads`), hence at most one per
mount (`OneLoadEach`). Every step pays for what it makes (`Costs`).
`WInv` is the safety half of `EverythingSettles`, with overlap and error events: a mount that waits has its request in
the table, and a request in the table is queued for the worker, with a load, or answered (`Held`), unless its message was
refused: for that one nobody waits, the mount having moved on. Any other leaves
the table only with its answer, which moves the mount on, or in `rejectAll`, which moves all mounts on.

Only model-checked: `CommandRing`'s arena in legacy mode (an old staging start comes round with the
index, see section 5), and all liveness (fairness and `ENABLED`
are beyond the prover).

## 9. Not modelled

GPU and Dolphin themselves; attaching and detaching a ring; the presentation loop and its watchdog;
the pass state cache; in the mapped transport the wait limits, the retained uploads of callers other
than the drain and the compute experiments; in the JIT cache hashes and file format, a profile
without IndexedDB and a pool without pthreads; telemetry, diagnostics, projections and semantic checks, which
observe and do not act; settings, key mapping and the page's widgets; save slots (stubs in the
core) and save-state files; the legacy ring protocol 2, whose producer drops records when full;
the nested renderer worker (an experiment) and `wgpu-renderer-worker-control.js` (no caller
but its test); the main-thread adapter and demo core; build provenance and performance tools.
What the plan has left is in section 2.
