# TLA+ models of the Meizu PRO 5 (m86) Android port

This directory is a verification project for the repository's own code: TLA+
modules, TLC configurations and TLAPS proofs. `PROJECT.json` is the index: the
components, the runs, the mutants that each property must detect, the map from
definitions to source lines, the findings, the hazards and the theorems.

Run a configuration with `tlc -workers 2 -config <X>.cfg <module>.tla` and the
proofs with `tlapm <module>_proofs.tla`. `RilDaemon.cfg` and `RilStaleReply.cfg`
are configurations of `MCRilDaemon`; `RilWakeLock`, `BluetoothVendor` and
`PreviewWindow` need no MC module.

## 1. The system

The repository is a device port: HAL modules written for this device
(`hardware/meizu/m86`), an import of the CyanogenMod 14 device tree
(`legacy/`), patches for the platform (`patches/`), build orchestration
(`remote/`, `tools/`) and device trees for recovery (`twrp/`).

| part | state it keeps | operations | interacts with | what is hard |
|---|---|---|---|---|
| **Camera3 over the legacy engine** `camera3/camera_m86_module.cpp` | three bounded queues of pending buffers, `jpeg_capture_active`, `flushing`, worker and stream flags, the preview window | open, initialize, configure_streams, process_capture_request, flush, close; engine callbacks for frames, pictures, errors | the camera framework (callback ops), the legacy `ExynosCamera` engine | seven threads, one lock dropped between any two steps, a worker joined by flush, nobody polls the JPEG queue |
| **Native Camera3 module** `camera3/camera_m86_native3_module.cpp` | the open device, torch state, callbacks | open, close, set_torch_mode, set_callbacks, flush | libexynoscamera3, sysfs LEDs | torch and open check-then-act over one lock |
| **Stream router** `ExynosCamera3StreamRouterM86.cpp` | a stream-to-pipe table | configure, query | frame factories | little state |
| **HiFi routing** `audio/audio_primary_m86.cpp` and the `frameworks-av` patch | policy in memory and in two persistent properties; AudioFlinger's copy of the route; coalesced recompute events; the vendor DAC | set_parameters, routing, open/close output, track start/stop, recompute, restart | AudioFlinger, M86Parts, the Flyme vendor HAL | three parties with copies of one state; refusals, rollbacks, restarts |
| **Bluetooth vendor interface** `bluetooth/vendor_interface.cc` | one internal command, low power state, activity flag | open, close, send, timeouts, events | libbt-vendor, HCI transport | callbacks on the watcher thread against binder calls |
| **Gatekeeper** `libgatekeeper-legacy` | failure records, key handles | enroll, verify, throttle | keystore ABI of the device | reboot, throttling table, order of record and verification |
| **Gralloc, framebuffer** | reference counts, mappings, page flips | alloc, register, lock, post | ION, fb0 | error paths |
| **Hardware JPEG, frame factories, sensor tables** | configurations | one-shot calls | kernel drivers | little state |
| **Legacy RIL daemon** `legacy/.../libril/ril.cpp`, `ril_event.cpp` | list of pending requests, watch table, timer list, wake lock, the NITZ copy, the command socket | accept, read requests, complete, report, time out, close | the telephony process (socket), the vendor's library (threads) | vendor threads and one event loop over globals of which few have a lock; descriptors closed on one thread and watched on another |
| **Legacy services** | sysfs files | write | kernel | little state |
| **Build workers** `remote/*.sh` | pid and lock files, caches | start, running, publish | ssh, git | two launchers, stale pids |

The components that are not modelled, and why, are listed in `PROJECT.json`.

The camera3 module over the legacy engine is kept in the tree beside the native
one, which `Android.mk` currently builds as `camera.m86`. It is the repository's
own HAL3 implementation with the most concurrency, which is why it is the core
of this project.

### What makes each part correct

* Camera3: every buffer of a request is returned exactly once; queues stay
  ordered and bounded; a still picture is neither stranded nor given the image
  of another request; flush, configure and close terminate and leave the worker
  and the engine quiet; shutters precede buffers.
* HiFi: after all updates settle, the DAC is on exactly when the user's policy,
  the output device and the active tracks want it; a refusal never leaves it on
  unwanted; the copies of the route agree; the policy survives restarts; gain
  changes happen in standby.
* Native module: at most one open device; the torch is never lit or announced
  over an open rear camera; the announced and the recorded state agree.
* Bluetooth: a vendor command's answer reaches its callback; the controller is
  awake when something is sent; idle controllers fall asleep.
* Radio daemon: one client at a time, and the next is served; what was pending
  when a client went away is not answered to another; network time that could not
  be sent is kept for the next client; a wake lock that a report took is released.
* Preview window: the engine finds a buffer whenever it may own one more, each
  buffer has the settings in force, and none is replaced or overwritten in use.
* Gatekeeper: attempts are counted before they are judged; the timeout table is
  what its comment says; a reboot does not shorten a timeout.

## 2. The modules

| module | contents |
|---|---|
| `BufferContract` | abstract specification: what a camera HAL promises about buffers |
| `Camera3Pipeline` | the request pipeline of `camera_m86_module.cpp`, its properties and mutants |
| `MCCamera3Pipeline` | the streams and requests of TLC's instances |
| `Camera3Pipeline_proofs` | theorems about `Camera3Pipeline`: types, the active capture, the worker |
| `Camera3Accounting_proofs` | theorems about where its buffers are and the order of its queues |
| `Camera3Results_proofs` | theorems about its results: the refinement of `BufferContract`, shutters, flush, still pictures |
| `HifiRouting` | HiFi policy in wrapper, AudioFlinger and vendor HAL, properties and mutants |
| `MCHifiRouting` | tracks, rates and gains of TLC's instances |
| `HifiRouting_proofs` | theorems about its four invariants and its action property |
| `RilDaemon`, `MCRilDaemon` | connections, requests, responses and network time of the radio daemon |
| `RilDaemon_proofs` | theorems about all four of its invariants |
| `RilWakeLock` | its timers, the loop's sleep and the wake lock of reports |
| `RilWakeLock_proofs` | theorems about all three of its invariants |
| `BluetoothVendor` | firmware start and low power mode of the Bluetooth wrapper |
| `BluetoothVendor_proofs` | theorems about all three of its invariants |
| `PreviewWindow` | the buffer table of the HAL1 preview window |
| `PreviewWindow_proofs` | theorems about all of its properties |

Operators with "Mutant" in their comment are variations
of a definition with a plausible bug. They are not part of the specification:
each run's property must fail when the definition is replaced by its mutant.

### Camera3Pipeline and the code

`queue` holds the frames of `pending`, `video_pending` and `pending_jpeg`,
oldest first; the flags have the names of `m86_camera3_device`. The threads are
`req` (process_capture_request), `ctl` (flush, configure_streams, close),
`worker` (m86_preview_start_worker) and the engine's callbacks `pcb`, `vcb`,
`jcb`, `ncb` (preview window, recording, compressed image, notify). `pc` says
where each is, `held` which buffers it took out of a queue, `carry` the frame it
begins a capture for. `engine` and `captures` are the legacy engine: what it is
running and the pictures it owes. `accepted`, `returned`, `shutter`,
`rejected`, `lastImage`, `snapshot` and `disturbed` are history for properties.

One action is one critical section of `pending_lock`, or one call of the engine
or the framework between two of them. Choices made:

* `preview_started` and `recording_started` are read and written without the
  lock. A stale read equals an earlier read: a thread that reserves a JPEG after
  the worker's `m86_begin_next_jpeg_request` acquires the lock the worker
  released after it set the flag. So one atomic read per decision is enough, and
  `EndRequest` and `StartNext` share one read in process_capture_request.
* A buffer is dequeued under `pending_lock` and returned outside it, in two steps
  with the buffer in the thread's hands between: in the frame and image callbacks
  (`StreamFrame`, `JpegImage`, then `CopyImage`), in the notify callback
  (`EngineError`, `ErrorPreview`, `ErrorVideo`, then `ReturnErrored`) and after a
  failed takePicture (`GiveUpJpeg`, then `ReturnFailed`). Only the drain loops of
  the worker and of flush take and return in one step: flush joins the worker
  first and is itself the thread that ends its drains, so that no property is read
  while one of them would hold a buffer.
* The worker waits on a condition variable: `asleep` is true while it is inside
  pthread_cond_wait (`WorkerSleep`), and only a queued stream buffer
  (`AppendStream`), the broadcast of flush (`FlushCall`) or a spurious wakeup ends
  it. A signal that the code forgot would be missed, as two mutants show.
* The engine may report an error whenever it exists, streaming or not, and give up a
  picture it owes with it (`EngineError`); the callback checks neither.
* The copy of an image succeeds or fails nondeterministically; takePicture,
  startPreview, startRecording, setParameters and pthread_create may fail.
* Requests the code rejects with `-EINVAL` before it takes anything are left
  out. A request that gets an error for the whole (a failed fence, a full JPEG
  queue) is `RejectRequest`.
* External assumptions. Framework: configure_streams and close come when no
  request is being processed, configure_streams also when every buffer was
  returned; requests come after a successful configuration and name configured
  streams. Engine: stopping a stream waits for that stream's callback to return,
  but not for the compressed image callback; cancelPicture drops the pictures
  owed; deleting the engine ends its callbacks. takePicture fails unless the
  preview runs.

### HifiRouting and the code

The wrapper's state is `hifiUser`, `hifiRoute`, `hifiGain`, `wired`
(`hifi_user_enabled`, `hifi_route_requested`, `hifi_gain`,
`active_output_devices`), AudioFlinger's `routeActive`, `recomputeQueued`,
`forceQueued`, `sampleRate`, `standby` and the event queue `events`, the vendor
HAL's `dac`, `vendorRate`, `vendorGain`, and `property` the persistent
properties. `setter` is the binder thread inside `AudioFlinger::setParameters`.

* AudioFlinger's lock is held by setParameters, by opening and closing an output
  and while a patch event is awaited, so `NoPatch` and `setter = "idle"` guard
  those. The mixer thread holds its own lock during an event, so `StartTrack`,
  `RemoveTracks` and `EndSet` need it idle.
* A recompute takes two steps: the decision and the vendor's call, then the
  gain and the readback of the parameters; the setter may run in between. Any other
  interleaving of the wrapper's fields with the call has the same result.
* Between `SetUser` and `StoreEnabled` the two sides read different policies: the
  wrapper's override uses the new one in memory, the arbitration still the
  stored property. An unset property is enabled in the wrapper and disabled in
  AudioFlinger (`Init`, `UserEnabled`).
* releaseAudioPatch is a patch to a device that is not wired. One primary output
  is modelled. Headphone volume, `out_set_device` (same policy calls) and input
  streams are left out.
* External: the vendor HAL applies or refuses each call; what it applied
  survives a restart of audioserver.

### RilDaemon and the code

The event loop is one thread: `loop` is "top" before `select`, "select" inside
it, "fire" in `firePending`, "connect" and "connected" in `onNewCommandConnect`
before and after the NITZ copy is sent, "closed" before
`onCommandsSocketClosed`. `ready` is `pending_list`; `listening` and `fdCommand`
stand for the watch table (the commands event is in it exactly while `fdCommand`
is set). `reply` is where the completion of a request is: with the vendor,
before `sendResponseRaw` reads `fdCommand` ("send"), before it writes ("write"), or
dropped there because it is larger than MAX_COMMAND_BYTES ("oversize").
`call` is the same for a thread in `RIL_onUnsolicitedResponse`; the loop's own
thread reports twice for each connection. `client`, `backlog` and `inbox` are the
telephony process and the kernel's sockets.

* A connection stands for its descriptor. `Reaches` says where a write to a
  closed one goes: nowhere, or to the next connection, which may have been given
  the same number.
* `pending` and `cancelled` have a mutex and change in one step. `fdCommand`,
  the NITZ copy and `announcing` have none, so that each read and write of one is
  a step. The check of `cancelled` is part of `Complete`: nothing can mark the
  request once it is off the list. A write is one step: its mutex is held for it.
* A malformed request is one that is too short and ignored before it is listed, one
  with bad data, which stays listed (invalidCommandBlock), or a record larger than
  MAX_COMMAND_BYTES, at which record_stream_get_next fails and the loop closes the
  connection of a client that is still there (`CannotRead`, `CloseCommands`); its
  unread requests are lost with it. An unsupported one is answered on the loop's
  thread.
* `owed` is the last network time whose write failed and that has not reached a
  client since, whoever writes it: the resend of onNewCommandConnect clears it only
  when its write succeeds, though the code looks at no result and frees the copy. A
  report that is too large to send ends in `BadReport`; a network time is a short
  string and is not.
* `blockingWrite` closes a descriptor that the loop still watches; select fails
  with EBADF the next time and eventLoop kills the process (`killed`). A restart
  of the daemon is not modelled.
* External: rild ignores SIGPIPE; the vendor's library completes each request
  once, and one of its threads reports network time; the process at the other end
  reads its socket, so that blockingWrite's loop over EAGAIN ends. An abort from
  freeing the NITZ copy twice, within a few instructions of two threads, is left
  out.

### RilWakeLock and the code

The part of the same functions that `RilDaemon` leaves out: the wake lock, the
timer that a report schedules to release it, and the mark that cancels the timer
before it. Timers live in `Slots` of memory, which are reused: `last`
(`s_last_wake_timeout_info`) and `aim`, a thread's copy of it, may name a slot
that was freed or holds another report's timer. `timed` is whether the current
select has a timeout. Timers have equal delays and fire in order. A mark written
to freed memory changes nothing in the model. The wake lock may be released early
by the error exit of another report, or by an older timer: the code allows it, and
the properties state that it is not held for ever. The nested report of a
radio state and the vendor's own timers are left out.

### BluetoothVendor and the code

`host` is the thread that calls Initialize and Shutdown, `Senders` the threads
that send packets, `watcher` that of `AsyncFdWatcher` with `HandleIncomingEvent`,
`OnFirmwareConfigured` and `OnTimeout`. `deasserted`, `activity` and
`knownTimeout` are the globals `lpm_wake_deasserted`, `recent_activity_flag` and
`lpm_timeout_ms`, which outlive a session; `cb` is `internal_command`. Send is
three steps under `wakeup_mutex_`, OnTimeout two. External: the vendor library
needs `FwCommands` commands, each sent from the callback of the one before, and
one each for SCO_CFG, LPM_ENABLE and LPM_DISABLE; the controller answers in
order; the stack shuts down when its sends have returned, and sends only when
initialization is complete. Shutdown after an Open that failed without a transport
either passes, or the library's command has no transport and the service dies; both
are in `CloseFailed`.

### PreviewWindow and the code

Each callback holds `window->lock` for its body and is one action; only
enqueue_buffer drops it for the copy and is two (`EnqueueBuffer`,
`FinishEnqueue`). `handle` is the table of handles with what distinguishes their
buffers: the allocation, its geometry and usage, the picture. `allocated` is the
`allocated_*` fields, or none when `allocated_count` is 0. Format and dimensions
are one value. External, the engine: it owns at most
`EngineBuffers` at a time, sets a geometry before it dequeues, enqueues from one
thread, changes a setting only while it owns no buffer, though it repeats one at
any time; stopPreview waits for an enqueue in progress and forgets what is held.
What the copy does with the pending requests is `Camera3Pipeline`'s `StreamFrame`.

## 3. The runs

| run | instance | shows |
|---|---|---|
| `Camera3Stills` | preview + jpeg, 3 requests, preview queue 1, JPEG queue 2, 2 control calls, 1 engine error; 1.52 million states | types, accounting, active captures, no stranded still, image pairing, refinement of `BufferContract` |
| `Camera3Streams` | preview + video, 3 requests, preview and video queues of 2, 2 control calls, 1 error; 1.39 million states | order and bounds, worker, shutter order, flush |
| `Camera3Liveness` | preview, video and jpeg configured, 2 requests of a still with a preview or a video buffer, stream queues of 1, JPEG queue of 2, 1 control call and a close, no engine errors; 0.12 million states | flush, configure and close return; preview, video and chained stills are served |
| `Camera3Shutter` | preview + jpeg in each request, queues of 1, 1 control call | **violation**: a JPEG may come back before its shutter |
| `HifiRouting` | 3 tracks (two HiFi rates, one incompatible), 1 set, 2 patches, 1 close or restart, 2 track starts, 1 failure; 0.88 million states | types, delivery, never unwanted, beliefs, restarts |
| `HifiLiveness` | 2 sets, 1 patch, 1 start, 1 failure; 0.36 million states | switching off reaches the DAC |
| `HifiStandby` | 1 set, 1 patch, 1 start | **violation**: gain changes under a running stream |
| `RilDaemon` | 3 requests (valid, unsupported, malformed), 2 connections, 1 network time report, 1 refusal or accept failure; 0.46 million states | one client, silence, NITZ, service of clients and requests |
| `RilStaleReply` | 1 request, 2 connections, no reports | **violation**: a response reaches the next client |
| `RilWakeLock` | 2 vendor threads with a report each, 1 connection with 2 reports on the loop; 0.9 million states | no missed timer, a release for each lock, in fact released |
| `BluetoothVendor` | 2 senders, 3 firmware commands, 3 packets a session, 3 sessions, 1 failed Open; 9 thousand states | awake when written to, quiet before sleep, initialization, sleep |
| `PreviewWindow` | 4 slots (at least 3 allocated, the engine takes 3), counts 2, 4 and 5, 2 geometries, 2 usages, any number of sessions; 7 thousand states | whole frames, settings applied, enough buffers, none replaced |

**Bounds.** `MaxFrame`, `MaxControl`, `MaxErrors` cap the history; the code's
queue sizes are constants (16 and 8), small here so that full queues are met.
Three requests suffice for a queue of two with one more in a thread's hands,
which is where order, pairing and overflow go wrong; two control calls for a
flush inside a session and a reconfiguration or a second flush after it, with
close always possible besides (one call where liveness is checked, as close runs
the same flush); one error and one vendor failure because every handler of a
second one starts from a state the first already reaches. Two HiFi rates and an
incompatible track cover a change of rate, a conflict of rates and loss of
compatibility. `AskedGains` has one value out of range. Radio daemon: two
connections are what a response can go astray between, and four reports on three
threads are enough for a slot to be freed, reused and cancelled by a thread that
meant the timer before it. Bluetooth: three firmware commands are a first, a
middle and a last; three sessions a failed one and one on either side of it.
Window: counts below, at and above the table's limits. The theorems lift most of
these bounds. Deadlock is checked in all runs: the only terminal states are a
closed device (`Terminated`), a daemon that is dead or has nothing more to come
(`Idle`) and a closed interface (`Done`); HiFi and the window never stop.

**Fairness.** Camera: weak fairness for each thread's program (the scheduler),
and for the engine to deliver frames of a running stream and the pictures it was
asked for. Not for new requests, control calls or errors. Weak fairness is
enough as a thread, once enabled, stays enabled until it moves: locks are held
inside one action only. There is one condition for each thread, for its whole
program. A spurious wakeup is not owed: a worker asleep is woken by a signal or
not at all. HiFi: weak fairness of the setter's steps and of the mixer thread;
events are finite because settings, tracks, patches and failures are bounded.
Radio daemon: weak fairness of the event loop, of each vendor thread inside a
report and of completions, as threads run and the vendor answers; no fairness
for the telephony process, so that nobody need connect, ask or hang up.
Bluetooth: weak fairness of the watcher thread (which includes the controller's
answers and the timeout) and of Send and Close once begun; none for the stack.

**Findings.** (1) The comment in `m86_send_request_shutter_and_metadata` (lines
916-920) says that shutters are published first and buffers returned then; the
JPEG is queued before the shutter is sent, and a worker whose startPreview fails
in the window returns it in error. (2) The comment in `m86_set_parameters`
(lines 990-994) says the active stream is not touched until standby; a recompute
a track change had queued is not forced, and applies the new gain at once. (3)
The comment in `onCommandsSocketClosed` (ril.cpp line 3938) says that pending
requests are marked so that no response is reported; a completion that has passed
the check (line 4769) is no longer in the list and writes to whatever connection
it finds at line 2140.

## 4. The proofs

The theorems hold for every value of the constants that satisfies the named
assumptions of their module. In `Camera3Pipeline_proofs`:

* `TypeCorrect`: `Spec => []TypeOK`. TypeOK is inductive: `PcOK` and `CarryOK`
  are part of it because a capture takes its type from the frame the thread
  carries.
* `ActiveCaptureQueued`: `Spec => []ActiveImpliesQueued`. Inductive with TypeOK:
  entries are only appended, or removed by `TakeHead`, which for the JPEG
  queue clears the flag; `BeginJpeg` sets it only with a head in place.
* `WorkerStaysQuiesced`: `Spec => []WorkerQuiesced`. It is not inductive:
  `WorkerInv` adds where flush and the worker are (between the join and the
  unflush the control thread is in flush and there is no worker; from "record"
  on the preview is started; recording stops before preview). That a sleeping worker
  has missed nothing holds because the wait tests its predicate under the lock under
  which requests and `stop` change, and both wake it.

In `Camera3Accounting_proofs`:

* `BuffersAccounted`: `Spec => []BufferAccounting`, and `QueuesStayOrdered`:
  `Spec => []QueuesOrdered`. Both follow from `AccountingInv`, which needs its
  three parts together. `Accounts` says that each accepted buffer is returned,
  queued, or in the hands of one thread, and in one of these places only.
  `QueuesOrdered` keeps a frame from occurring twice in a queue: without it,
  taking the head might leave a second copy behind. `Holders` says that no
  accepted frame is later than the last request's (so a new buffer is new, and
  appending it keeps the order) and that a callback holds one buffer at most,
  and a thread none when it is at a step that takes one (so taking a head or returning
  one forgets nothing). `Accounted` and the six lemmas about it treat the places as plain
  sets; `Taken` and `Put` say what removal and append do to a queue; each action
  is then one of a few moves: `StepAccounting` (at most a head comes back in
  error), `TakenAccounting`, `CopyAccounting`, or one of the three that bring in
  or queue a request's buffers.

In `Camera3Results_proofs`, which rests on the theorems of the two modules above
(`AlwaysWorker`, `AlwaysAccounting`):

* Each action is first classified by what it does to the buffers (`Effect`: one
  of a few moves, or `Steady`), so that an invariant about buffers has one case per
  move and not one per action. `ResultsInv` has six parts, of which
  the later rest on the earlier.
* `ShutterComesFirst` (`ShutterBeforeStream`) and `FlushReturnsAll`
  (`FlushReturnsQueued`). `ShutterInv` extends the statement from the returned
  buffers to the queued and the held ones. For flush, `SnapshotInv` follows the
  buffers that were queued when `flushing` was set: the req thread may append new
  ones behind a drain, but no buffer is ever queued twice, so what a drain
  passed stays out. `EngineInv` is why no frame callback holds one of them in the
  end: it copies only while the engine streams, and flush waits for the callback
  of a stream it stops. What is left may be with the JPEG callback, the notify
  callback or a request whose takePicture failed, which flush waits for nowhere:
  each of them dequeues under the lock and returns outside it. `DrainedInv` says that no still is reserved under `flushing`.
* `PipelineImplementsContract`: `Spec => ImplementsContract`, the refinement, where
  what the HAL owns is `accepted \ returned`. A step that accepts
  buffers, returns some, or closes is the contract's action, every other is a stutter.
  `OrderInv` gives the order of images (the last image of a stream
  precedes what its callback holds, which precedes what waits), `DrainedInv` that a
  closing device has no request in progress and empty queues.
* `ActivePictureIsPursued` and `NoPictureStranded` are inductive together with
  `StartInv` (a worker that has yet to announce the preview does not find it announced)
  and the invariants before. `ImagesMatchRequests` needs `Calm`: until something
  disturbs the pipeline, a capture needs a started preview, only one thread at a
  time asks for a picture, for the request at the head and only while the engine
  owes none.

In `HifiRouting_proofs`:

* `TypeCorrect` (`TypeOK`). `QueueOK` states the coalescing of requests: a
  recompute is in the event queue exactly while `recomputeQueued` is set, and
  forced only then. `ClosedInv` adds what a closed output leaves behind.
* `RestartsKeepPolicy` (`RestartKeepsPolicy`), an action property. `PolicyInv` says
  after which of the binder thread's five steps each property agrees with memory.
* `BeliefIsFact` (`BeliefMatches`): `BeliefInv` adds the state inside a recompute,
  between the vendor's call and the readback.
* `HifiIsWanted` (`HifiNeverUnwanted`): `UnwantedInv` adds why a DAC that
  is on unwanted will be visited (a patch to a device that is not there has a recompute
  at the head of the queue; a change of the tracks has queued one; a setter has still to
  announce its policy).
* `HifiIsDelivered` (`HifiDelivered`): `DeliveredInv` splits "settled" in its two
  halves. With no recompute queued and nothing to announce, AudioFlinger has its result;
  with no forced recompute queued and no set in progress, the DAC and the gain
  are what the wrapper makes of that result.
* The proofs use what each action may leave (`RecomputeOutcome`, `PatchOutcome`,
  `OpenOutcome`, `RouteSteps`) and not its definition; `Bystanders` are the actions
  that touch neither the vendor nor AudioFlinger's route.

In `RilDaemon_proofs`:

* `TypeCorrect` (`TypeOK`), inductive with `ClientInv`, which knows the command
  descriptor.
* `NitzIsKept` (`NitzKept`). The property speaks of states in which no report of
  network time and no handler of a new client is in progress; `KeptInv` follows it
  through both. The handler ignores the result of its write and frees the copy: `Lost`
  says that this loses a time only when the write closed the descriptor, and that the
  loop is then on its way to the select that fails on it (`BesideLost`: nothing else can
  take it from there). After a failed write the copy is older than what is owed
  until it is stored, and no client can be connected; in the handler the new client is
  not told yet. A report that writes holds the descriptor of the client there is:
  a new client would have been accepted beside it, which is the overlap the property excepts.
  `Dialled` and `Keeper` say that only a new acceptance connects the daemon
  and that no other thread stores a copy.

* `OneConnection`: `Spec => []OneClient`, from `ClientInv`. OneClient alone is not
  inductive: `ReadyShape` adds that the loop handles one descriptor at a time and
  that the watch table does not hold the listen event from when it fires until
  its callback returns.
* `CancelledIsSilent`: `Spec => []CancelledStaysSilent`, from `SilenceInv`.
  `Unread` says that a request in a queue is there once, has the queue's owner and
  is fresh, so that reading it never lists one that was answered or cancelled
  before. `Dequeued` says that what is being sent or was answered is off the list and
  not among the cancelled. `ClientInv` is needed for the queue that is read.

In `RilWakeLock_proofs` (`TypeCorrect`, `TimersAreSeen`, `LockHasRelease`): the
invariant `TypeInv` adds to TypeOK that a timer is in one list, and once
(`Distinct`), and that the loop has fired all before it sleeps (`LoopShape`).
Without `Distinct`, freeing a fired timer might free one that waits. That a lock
has a release then follows because whoever marks a timer has still to schedule
its own, whichever timer the mark hits, and a timer that fires unmarked releases
the lock.

In `BluetoothVendor_proofs` (`TypeCorrect`, `WritesFindItAwake`,
`SleepsWhenQuiet`): `VendorInv` adds to TypeOK where the threads may be at each
stage (`Places`), that outside the mutex the wake state is what
`lpm_wake_deasserted` says (`WakeKnown`), and that a packet written in this period
left the activity flag set (`ActivityKept`).

In `PreviewWindow_proofs` (`TypeCorrect`, `CopiesAreWhole`, `SettingsApplied`,
`DequeuesSucceed`, `HeldBuffersStay`): `WindowInv` adds that the table is filled
to the clamped count with one layout or empty (`TableFits`) and that while the
engine runs the busy slots are those it owns (`BusyIsOwned`). Enough
buffers is then a count: fewer busy slots than the engine may own, and at least
that many allocated, which is what the clamp to `MinBuffers` is for.

The assumptions are on constants only: bounds are natural numbers, streams and
requests have the kinds the code distinguishes, a gain is an integer, the names
of vendor threads differ from the event loop's. `RilDaemon` also assumes that the
thread that reports network time is not the event loop's own, whose two reports are
those of onNewCommandConnect.

Every invariant and action property of a passing run and the refinement is proved,
so that the theorems and not the bounds of section 3 carry the safety results. Only
model-checked are the liveness properties (`ControlReturns`, `StreamServed`, `JpegServed`,
`OffReachesDac`, `NextClientServed`, `Answered`, `WakeLockReleased`, `InitCompletes`,
`SleepsEventually`), as fairness and ENABLED are out of the prover's reach.
The three runs that expect a violation have nothing to prove: their counterexample is
the result. An attempt to prove `HifiRouting` showed that the two tools read
`SUBSET active \ {{}}` differently; the model now has the parentheses.

## 5. What is not modelled

In the pipeline: result metadata and 3A state, JPEG encoding, the torch in the
same file, and requests that are refused as malformed. In the preview window:
timestamps and the engine's recording heap. In audio: volumes, input streams, the
translation of the vendor ABI, several outputs. In the radio daemon: the marshalling
of each request and response (most of `ril.cpp` and all of `ril.h`: tables and
field copies without shared state), the debug and SAP sockets, more than one SIM,
the vendor's own timers, a restart. In Bluetooth: the vendor library, the fd watcher
and the HCI transports, which are not in this repository.

Other components, with their reasons, are in `PROJECT.json`. Much of the
repository's line count is vendored code without protocol state
(`libfprint` with NBIS, the RIL headers, the AOSP Gatekeeper), kernel and sensor
tables, and build scripts. The hazards with no property say what would cover them.

## 6. Plan

1. (done) `Camera3Pipeline` with `BufferContract`; accounting and order proved.
2. (done) `HifiRouting`.
3. (done) `RilDaemon`, `RilWakeLock`, `BluetoothVendor`, `PreviewWindow`, with
   their proofs.
4. (done) The safety properties of every run and the refinement proved.
5. `TorchModule`: the native module's open, close, set_torch_mode, callbacks.
   Properties: torch off under an open camera, announced state matches.
6. `BuildLauncher`: detached worker, two launchers, stale pid.
