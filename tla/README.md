# A verification development for monome-emulator

TLA+ modules that model the emulator's input paths, the life of its sessions, its
controlled clock, its captures and the evidence built on them, TLC configurations that
check them on small instances, and TLAPS proofs about the core. Paths below are relative
to the repository (`src/` in the source columns of `PROJECT.json` is its root).

## The system

A *session* is one server process (`src/automation/server.py`) that owns a native
norns: matron with virtual devices in place of hardware, and, in audio sessions,
crone, SuperCollider, JACK and a Crow host. Clients are a test runner (the
*automation* caller) and up to eight browsers. They post actions over HTTP; the
server turns each into a packet on a `SOCK_SEQPACKET` socket to matron
(`src/runtime/native.py`), where a device thread (patches under `patches/norns`)
hands it to the norns event queue and the Lua thread acknowledges it. A reader
thread of the server takes acknowledgements, reports and errors from the same socket.

| Component | State | Operations | Hard behaviour | What makes it correct |
|---|---|---|---|---|
| Session input path (`server.py`, `native.py`) | `input_owners`, `clients`, `backend.held`, connections, sequence, the control schedule and its journal, `closed` | `/action`, heartbeat, disconnect, lease expiry, control schedules and their thread, `/stop`, SIGTERM, close | handlers, watchdog, delivery thread and main thread share two locks; close runs with and without them; queries miss deadlines in the middle of a release | owned inputs are down; releases are the owner's; a schedule plays what was admitted; the journal tells what happened; shutdown never waits for itself |
| Scheduled MIDI queue (`emu_midi_schedule.c`) | one batch, cursor, last id | accept, step, deadline, cancel | two clock domains; cancel against delivery | a batch is taken whole or not at all, played in order, at most once |
| MIDI input path (`native.py`, patches 0009, 0012, 0013, 0015, `devices/midi`) | per port: connection, parser, the server's copy of both; the batch on record | immediate bytes, batches, connection changes, advance | the server decides from copies which reports update; a report it does not expect ends its reader | the copies agree when they are used; the client hears the truth about each event |
| Controlled clock (`emu_clock.c`, `prepare_*_step.py`) | logical time, tick count, metros, coroutine slots, the event queue | advance, and the callbacks it dispatches | deadlines of four sources, callbacks that cancel work already queued, work that never rests | every callback at its time, in order, however time is cut into advances |
| MIDI output capture (`devices/midi`, `native.py`) | emission count, decoders, sounding notes, tail | accept, connection changes | limits in the middle of a write, running status, real-time bytes inside a message, a port that goes away inside one | contiguous, each message once, none of two attachments |
| Startup, launch, startup lock (`session.py`, `native.py`, `startup_lock.py`) | child processes, a file lock | start, wait for readiness, abort, close | concurrent starts, signals and crashes during start and during cleanup | one start at a time; nothing survives an aborted one unexplained |
| Dataset lease and restart (`datasets.py`, `server.py`) | a lock file per dataset, inherited by every process group | acquire, release, `/editor/restart` | failed closers, retries, a killed server | one writer per dataset |
| Container data root (`scripts/container/entrypoint.py`) | marker, lock file, lease directory | claim, start, publish, close | a container killed between any two steps | one owner, and the remembered dataset is reopened |
| Audio monitor (`audio_monitor.py`, `ui/audio.js`) | owner, interval, chunk ring | start, read, stop | requests of an earlier interval, lost answers | no block of another interval, gaps reported |
| Audio capture, Crow capture, Crow ii (`audio_capture.py`, `crow_capture.py`, `crow_ii.py`) | jobs and their status | start, status, cancel, finish | finish against cancel against close | one terminal status, files only when complete |
| Performance recorder and reports (`performance.py`, `performance_clock.py`, `scheduling_metrics.py`) | samples, state; process identities | sample, page, stop; gates over a run | a failing sampler against stop, exits and reused ids, drift | no sample lost or repeated by a cursor; a passed gate means what it says |
| Maiden relay (`maiden.py`) | a lock per interpreter | relay a command | a full pipe, an interpreter that exits | commands arrive whole |
| Runner, timeline, bundle verifier (`runner.py`, `timeline.py`, `evidence.py`) | position, anchor, trace, manifest | steps, waits, verify | transport restarts, sources that change, failed stops | a passed run is evidence of what its scenario says |
| Evidence and admission (`*_evidence.py`, `clock_admission.py`, `repeat_controlled_probe.py`) | none; files | bind logs to actions; repeat, collect, admit | logs of two files, changing sources | accept what the system can do and nothing else |
| CLI, client, browser page, build scripts | I/O around the above | | | |

`PROJECT.json` lists every component with what is modelled of it, the hazards with
the line where each bites and the properties that cover it, and for every definition
the lines it stands for.

## Modules

| Module | What it is |
|---|---|
| `InputSession` | the session server's input path |
| `MCInputSession` | instances of it for TLC |
| `InputSessionProofs` | its inductive invariants: ownership; control schedules, the journal and leases of owners; sessions that end by `/stop` |
| `MidiSchedule` | the queue of one batch, as operators |
| `ScheduledMidi` | the MIDI input path, from request to parser and back |
| `MidiBatch` | what the API promises of scheduled MIDI, abstractly |
| `MCScheduledMidi` | instances of `ScheduledMidi` for TLC |
| `ScheduledMidiProofs` | types of the MIDI path, its requests, clock and ports; what the server knows of the runtime; the MIDI path implements `MidiBatch` |
| `SessionLifecycle` | starts, stops and restarts of sessions over one dataset |
| `MCSessionLifecycle` | instances of it for TLC |
| `SessionLifecycleProofs` | its inductive invariant and the theorems |
| `ControlledClock` | `emu_clock_advance` with everything it drives |
| `ContainerRoot` | the data root that containers share |
| `AudioCaptures`, `CrowCaptures`, `CrowTrace` | capture jobs and the ii trace |
| `AudioMonitor` | listening to a session in browsers |
| `MidiCapture`, `MCMidiCapture` | the decoder and the record of MIDI output; the writes it is checked with |
| `Recorder`, `ProcessTree`, `RunMetrics`, `ResourceEnvelope` | the performance recorder and what its reports rest on |
| `MaidenRelay`, `StartOptions` | the editor's commands, and the options a restart repeats |
| `ScenarioRun` | a scenario run, its bundle and the verifier of it |
| `NativeEvidence`, `Admission` | a session's log and its verifiers; admission evidence |
| `Parts`, `MCParts` | all modules from `ControlledClock` on: the initial state chooses the one that runs; its instances for TLC |
| `PartsProofs` | invariants of `ContainerRoot`, `AudioCaptures`, `Recorder`, `AudioMonitor`, `CrowCaptures`, `CrowTrace`, `MaidenRelay`, `StartOptions`, `Admission`, `ResourceEnvelope` and `ScenarioRun` |
| `Folding` | induction over finite sets and sequences, for the sums and folds of the models |
| `ClockProofs` | the invariant of `ControlledClock` |
| `MeasureProofs` | invariants of `ProcessTree`, `RunMetrics` and `MidiCapture` |
| `PartsTogether` | what is proved of each part alone holds of `Parts` |

`ScheduledMidi` extends `MidiSchedule` and instantiates `MidiBatch`. The parts in
`Parts` share no state in the code either, or share it through what their
environment actions do; one run explores the sum of their state spaces. Definitions
that nothing uses, placed before the one they vary (`DisownNothing` before `Disown`),
are the same step with a plausible mistake; each property is known to tell one of
them from the original.

### InputSession

One action per critical section. A body that holds `app.lock` throughout and that
nothing can overtake is atomic: an immediate action is one step that either
refuses (`RejectEarly`, `RejectLate`), applies, or misses a deadline part of the way
(`ActionTimesOut`). Bodies that the lock-free `close()` of the main thread can
interleave with are split, and `lock` names who holds `app.lock` in between:
admission of a schedule and its journal record; the delivery thread's wake, close
check, query and final record; and `close()` itself. `act` is the one `/action`
request past its closed check: it may sleep there (`wait_schedule`), and
`release_client` may consume its sequence number meanwhile (`Overtaken`).
`sched[n]` keeps every schedule with the kinds of its journal records. The refusals
are in the order of the code where the order shows: a refusal after the heartbeat
has already renewed the lease.

Abstracted: action identities and the numbers behind the sequence (only whether a
request is still expected), schedule ids (they grow), deadlines of events (any
delay is possible), encoder deltas, the contents of observations. `"midi"` stands
for all actions that neither hold inputs nor are blocked by a schedule.
`native_input_schedule` exists in real-time native sessions only, which is what is
modelled. `/editor/restart` runs the same `close()` under the same locks.

### ScheduledMidi

The server side keeps one request (`call`), since `app.lock` and `io_lock` are held
until the answer or the deadline; a missed deadline is sticky, so no later request
follows a lost one. Everything else runs concurrently with it: the device thread
(`device`: before its due check, in `ppoll` with a
timeout or without one, gone at EOF, or exited by `_exit`), the
Lua thread (`lua`: the acknowledgement or the advance it still owes) and the reader.
Both directions of the socket are queues; sequenced packets over a local socket are
neither lost nor reordered. In a real-time session `Tick` moves `now` at any moment;
in a controlled one only `AdvanceMoves` does, to the nearest of the batch's deadline
and an arbitrary other one. Whether the device thread polls with a timeout is decided
when it goes to sleep and not looked at again; nobody else changes the queue in real
time, so the deadline it sleeps for is still the next one when it wakes.

Byte strings are the five tokens of system-exclusive framing that the code tells
apart: the discontinuity rule of `dev_midi_emu_receive`, the gap rule of the
reader, and what `Decoder.feed` refuses. Byte offsets, the 32 KiB packet and the
capacity of the byte buffer are left out, and so is the sleep of an
immediate action with a deadline: `wait_schedule` has it before `app.lock` is taken
and before anything is checked (`InputSession` models it).

### MidiBatch

What `docs/architecture/scheduled-midi.md` promises: one batch at a time, taken
whole or refused; events heard in order and at most once; nothing heard after the
client was told that the batch ended; an event reported delivered was heard and one
reported dropped was not. `ScheduledMidi` refines it with the client's record, the
last id the queue took and the set of events that reached a parser
(`PromiseKept`).

### SessionLifecycle

For each session: its launcher, with the dataset it asks for (`session.start`, called
by a user or by the thread that handles `/editor/restart` in another session), its server process
up to `serving`, the request that closes it, the process groups it launched, and the
files it has open. `fds[s]` is who holds the open file description of the dataset
lock: the server and, through `pass_fds`, every group it launched; the lock is free
when the last of them has gone, which is why a killed server does not free it. The
startup lock is held from the first service to the readiness of the script.
`close()` is one pass over the groups, last launched first; a pass can fail at a group
that survives SIGKILL for three seconds and is tried again by the main thread, by
another `/stop`, or not at all. SIGTERM raises once, wherever the main thread is,
inside a cleanup as well; what a cut-short cleanup leaves is recorded in `abandoned`.
Readiness polls, seeds and HTTP are single steps or left out.

### ControlledClock

One action per way through the loop of `emu_clock_advance`: an input, one dispatched
event, a move of time, the end, and the work limit. `Stepped` is what every iteration
does first: publish a due tick, ring due metros, wake due coroutines. Times are
integers, pulses are `TickNum / TickDen`, so that ticks fall between whole
nanoseconds and the rounding of `deadline` shows. A script is metros, coroutines
that sleep or sync for ever, a batch of inputs, and one cancellation of a metro or a
coroutine by the first callback of another; a coroutine cancelled while its resume is
queued is skipped by the patched Lua clock, a metro's queued event is not.
`AdvanceIsExact` compares what was called with the callbacks the script asks for,
computed from the meaning of metro, sleep and sync alone: after any sequence of advances
exactly those, each at its own time, in the order input, metros by number,
coroutines by slot. A metro of period zero or a coroutine that sleeps for nothing
makes the advance fail; the server reports that failure and refuses the session from
then on.

### The parts

- `ContainerRoot`: one action per system call that another container could see.
  A killed container leaves its lease directory, which is taken away by hand
  (`Recover`, `docs/DOCKER.md`), and nothing else blocks the next one.
- `AudioCaptures`: helper, collecting thread, request and close, each a step at a time;
  close runs under `app.lock` or, on SIGTERM, without it. `CapturesAreSettled`: one
  terminal status, kept; a result only of a complete capture; no helper after close.
- `CrowCaptures`, `CrowTrace`: the server's calls against the host's loop over a
  packet socket whose late answers stay in it (`Drain`); a file that grows under
  its reader.
- `AudioMonitor`: pages, requests that the server handles in any order and whose
  answers may be lost, the interval each request names, and the ring of blocks.
- `MidiCapture`: decoder and capture over real byte values, and the reports of connection
  changes that carry a sequence, at each of which the port's decoder is replaced
  (`native.py:353-355`, `docs/midi-hotplug.md:35-36`); a port that is away emits nothing
  (`emu_midi_send`). The history `emitted` has a `Cut` where the connection changed. The
  record of a port, whatever the cuts between writes and ports, is the messages of its
  byte stream, read anew after each `Cut`; the notes that sound are counted on over it.
- `Recorder`: the sampling thread against `stop` by several callers and `close`,
  with pages read meanwhile.
- `ProcessTree`, `RunMetrics`, `ResourceEnvelope`: the CPU counter over pids that are
  used again; plan, delivery bursts, percentiles, warm-up, recovery and slope of a
  run against their definitions; limits and delegations of cgroups.
- `MaidenRelay`, `StartOptions`: pieces of commands in a pipe that fills; every
  combination of options that `start` accepts, restarted twice.
- `ScenarioRun`: the runner's loop while the transport, the session's health and the
  sources change, then `verify` on the bundle and on forgeries of it.
- `NativeEvidence`: a session writes its two files request by request; the verifiers
  accept the files of every behaviour (apart from those below) and reject each file
  with one delivery, acknowledgement or report moved, removed or repeated.
- `Admission`: contents are version numbers that change between the steps of the
  collection; what is admitted was collected from the versions it names. A native check
  names one installation, and is compared with that one; two checks name both.

## What is checked

| Run | Instance | Shows |
|---|---|---|
| `session_stop` | 2 browsers (symmetric), automation, key, pad, one schedule of three events, `/stop` | ownership, schedule legality, journal, shutdown record, releases, no input after close |
| `session_terminate` | 1 browser, one key, SIGTERM at any moment, fair | termination of schedules and of close, owners' leases, lease expiry without schedules, exclusion |
| `session_arc` | 1 browser, key and arc key, two schedules | ownership when schedules do not exclude an input and follow one another |
| `scheduled_midi` | 2 ports, either clock mode, 3 batches, 2 ids, immediate start, `MaxTime` 2 | what the server expects of the runtime is so, the runtime never exits, the two sides agree, the promise of `MidiBatch` |
| `midi_batch_ends` | 1 port, real time, one batch, fair | an accepted batch ends: the timeout of `ppoll` is never missing |
| `lifecycle` | 2 sessions over one dataset or two, the first with an editor, 2 services each, 1 fault, 1 crash, fair | one writer, the extent of the startup lock, explained survivors, leases of closed sessions, restarts, the end of failed starts |
| `parts` | each part alone, see `parts.cfg` | one property per part or group of parts, listed below |
| `lease_expiry`, `stop_record`, `sigterm_record`, `cleanup_interrupted`, `raw_bytes` | as small as shows it | the disagreements below |

| Property of `parts` | Instance |
|---|---|
| `DataRootIsKept` | 3 containers that share no kernel, one of them killed |
| `CapturesAreSettled` | 2 captures, close by request or signal |
| `RecordingIsExact` | 4 samples, pages of 2, two stoppers and close |
| `ListeningIsExact` | 2 pages, 2 intervals, a ring of one block, one lost answer |
| `CrowIsExact` (`CrowAgrees`, `TracePagesAreExact`) | 3 jobs, 2 injections, 2 calls without an answer; records of 2 bytes, 9 bytes, 4 pages |
| `EditorsAreServed` (`CommandsAreWhole`, `RestartsKeepTheSession`) | 2 editors, 3 commands of 2 pieces, a pipe of 2; up to 5 of 17 options, 2 restarts |
| `CaptureIsExact` | 2 ports, 3 writes of 14 kinds, 2 connection changes, a limit of 4 |
| `MeasurementsAreExact` (five properties) | 3 pids, 4 forks, 2 samples; 8 notes in 3 beats, delays -1 to 4; 4 rows of 4 loads; every host of `MCHosts` |
| `EvidenceIsEarned` (`PassedRunsAreEvidence`, `AdmissionIsEarned`) | all scenarios of up to 2 steps and some of 3; one change of sources during collection |
| `EvidenceIsExact` | one batch of 2 events on 2 ports, 3 actions, and every forgery of the log |
| `AdvanceIsExact` | 2 metros and 2 coroutines, or 3 coroutines, with every cancellation of one by another; 12 ns in advances of 0, 1, 4 and 11 |

Bounds. `MaxSchedules` 1 or 2: schedules exclude one another, and two are enough
for one to leave something behind for the next. Two browsers and one input of each
kind give every relation of owner, caller and input. `ClientLimit` is the number of
browsers, so `HasRoom` refuses nobody in these runs; the proofs hold for any limit.
Three events in a plan or
a batch allow first, middle and last, an event of another input between two of the
same, and a timeout at each. `MaxTime` 2 and delays of 1 and 2 leave batches that are
late, on time, and cancelled half-way; `Horizon` 2 is never the reason for a
refusal, and neither is `MaxEvents`.
In the first five runs `MaxSchedules` and `MaxTime` are the only bounds in guards.

In `lifecycle` two sessions are enough for everything that one can do to another; two
services and an editor give a first, a last and one that is launched without the
startup lock; one dataset makes the sessions compete for its lease, two for the startup
lock. One fault and one crash meet every other step, and a cleanup whose cause is a
signal or a request, which are not counted, can fail as well. In `parts` the bounds were chosen by the case that needs most: two
intervals for a late request, a ring smaller than what is sent, a page smaller than
the recording, a capture limit inside a write, a pid that is used again while its
first owner's time is still counted, pulses that are no whole number of nanoseconds
and an advance that spans several deadlines of each source as well as one that spans
none. Every name in upper camel case that begins with `Max` in a `CONSTANTS` section
is such a bound, and so are `MaximumSamples` (of the code) and `WorkLimit` (200000 in
the code).

Fairness. Threads that are runnable run: the handler past its closed check, delivery
threads, the watchdog, a `close()` under way, and in `ScheduledMidi` the device
thread, the Lua thread, the reader, the request that has its answer, and the clock.
Python's and the kernel's schedulers justify weak fairness of each; requests, faults,
`/stop` and SIGTERM are never forced. The main thread unwinds after `/stop`, because
`server.shutdown()` has been called. In `lifecycle` the server process and the launcher's
waiting are fair; deaths, faults, give-ups, requests and crashes are not. A launcher
waits for a bounded time in the code, so that a server stuck in its startup is given
up eventually; `FailedStartEnds` needs no more than that a start that did fail goes
on to exit.

Deadlock checking is off where the system really stops: a MIDI session whose clock has
reached `MaxTime` or whose socket has ended, sessions that have all exited, and parts
that have used up their bound. `InputSession` has an explicit `Exited` step, and is
checked for deadlock.

### Disagreements found

- `lease_expiry`: during a control schedule an expiring lease is refused its
  `release_all` with `schedule_busy`; the watchdog takes that for a fault and ends
  (`server.py:372-374`). From then on leases of a healthy session do not expire
  (`browser-contract.md:17-18`). Without control schedules the promise holds
  (`LapsedLeaseIsReleasedUnscheduled`).
- `stop_record`: the delivery thread writes `completed` after its last event whatever
  `close()` has recorded (`server.py:288`); `tests/grid_native.py` reads the last record.
- `sigterm_record`: on SIGTERM the delivery thread can mark its schedule cancelled
  before `close()` tests the status, and no record is written (`server.py:270`, `:77`).
- `cleanup_interrupted`: a start that fails closes its backend, and a SIGTERM of its
  launcher that arrives meanwhile raises inside `close()` (`native.py:99`), since only
  a second signal is ignored. The groups it had not reached survive the server and
  keep the dataset locked; `session.py:128-129` says that SIGTERM unwinds
  initialization and that the groups are owned before discovery is published.
  `SurvivorsAreExplained` shows that this and a group that outlives SIGKILL are the
  only ways, apart from a killed server.

- `raw_bytes`: a write that holds several messages is recorded as one record per
  message, each with its message's own bytes (`devices/midi/__init__.py:94`). A status that
  was left out is put in, and the bytes of an unfinished message at the end of the write
  are in no record; `midi-contract.md:31-34` says that raw bytes are unchanged and remain
  available. What is decoded is right (`CaptureIsExact`).

Smaller observations that no run reports on its own, because they are by design, are
documented, follow from a definition at once, or concern a detail the models abstract:

- `grid-contract.md:54-55` says that schedules and held browser controls do not coexist; arc
  keys are not blocked (`server.py:317`), so a browser may take one during a schedule. If it
  disconnects then, it loses its lease, while the refused release leaves the key down and
  owned: `OwnedInputHasLease` holds only in sessions without an arc, which is how
  `session_terminate` checks it; added to `session_arc` it is violated.
- The startup lock is released before `close()` of a failed start
  (`native.py:90-98`): the next session may launch while the groups of the last one
  still go down.
- A `/stop` that races `/editor/restart` can end the server while its thread starts a
  successor; the successor runs, and nobody has its address. A launcher error
  `cleanup_timeout` (`session.py:135`) carries no session id, so the container entrypoint
  does not remember the dataset of that start.
- A container killed before it writes its marker leaves a root that is refused as
  unowned (`container_data_unowned`) until it is cleared; the lease directory of a
  killed container is removed by hand (`docs/DOCKER.md:121`).
- The recorder's `failed` can replace `stopped` when a sample fails while `stop` waits,
  and performance endpoints are served on a closed session: a recording that is
  started after `close()` has listed its closers is not stopped by it.
- A capture that is being started when SIGTERM arrives is not among the closers.
- A delayed `/audio/start` can take the monitor after its page has stopped listening;
  it is freed when that client is released.
- After a host stall of more than a second `cancel` can meet the record of an input,
  which has no `last_event`.
- `verify_package` (`evidence.py:140`) refuses the exit -15 of a Crow host that
  `NativeBackend.close` accepts; `repeat_controlled_probe.py` accepts any exit of
  sclang, and `verify_repeat` only 0 and -15. `bind_native_actions` refuses the log of a
  session in which a lapsed lease released inputs, because those inputs are in no
  `actions.jsonl`; `NativeEvidence` has none.

## What is proved

`InputSessionProofs`, for all clients, inputs, plans and numbers of schedules, with
and without SIGTERM, from `ConstantsAssumption` only:

- `Invariant`: `Spec => []IInv`, and from it `TypeCorrect`, `OwnersHeld`
  (`OwnedInputsAreHeld`), `SchedulesExclude` (`ScheduleExcludesOwners`);
- `ReleasesAreOwn`: the action property `ReleaseKeepsForeignInputs`.

`OwnedInputsAreHeld` is not inductive: a delivery thread changes `held` without a
look at `input_owners`. Three things save it. While a schedule is accepted no key or
pad has an owner (`ScheduleExcludesOwners`, kept by the admission check and by
`Blocked`). A worker that is between its close check and the end of its query holds
`app.lock` (`LockHolders`), so nobody can become an owner then even if `close()` has
already ended the schedule (`QueryExcludesOwners`). And a worker that still delivers
in an open session delivers the latest schedule, which is accepted (`Delivering`,
`OnlyLatestActive`); once `closed` is set (`ClosersClosed`), it submits nothing
further. Each conjunct has lemmas by group of actions: requests, workers, leases,
closers. Steps that leave the fields of a conjunct alone are dispatched by frame
lemmas.

Of control schedules, from the same assumption, with and without SIGTERM:

- `ScheduleInvariant`: `Spec => []SInv`, and from it `KeysStayLegal`
  (`PlannedKeysStayLegal`) and `JournalIsExact` (`JournalIsExactWhileOpen`);
- `OwnersHaveLeases` (`OwnedInputHasLease`) under `ArcKeys = {}`. The code has the
  property in no other sessions: see the arc keys above.

A planned key is legal in every state because only one thread is ever in a query, that
of the latest schedule (`LatestDelivers`), and every other way to move a key is refused
while a schedule is accepted: what remains of the plan, replayed on `held`, meets no
duplicate. The journal is exact because while the session is open the state of a
schedule's thread determines its journal (`JournalOf`), up to the one step between
admission and its record; only `close()` sets the cancel event or leaves the backend's
open state, and it has set `closed` before (`FlagsAgree`).

Of sessions that end by `/stop` (`Terminates = FALSE`): `OrderlyShutdown` (`Spec => []Orderly`),
`CancellationsRecorded` (`ShutdownRecordsCancellation`) and `ClosedIsQuiet` (the action
property `ClosedSessionTakesNoInput`). `/stop` holds `app.lock` from its first step until
it has left the backend, and the main thread closes only after it: a thread that waits
for the lock finds the backend closed, one that gave up has its record written by
`close()` itself. The assumption is needed: on SIGTERM the main thread closes without the
lock, and the run `sigterm_record` shows the counterexample.

`SessionLifecycleProofs`, for all sessions, editors, datasets, services, faults and
crashes, from `SessionsAssumption` (no service is named like the server or the editor,
whose process groups are told apart from those of the services by name):

- `Invariance`: `Spec => []IInv`, and from it `TypeCorrect`, `StartupIsCovered`
  (`LockCoversStartup`), `DatasetHasOneWriter` (`OneWriter`), `SurvivorsExplained`
  (`SurvivorsAreExplained`), `LeaseIsKept` (`ClosedSessionKeepsLease`) and
  `SuccessorNotRefused` (`SuccessorFindsDatasetFree`).

`OneWriter` speaks of groups that run, but what excludes a second session is who has the
lock's file open: `Exclusive` says that of one dataset only one session has, and `Files`
that a group that runs is one of those which have it open. What a server has open and
running depends on the phase it is in, and the phase on its launcher, its signal, the
request it handles and its closer together (`Phases`). A successor started by
`/editor/restart` is a session with a parent: `Family` says that the parent is in the
request, waiting, with its files closed by the time its child asks for the lease.

`ScheduledMidiProofs`, for all ports, batches,
ids, spans, limits and clock modes, from `MidiAssumption` (the five tokens, ids above
zero, batches of well-formed events, and a `NoBatch` that is no record of a batch) and
`QueueAssumption`. Every safety property of the run `scheduled_midi` is proved:

- `ProtocolKept`: `Spec => []Protocol`, and from it `TypeCorrect`, `RemovalIsClean`
  (`NothingSurvivesRemoval`), `DeliveryIsExact` (`LogicalDeliveryIsExact`) and
  `EndDiscards` (`EndDiscardsPending`);
- `KnowledgeKept`: `Spec => []Knowledge`, and from it `ServerKnows`
  (`ServerKnowsTheRuntime`), `RuntimeNeverExits` (`RuntimeSurvives`) and
  `DecodersFollow` (`DecodersAgree`);
- `TruthIsKept`: `Spec => []Truth`, and from both `KeepsPromise`: `Spec => PromiseKept`,
  the refinement of `MidiBatch`.

`Protocol` says that a request is at one place at most: in the socket, with the Lua
thread, answered in the socket back, or answered (`OneRequest`); that is why the socket
holds one packet and the end of the stream at most (`TypeOK`). In controlled time nothing
that is pending lies before `now` (`OnTime`), since an advance stops at the next deadline.

What the server knows is not inductive on the state of the server: it lags behind by the
reports that are on their way, and the reader ends the session's input at the first that
does not fit. The invariant therefore speaks of the view that the server will have once
it has read all of them (`Foreseen`). There is a chain of views, from the server's of now,
in which the reader takes each report on the way in the view that the one before it left
(`Path`), and the last one agrees with the runtime (`KnowsQueue`, `KnowsPorts`,
`Follows`). A step of the runtime that reports adds a view at the end, one of the reader
removes the first, and a request is sent only in a state where the last view is such that
the runtime can serve it (`Serviceable`): when no batch is active and no request is under
way, nothing that matters is on its way, so that the server's view is the last. Views only
go forward (`Later`), by which what the server decides on an old view still holds in the
last one. `Phases` says which reports may be under way for which request; a refused batch,
for one, has left no trace, so that its predecessor can be put back.

For the refinement it also takes that reports are true of the runtime (`Truth`): an event
is heard when the cursor passes it, or never, and a report of it says which. Accepting a
batch is then `Take`, the first event heard of it `Hear`, and each report that the reader
takes is `Acknowledge`, `Cancel` or `Report`; a request that ends without a batch, or by
its deadline, is `Settle`.

`PartsProofs`, each for the specification of one part (`ContainerSpec`, `CapturesSpec`,
`RecorderSpec`, `MonitorSpec`, `CrowSpec`, `TraceSpec`, `RelaySpec`, `OptionsSpec`, `AdmissionSpec`, `RunSpec`), for all
containers, captures, callers, pages, jobs, editors, sizes and limits, from the assumption
of each module (`ContainerAssumption`, `CapturesAssumption`, `RecorderAssumption`,
`MonitorAssumption`, `CrowAssumption`, `TraceAssumption`, `RelayAssumption`,
`OptionsAssumption`, `AdmissionAssumption`, `EnvelopeAssumption`, `ScenarioAssumption`):

- `DataRootKept` (`DataRootIsKept`) from `RootInv`. That there is one owner follows from
  the lease directory, which only its maker removes (`Leases`); that there is one dataset,
  from the lock file: only a container that was the first to lock the root takes it for a
  new one, and nothing is created in it otherwise (`Firsts`, `Datasets`).
- `CapturesStaySettled` (`CapturesAreSettled`) from `CaptureInv`. What the thread of a job
  is told decides what its result says (`Settled`). One helper runs at a time because the
  request that cancels keeps `app.lock` until the helper is dead (`Alone`, `Owned`), and a
  close started by `/stop` has `app.lock` too: each helper is that of a job still to close
  (`Closings`).
- `RecordingStaysExact` (`RecordingIsExact`) from `RecorderInv`: whoever has marked the
  recorder finds it ended, for good (`Stops`), so the reader that saw a final state before
  it read its last page has all samples (`PagesRead`).
- `ListeningStaysExact` (`ListeningIsExact`) from `MonitorInv`: a stop on its way names a
  stream that its page has ended (`OnItsWay`), and the answers that a page still hears are
  of its present stream and position (`Awaited`, `Listening`).
- `CrowStaysTrue` (`CrowAgrees`) from `CrowInv`. The server sends a command when it knows
  the host's capture (`Settles`), and the capture can only end before the host reads it
  (`Takes`). Commands pile up only after a call gave up, which takes a host that has
  stalled (`Abandoned`); it reads one more of them at most, then what is left is never
  read (`Unread`) and the server may be wrong about which job is active. What it says of
  a job that ended is true also then (`Filed`).
- `TracePagesStayExact` (`TracePagesAreExact`): a cursor that is accepted is after a number
  of whole records (`Multiples`), and a page goes on from there (`PageContinues`). Records
  are longer than their newline (`TraceAssumption`): with records of one byte every cursor
  would be accepted.
- `CommandsStayWhole` (`CommandsAreWhole`) from `RelayInv`: the connection that writes
  holds the lock, so the pieces of its command are the last of the stream (`Writing`), and
  those of any other follow one another (`SentWhole`).
- `SessionIsKept` (`RestartsKeepTheSession`) from `OptionsInv`: what a restart asks for is
  never a combination that `start` refuses (`RestartsAreAccepted`).
- `AdmissionStaysEarned` (`AdmissionIsEarned`, a part of `EvidenceIsEarned`) from
  `AdmissionInv`: a repeat has runs in sessions of their own, all of the sources it began
  with (`Collected`), so that one listed twice has its session twice (`RepetitionIsSeen`).
- `LaneStaysBounded` (`LaneIsBounded`, a part of `MeasurementsAreExact`), by cases of the
  limits.
- `PassedRunsStayEvidence` (`PassedRunsAreEvidence`, for all scenarios, beats and
  timeouts, from `ScenarioAssumption`) from `RunInv` (`RunInvHolds`). As long as a run
  has no error, its results, its trace, the actions applied, its timeline and its
  observations are exactly those of the steps so far; `world` may have changed between
  any two of them, and what the verifier computes again from the bundle is what the
  runner has seen. Each forgery of the bundle differs from it in a part that the
  verifier compares with another part or computes again, and is refused for that.

In the larger of them a step is first put in a flat form, one equation per field, from which the
conjuncts of the invariant follow one by one.

`Folding` is what the proofs about sums, traces and logs need: the sets and sequences
there are taken apart by recursive functions, and no theorem of the library that speaks of
them for an arbitrary operator can be applied. The module has the operators as constants
instead (`Base`, `Pick`, `Step`, `Op`), and proves from the well-foundedness of the numbers
that a fold over a sequence that grows by one element changes by one application
(`FoldAppend`), that a fold over two sequences is that of the second from that of the first
(`FoldConcat`), and that what every application keeps, the fold keeps (`FoldsKeep`,
`FoldKeeps`). Each use is an instance with the operator in question, and the hypothesis
`FoldsSequences` (the recursion is the fold's) is proved of the instance.

`MeasureProofs`:

- `TreeCounterStaysExact` (`TreeCounterIsExact`, for any finite set of pids, from
  `ProcessTreeAssumption`) from `TreeInv`. A process is known by its start and no two of
  one start are known (`KnownInv`), so the sum over what the sampler has kept is that over
  the processes there ever were, each at its last sample (`CountInv`), and no pid that is
  used again takes the time of its predecessor.
- `ReportStaysExact` (the three properties of `RunMetrics`, from `RunMetricsAssumption`)
  from `MetricsInv`: emissions are in order and rows have increasing times. The rest is
  arithmetic for every tempo, resolution and list of delays: the rounded plan, the rank of
  a percentile, the spread of a burst, the sums of the slope.
- `CaptureStaysExact` (`CaptureIsExact`, for all ports, writes, connection changes and
  limits, from `MidiCaptureAssumption`) from `OutputInv`. A decoder that is fed in pieces
  decodes what it decodes of the whole (`FedAlike`), and one that is replaced goes on like
  a reader of the whole stream that forgets what is incomplete (`Anew`, `HeardCut`). What it keeps of an unfinished message is what a
  new decoder keeps of the message's own bytes, the running status in front, so that each
  message decoded stands alone (`DecoderInv`). The record of a write, with raw bytes or
  without, says its messages (`RecordsAre`, `SplitSays`), and the notes that are counted
  as outstanding change with each message as the bag does (`OutstandingGrows`,
  `NotesGrow`), the limit in the middle of a write included.

`PartsTogether`, from the assumptions of all parts: in a behaviour of `Parts` one part takes
steps and the others stand still (`EachPartRuns`), so that what is proved of a part alone
holds of the specification that the run `parts` checks (`CrowStaysExact`,
`EditorsStayServed`, `PartsStayTrue`, `OutputStaysExact`, `EvidenceStaysEarned`,
`MeasurementsStayExact`).

`ClockProofs`, for every tempo and resolution, all scripts of `ScriptsAssumption` (inputs in
order, syncs to a later beat) and any advances: `AdvancesStayExact` from `ClockInv`. A
callback has a number among those of its metro or coroutine, and its time follows from the
number (`CallTime`). For each metro and coroutine, what has been queued or called is
exactly what was asked for up to where it stands (`Standing`), so that time can move only
to the next time of one of them. The theorem speaks of advances that do not give up, and of
scripts that never rest, which always do and lose nothing before; that an advance of a
script that rests stays below the work limit depends on the script, and is checked for
the scripts of `parts`.

Model-checked only:

- `ScheduleEnds`, `CloseEndsEventually`, `BatchEnds`, `LapsedLeaseIsReleasedUnscheduled`,
  `FailedStartEnds`: liveness under fairness, and `ENABLED`, are outside what the installed
  provers handle.
- `EvidenceIsExact` of `NativeEvidence`: it quantifies over every forgery of two logs and
  compares verifiers that read the whole of them, so that a proof has to say what each
  verifier's pass over a log has found after each line.
- That no advance of a script that rests gives up, which `AdvanceIsExact` includes.

## Not modelled

See the components with status `not_modelled`, and the notes of those that are partly
modelled. In short: the command line and the HTTP client (one request per command),
the pages apart from listening, the contract fixture (a test double), schemas and
hashes, sample formats and the JACK clients, the Lua of Crow and of norns, file
proxying of Maiden, tempo changes and external clock sources of controlled time, the
parsing of `/proc` and of profiles, and build-time scripts and probes that run once.
None of these has state that another step could find changed.

Of what is modelled, some steps are coarser than the code:

- `SessionLifecycle.ServiceDies` and `PassFails` leave out the editor's group. An editor
  that exits with an unexpected status makes the pass that closes it fail once, after
  `maiden.closed` is set (`maiden.py:129`); one that survives SIGKILL fails every pass, as
  `maiden.closed` stays unset, while the services that come after it are still closed. In the
  model the editor exits with the session and its group does not survive its pass; the
  services, which can do both, hold the same locks.
- A server is sent SIGTERM only by a launcher that waits for it. A user can send it at any
  time; for a session that serves, this is `session_terminate`.
- `CrowTrace.ReadTrace` is one step. The code takes the size of the file first and then reads
  lines up to its end while the host may append (`crow_ii.py:9-21`). A record that is
  appended in between is in the page as if it had been there before; only `has_more` is
  computed from the earlier size, so it may say that nothing is left when something is, and
  the next page finds it.
- `CrowCaptures.Await` leaves out the `KeyError` on an input reply without `last_event`
  (above).
- `AudioCaptures.Joinable` waits for the collecting thread as long as it takes; the code
  goes on after three seconds (`audio_capture.py:73`), with a status that the thread may
  still have to set.
- `ProcessTree.Sample` sees `/proc` at one moment. `performance.py` reads one stat file
  after the other, so that a sample may hold a child without the process that forked it;
  the next sample counts both under their own identities.

## Plan

1. Done: `InputSession` and its proofs; `MidiSchedule`, `ScheduledMidi`, `MidiBatch`;
   `SessionLifecycle`; `ControlledClock` and the other parts.
2. Done: proofs about `InputSession` (ownership, planned keys, the journal, shutdown) and
   about all safety invariants of `SessionLifecycle`.
3. Done: proofs of all safety properties of `ScheduledMidi`, its refinement of `MidiBatch`
   among them.
4. Done: proofs of `ContainerRoot`, `AudioCaptures`, `Recorder`, `AudioMonitor`,
   `CrowCaptures`, `CrowTrace`, `MaidenRelay`, `StartOptions`, `Admission`,
   `ResourceEnvelope`, `ProcessTree`, `RunMetrics`, `MidiCapture` and `ScenarioRun`, each
   alone and in `Parts`.
5. Done: proof of `AdvanceIsExact` for advances that do not give up.
6. Left: a proof of `EvidenceIsExact`, and a bound on the work of an advance.
