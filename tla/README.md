# Bosun: TLA+ verification

A TLA+ development of Bosun: a MIDI Captain foot controller running the Bosun firmware (`firmware/`),
the hub that shares it with browsers and desktop editors from a Raspberry Pi (`tools/rpi-hub/`), and
the editor (`editor/`). The specifications are translated from the code; `PROJECT.json` says for every
definition which lines it stands for.

| module | what it is |
|---|---|
| `HubReads` | the hub's single flight and cache for `GET_PATCH`, with the sessions of the serial link and the Captain behind it |
| `FreshReads` | what a client may count on: the abstract specification `HubReads` implements |
| `MCHubReads` | `HubReads` with values for TLC |
| `HubReadsProof` | proofs about `HubReads` for every value of its constants: types and the cache |
| `HubReadsClients` | proofs about `HubReads`, continued: its waiters, limits and tracking, and that it implements `FreshReads` |
| `HubRequests` | the hub's other requests: private ids, the shared snapshot of the context, limits, timeouts |
| `OwnAnswers` | what a client may count on: the abstract specification `HubRequests` implements |
| `MCHubRequests` | `HubRequests` with values for TLC |
| `HubRequestsProof` | proofs about `HubRequests` for every value of its constants |
| `UpstreamLink` | the thread that owns the serial port, the callers of `send` and `stop`, and the port |
| `SessionLines` | what users of the link may count on: the abstract specification `UpstreamLink` implements |
| `MCUpstreamLink` | `UpstreamLink` with values for TLC |
| `UpstreamLinkProof` | proofs about `UpstreamLink` for every value of its constants |
| `FirmwareInstall` | the transaction of the hub's installer on the flash of the Captain |
| `UpdateService` | the update jobs of the hub around that transaction: requests, files, tasks, restarts |
| `SafeUpdate` | what the update service promises: the abstract specification `UpdateService` implements |
| `MCUpdateService` | `UpdateService` with values for TLC |
| `UpdateServiceProof` | proofs about `UpdateService` and `FirmwareInstall` for every value of their constants |
| `InstallIO` | how the installer reaches the pinned Captain, among others, over USB |
| `DeviceSnapshot` | how the installer reads the configuration, line by line |
| `HubSessions` | the hub's sockets, sessions and queues, and its start and stop |
| `MidiConnect` | the wiring of the Captain and the Kemper |
| `HdmiRecovery` | the output service of the kiosk |
| `PiServicesProof` | proofs about the five programs of `MCPiServices` for every value of their constants |
| `MCPiServices` | `HubSessions`, `HdmiRecovery`, `MidiConnect`, `InstallIO` and `DeviceSnapshot` with values for TLC |
| `ConfigStore` | the patches of the firmware: drafts, saved files and profiles on its flash, and what it keeps in memory |
| `PatchStore` | what the firmware promises of them: the abstract specification `ConfigStore` implements |
| `ConfigStoreProof` | proofs about `ConfigStore` for every value of its constants |
| `SwitchFSM` | a foot switch of the firmware: its contact, the modes of its binding, and what the runtime does to it |
| `CdcSession` | the USB data connection of the Captain: its sessions, and the loop that finds out later |
| `UiEvents` | the events by which the firmware tells a client what it did not ask for |
| `FirmwareProof` | proofs about `CdcSession`, `SwitchFSM` and `UiEvents` for every value of their constants |
| `MCFirmware` | `ConfigStore`, `SwitchFSM`, `CdcSession` and `UiEvents` with values for TLC |

## 1. Inventory

### 1.1 The hub (Python, one asyncio thread and one link thread)

**GET_PATCH single flight and cache** (`hub.py:580-843`). *State:* `_patch_flights` (per profile, bank
and slot: the id of the read that is out, whether it is sealed, who waits for it and who waits for the
next one), `_patch_cache`, `_upstream_reads`, the flight counter. *Operations:* a client asks; a
mutation seals the flights of its location and forgets its cache; a read is answered, fails, times out,
or its session ends; a client closes. *Hard:* a reply can be older than a mutation already forwarded; a
deadline races a late reply; the link thread reports the end of a session later than it happens; limits
count over both generations. *Correct when:* nobody is shown contents older than what was promised when
they asked, every waiter is answered exactly once, and the reads the Captain still owes are known.

**Generic requests** (`hub.py:421-577`) and **context flight** (`hub.py:848-1065`). *State:* pending
requests by private id and by client, the context flight and its next generation. *Operations:* as
above, with idless requests broadcast to all, and a flight sealed by fifteen kinds of mutation and by
events of the Captain. *Correct when:* a reply reaches its own client with its own id, or nobody; a
mutation fences every context read before it; a closed client leaves nothing behind except the
broadcasts it was not alone to expect.

**Subscriptions** (`hub.py:91-143`). Bounded queues. *Hard:* overflow in the middle of a stream.
*Correct when:* a client that wants status never sees a gap without a `down` and an `up` before what
follows.

**Update jobs** (`update_service.py`) and **installer** (`firmware_install.py`). *State:* a directory
per job with `status.json`, the package, and the installer's `journal.json`, `configuration-before.json`
and `full-flash-before.bin`; in memory the active job, the task, the maintenance flag, a result that
could not be saved and the set of unresolved jobs. *Operations:* PING, STATUS, BEGIN, CHUNK, ABORT,
COMMIT, RECOVER; the two tasks; the installer's twelve steps and its rollback; stop, death and start of
the process. *Hard:* every disk write may fail, before or after it took effect; the hub may be gone
between any two steps, with a half-written flash; the Captain may be unplugged; answers are lost and
requests repeated. *Correct when:* what a job reports is true of the flash, an image to restore is on
disk for as long as the flash is not what a settled job says, no job is accepted over one that is not
settled, and the task always ends.

**Serial link** (`link.py`). *State:* the port, `connected`, a bounded queue of lines to send, the
receive buffer. *Operations:* open, synchronise by a sentinel, pump, stall, keepalive, close, stop;
`send` from the other thread. *Hard:* admission under a lock against the end of the session, callbacks
outside it, a stop that does not end in time. *Correct when:* a line accepted in one session is sent in
it or never, and the states reported alternate.

**Server and discovery** (`server.py`, `discovery.py`, `__main__.py`). *State:* the sockets, a handler
and a pump for each client. *Operations:* bind, serve, end a session, stop on one signal and on two.
*Hard:* the close marker of a queue may be lost, a client may stop reading, a second signal comes in the
middle of the end. *Correct when:* the process ends with nothing left open.

**MIDI patching** (`midi_connect.py`). A run lists the ALSA clients and connects two of them. *Hard:*
numbers are used again between the list and the connection. *Correct when:* a Captain and a Kemper that
stay are connected both ways.

**HDMI recovery** (`kiosk/bosun-hdmi-recovery.py`). *State:* the schedule of attempts, kanshi. *Hard:* a
hotplug during a recovery, any command failing, kanshi or the service ending. *Correct when:* a panel that
stays is lit, or the attempts are used up.

**Package validation** (`update_package.py`): a pure check of a ZIP archive against its manifest.

### 1.2 The firmware (C, one cooperative loop, no interrupts that share its state)

**Configuration** (`config.c`) over **storage** (`platform/rp2040/storage.c`, littlefs). *State:* the
active profile, its device document and current patch in memory; at most 128 drafts listed with the time
of their last edit; on flash, saved patches, drafts, manifests and the pointer to the active profile.
*Operations:* put, bind, save, discard, remove, autosave, activate, create, rename, delete, start.
*Hard:* a power loss or a failed write between the two files a save touches; a full table; a clock that
wraps; a draft that can never be saved. *Correct when:* the drafts in memory are the drafts on flash, a
crash loses no accepted edit and no saved patch, and a refused operation changes nothing.

**Protocol** (`protocol.c`), **application** (`application.c`), **CDC sessions** (`cdc_session.c`).
*State:* the request in progress, the reply being sent, pending UI events as bitmaps, two MIDI queues,
the generation of the session, a pending reboot. *Hard:* events coalesce while a reply is being sent;
sessions change inside one batch of USB callbacks; a message is for both MIDI ports or for none.
*Correct when:* a client that applies the events in order ends with the device's state, and nothing of
one session is seen in the next.

**Switches** (`switch_fsm.c`). *State:* the contact as read and as debounced, the time of the last press, a
latch, a tap that waits, over a 32-bit millisecond counter. *Operations:* a poll, a remote tap, a reset.
*Hard:* the counter wraps; the poll that passes a limit may see the edge too; the patch changes while a
foot is down. *Correct when:* each gesture fires the triggers of its mode, each once. **Runtime**
(`runtime.c`): a queue of 128 actions filled all or nothing, 32 run per tick. **Kemper** (`kemper.c`):
replies of an older generation are quarantined. **Display, JSON, MIDI, hardware tables, expression
pedal:** sequential functions with unit tests.

### 1.3 The editor and the rest

**Desktop USB update** (`usb_update.rs`, `picoboot.rs`): the same transaction as the hub's installer,
with append-only job records. **Serial, TCP and Android transports**: reader threads and session
generations. **Protocol client** (`protocol.ts`, `ws-link.ts`): pairing, timeouts, reconnection.
**Views, backup, undo, simulation; build and packaging scripts; the USB installer for the first
installation; the CAD files of the stand; vendored code**: not candidates, for the reasons in
`PROJECT.json`.

### 1.4 How they interact

Browsers and TCP clients send lines to the hub, which answers some from its cache and forwards the rest
through the link's queue; the link thread posts the Captain's lines and its own state to the asyncio
thread. The Captain executes one line at a time and interleaves its events. A firmware update closes the
hub to clients (`maintenance`), waits for the reads the Captain still owes, takes the port from the link
thread, and runs the installer in a worker thread, whose progress comes back as callbacks of the loop.

## 2. The reads of the hub: `HubReads`

**State.** `link`, `sessions`: the serial session as the link thread sees it. `wire`: lines accepted
for the Captain and not yet executed; the link's queue and the Captain's input are one queue, since
nothing can overtake in either. `stored`: what the Captain answers for each key. A value is the number of
the last change made to it: contents matter only by their age. `posted`: callbacks the link thread has
given to the loop (`call_soon_threadsafe` runs them in order). `subs`, `cache`, `flight`, `seq`,
`tracked` are the hub's own fields; `promised`, `asked` and `answer` are history: what had been
forwarded for a key, what each request was entitled to, what it got.

**Keys.** A key is a profile, a bank and a slot. The empty profile reads the active profile, drafts
included; the profile's own name reads the saved file (`config.c:189-200`, `protocol.c:459-467`). Both
name one location, and a mutation that names a bank and slot concerns every key at that location.

**Actions.** A request is answered at once (unknown client, cache, link down, limits), joins a flight,
starts one, or starts one the link refuses. `Write` is the whole of `_send` for a mutation: flights are
sealed and the cache forgotten before the line is given to the link. `SwitchPatch` and a
`patch_switched` event do the same with `SeePatchSwitched`. `Dispatch` runs one posted callback: a reply
of a flight, of an old flight, an error, the end of a session. `Finish` ends a generation by answering
its waiters and starting the next one in the same step, as the code does; each way this can fail is a
disjunct.

**What is abstracted.** All errors are one outcome. A session that starts has synchronised. A Captain
that was unplugged may have been edited by another editor, while nothing is pending in the loop. The Captain
answers with the id of the request. The firmware answers a line that it cannot parse, or that is too long, with
a null id (`protocol.c:369-380`, `:645-646`): such a read is followed until its session ends.

**Promise.** `FreshReads` has no cache, flights, queue or sessions: a request is answered at most once,
by an error or by contents not older than what was promised when it was made. `ReadsAreFresh` is the
refinement; its mapping is the identity on `promised`, `writes`, `asked` and `answer`, which the hub
cannot influence except by answering.

**Fairness.** Weak fairness of `Dispatch` (the loop runs what was posted) and of each `Timeout` (the loop
runs timers that are due). The Captain, the link and the clients promise nothing; a read that is never
answered ends by its timer.

### Runs

| run | instance | shows |
|---|---|---|
| `hub_reads` | 2 clients with a request each, both keys of one location, 2 changes or saves, 2 sessions, a wire of 2 lines, limits 2 and 1 | types, `CacheFresh`, `ActiveCacheCurrent`, `NoLostWaiter`, and the refinement `ReadsAreFresh` |
| `hub_reads_kept_up` | 3 requests of 2 clients on one key, limits 2 and 1, 1 change, 2 sessions, an event from the pedal; the loop runs the end of a session before the next begins | `WaiterLimits`, `FollowedIsOwed` (a read is followed exactly while it is owed), and under fairness `EveryWaiterAnswered` |
| `hub_reads_stalled` | the same without that assumption | a violation of `TrackedUntilAnswered` |
| `hub_reads_saved` | both keys of one location, a save | a violation of `CacheCurrent` |

Two requests are enough for a joiner and for a second generation, two changes for one that overtakes a
read and one that overtakes its successor, two sessions for a reply and a notice that are late. The
safety properties are proved without these bounds. The system may stop when the bounded requests
and changes are used up, so deadlock is not checked.

`LoopKeepsUp` names an assumption, not a fact: that the loop has run the `down` of one session before the
link thread is `up` again. `hub_reads_stalled` shows what happens without it (finding 1); every other
property of the cache and the waiters is checked without it.

### Proofs (`HubReadsProof`)

`TypeCorrect`, `CacheNeverStale` and `ActiveProfileExact` hold for every number of clients, requests,
keys, locations, sessions and changes, from the two assumptions on the constants that `HubReads` states.
`CacheFresh` alone is not inductive: a cache entry is the value of a reply, the reply that of a line
that was queued when a change may have been queued before or after it. The invariant `IInv` says what
each queue promises:

* `IdsGiven` and `FlightIdsDiffer`: ids in use were given, each to one flight, so a reply finds its own;
* `ReadsHaveKeys`: the read on the wire with a flight's id asks for that flight's key;
* `PromiseKept`: the last change forwarded for a key is stored, or is on the wire;
* `OpenReadIsLast`: no change to its key follows the read of a flight that can still be joined, because a
  change seals the flight before it is queued;
* `OpenReplyIsFresh`: so the reply posted for such a flight meets what was promised;
* `CacheSettled`: what is kept for the active profile is stored or about to be overtaken by nothing;
* `DownIsEmpty`: with no session there is nothing on the wire and nothing promised that is not stored.

A second invariant, `Numbered`, bounds what is numbered by `writes`; it does not depend on the first and
is proved separately. There is one lemma per kind of step (what does not touch the queues, what starts or
ends a generation, what adds a line, what takes one), and the actions refer to them.

### Proofs (`HubReadsClients`)

`NoWaiterIsLost`, `LimitsAlwaysHold`, `FollowedAreOwed` and the refinement `ReadsAlwaysFresh` have the same
assumptions. The properties need more than `IInv`, and `ClientInv` adds it:

* `WaitersInv`: the two generations of a flight share no waiter, and without a flight there is none, so
  that `Finish`, which answers the one and starts the other, loses nobody;
* `LimitsInv`: the sets that are counted are finite;
* `IdsOnce`: no id is under way twice, so that taking a reply is the end of it;
* `FollowInv`: what is followed is under way, and what is under way is followed if the end of a session
  is the last thing posted. Only this part needs `LoopKeepsUp`, and `FollowedAreOwed` has it as its
  hypothesis: the run `hub_reads_stalled` shows that it fails without;
* `Possible` and `OwedInv`: the read of a flight stands on the wire behind every change that was promised to
  one of its waiters (`WillShow`), so its reply shows them; a waiter for the next generation was promised
  nothing that has not been passed on.

The refinement maps each step by what it does for a client: the changes of the Captain (`Write`,
`RefusedWrite`, `SavesDraft`, `EditedElsewhere`) to `Change`, the end of a session to `TakeBack`, what asks
or answers to `AskOrAnswer`, everything else to a stutter. A generation that ends answers any number of
waiters at once, and starts a read whose answers come later.

## 3. Firmware updates: `FirmwareInstall` and `UpdateService`

`UpdateService` EXTENDS `FirmwareInstall`: the worker thread and the event loop are two processes that
interleave step by step, sharing the disk and, through results, the job.

**`FirmwareInstall`.** `worker` is the transaction and the step it is at; `journal`, `before` and
`backup` are the three files; `flash` is a firmware and a configuration, `kept` or `altered`; `mode` is
whether the Captain runs its firmware or its bootloader. Each step succeeds, or fails before or after its
effect where that differs, or the report that follows it raises (`Reported`, `ReportRaised`). A write
that raises may or may not be on the disk afterwards (`DiskFaults`): `os.replace` can succeed and the
`fsync` of the directory fail. Loading is two steps with `"mixed"`, which does not boot, between them.
`Fail` is the handler of `run`: nothing to undo, a restart of the Captain, or the rollback. No report
stops a rollback. A wrong Captain, or one that does not come back, is a step that fails. `Replug` is the
player, at any time.

**`UpdateService`.** `status` is the phase in each `status.json`, with the phases of an installation
merged into `working` and those of a check into `checking`; `active`, `task`, `maintenance`, `volatile`,
`unresolved`, `scanned` are the fields of the service; `link` is what `stop` and `start` of the link
leave. `Loaded(j)` is what a request is told: the volatile result, what an incomplete directory implies,
`recovery-required` for a job that is at work in no task of this process, or the file. `Look(S)` stands
for the requests that read states, STATUS of one job and the refusals of BEGIN and COMMIT: they save and
remember what they find. `Chunk` counts a package of `Size` chunks. The age at which an upload expires is
a choice. The drain of reads (`hub.py` `drained`) ends well or at its deadline. `Stop` lets the task end;
`Dies` is the end of the process after a stop, a kill or a power loss, at any step.
`base` is history: what the flash held when a job was accepted.

**Promise.** `SafeUpdate` knows the flash, what it was when each job was accepted, and what each job
reports. Reports are true: `done` is the new firmware with the configuration kept, `restored` and
`untouched` are the original. No job is accepted while another is open or unresolved, and an unresolved
job writes nothing. `ReportsAreTrue` is the refinement, with the report of a job computed from `Loaded`.

**Fairness.** Weak fairness of the steps of the task and of the worker: the loop runs its tasks, and each
command, wait and transfer of the installer has a timeout, so that each step has an end, if only a
failing one. Requests, the player, the disk and the link promise nothing. `TaskEnds` holds although the
Captain never comes back.

### Runs

| run | instance | shows |
|---|---|---|
| `update_jobs` | two jobs, a package of one chunk, failed writes that leave nothing or the write | types, `BackupHeld`, `PingKept`, the refinement `ReportsAreTrue`, and `TaskEnds` |
| `update_check` | two jobs, no disk faults | a violation of `CheckPossible` |

Two jobs are enough for one to meet what another left: at most one is ever active, and a third would be
in the position of the second; the safety properties are proved for any number. Deadlock is checked: a hub
that is off can always start.

**Observations.** When the save of a COMMIT raises (`update_service.py:272-274`), a job that its last chunk
had made active (`:248`) stays active without a task: it is reported as working until the hub is started
again, and no other job is accepted meanwhile. `TaskEnds` speaks of tasks, and this job has none. And when the
journal cannot be written in the report that arms the installation, `writes_started` is set already
(`firmware_install.py:301-302`): the rollback then writes the flash, with reports that need not be saved, under
a journal that says that it is untouched, although the comment at `:241` calls the pre-write journal durable.
The image is on the disk and what the job reports is true also then (`BackupHeld`, `ReportsAreTrue`).

### Proofs (`UpdateServiceProof`)

`TypeCorrect` (with it that the device is owned by the job of the task), `BackupAlwaysHeld`, `PingAlwaysKept`
and the refinement `ReportsAlwaysTrue` hold for every number of jobs, every size of a package and every way the
disk may fail, from `ServiceAssumption`. A job
is *held* when it may have touched the flash and has not said what became of it: by its file, by a result
that is only in memory, or by both. `IInv` says that at most one job is held (`OneHeld`) and what the rest
of the service has to do with it:

* `TaskInv`, `EarlyInv`, `VerdictInv`: the task works for the held job, has done nothing before it took the
  port, and is about to save only what is true of the flash;
* `MemoryInv`, `PingInv`: a result in memory is of an accepted job, and a hub that has scanned its jobs
  remembers the held ones that touched the Captain;
* `ImagesInv`, `FlashInv`: the files of a job hold what the flash held when it was accepted; the flash of no
  held job has its configuration, that of a held one is as it was found or has its backup on the disk; and a
  result that reached the disk although the save raised is true;
* `WorkerInv`: what the step of the worker says of the journal, the files and the flash.

The death of the hub, at any step, keeps all of this because none of it but `TaskInv` and `WorkerInv` speaks
of a process. For the refinement, what a job reports is computed from `Loaded`; one lemma says what that
is in terms of who is held, and the steps that accept, interrupt and conclude a job refer to it.

## 4. The patches of the firmware: `ConfigStore`

**State.** On the flash: `manifest` (the profiles that have a `manifest.json`, which is what makes one
visible), `pointer` (`active_profile.json`), and for each profile and patch a `saved` file and a draft
(`native-drafts/`). In memory: `active`, `at` and `playing` (the profile, bank, slot and patch of
`bosun_config_t`) and `dirty`, its table of drafts. A version of a patch is the number of the edit that
made it, 0 is no file. `op` is the request in progress; `behind` is history, what in memory is known not
to follow the flash any more.

**Actions.** The loop of the firmware serves one request at a time, so nothing interleaves with a request
except the end of it. What touches one file is one action (`Put`, `PutBinding`, `PutNamed`, `Create`,
`Activate`). A save, a discard, a removal and a deletion touch several: `Settle`, `Remove` and `Delete`
accept them, and each file is a step (`WriteTarget`, `DropSaved`, `DropUnsaved`, `DeleteFile`), since
`bosun_store_write_atomic` replaces a file whole or not at all. `StepFails` is the early return of any of
these steps; `Restart` is the loss of power at any point, followed by `bosun_config_init`, which may also
find that it cannot read something and start with nothing. `Remove` is the one request whose first file
is gone as soon as it is accepted.

**What is abstracted.** The order of the table (a save goes through its drafts in any order) and of a
directory; the age of a draft, so that `Autosave` may happen at any time; the contents of a patch;
limits other than the table's. An accepted request whose first step fails is the early returns before
anything is written. The device document, the name of a profile and listings are left out.

**Promise.** `PatchStore` has for each patch a saved version and the version that is shown; there is no
table, no memory, and a loss of power is at most the end of the request in progress. A save makes the
saved version the shown one, never a third; a discard or a removal shows what is saved; nothing else
changes either. `StoreIsKept` is the refinement: shown is the draft if there is one, else the saved file.
An interrupted save is therefore invisible: the draft that is still there is the file just written.

**Observations.** Two behaviours follow from the code that its documentation does not speak of. A
deletion of the active profile that fails half way leaves the table and the patch in memory as they were
although files are gone; `behind` says so, and the profile has to be loaded again. And a profile whose
deletion was interrupted after its manifest, then created again under the same name, has again the
patches and drafts that were left.

### Run: `firmware`

Two profiles of three patches, a table of two drafts, three edits, any number of failures and losses of
power: the types, `DraftsFit`, `TableIsDrafts`, `PlayingIsStored` and the refinement `StoreIsKept`. Two
drafts make a save of all that can be interrupted between them, a third patch meets the full table, and a
third edit changes what an interrupted request left. Profiles are symmetric, and so are the patches other
than the first, which a load selects; the properties are safety properties and name no patch. Deadlock is
checked: a restart is always possible. The foot switch, the USB sessions and the events of the next three
sections are other subjects of the run: they share no state.

### Proofs (`ConfigStoreProof`)

`TypeCorrect`, `DraftsAlwaysFit`, `TableExact`, `PlaysWhatIsStored` and `PromiseKept` hold for every
number of profiles, patches, drafts and edits, from the assumptions that the patches are finitely many, that
the first is one of them, and that `NoProfile` is no profile. The invariant `IInv` adds to the properties: a request that settles drafts is
for the active profile (`OpInv`), and a draft about to be removed by a save equals the saved file, without
which removing it would be a loss; no draft on the flash is ever missing from the table, also while
`behind` (`TableInv`), without which the table's limit would not bound the files. There is one lemma per
action for the invariant, and one per action that changes something promised for the refinement
(`StepKept`): every step is a step of `PatchStore` or a stutter.

## 5. A foot switch of the firmware: `SwitchFSM`

**State.** `switch` is `bosun_switch_fsm` (`high` and `stable` are `last_raw` and `stable`, `before` is
`latched_pre_press`), with `out`, the triggers of the last call. Times are kept as their distance from now,
which is all the code computes: `past`, since the end of a window, modulo `Span` and read as a signed
number, as in the code; the other two only up to the limits they are compared with. `mode` is the mode of
the binding, with `auto_momentary_on_hold` as a mode of its own (`hold`). `gesture` and `taps` are history:
the last press with its triggers and its true length, and the taps that no trigger has answered yet.

**Actions.** `Poll` is `bosun_switch_poll` as `bosun_runtime_tick` calls it, some time after the last;
`RemoteTap` is an accepted `bosun_runtime_activate_switch`; `Edit` is a new mode without a reset
(`bosun_runtime_config_changed`); `SwitchPatch` is the reset of all switches with the bindings of another
patch or profile, and the latch that `mirror_effects` may set in the same call; `MirrorEffect` is a report
of the Kemper. What the triggers do (the action queue) is not modelled; it comes back as `SwitchPatch` at
any moment.

**Properties.** `TriggersFit`, which holds: when the switch is up, the last press and its release have fired
what the mode promises, each trigger once, by the true length of the hold, or nothing at all if it was a
`long_press_alt` whose release was debounced at the limit or later (`ReleasedLate`); of a switch that was
down when everything was reset only the release of a momentary binding; and every tap of a `double_tap` switch
is in at most one trigger, `double` for two within the window and `press` for one after it, waits for it, or
was lost to the press that came after its window. A gesture in whose middle its binding is edited, or the
latch changed by a report, is left out. `GesturesAnswered`, which does not hold: nothing is left without its
trigger. It is `TriggersFit` without the two ways of losing one, which the model records in `gesture.late`
and `taps.lost`.

**Finding** (run `switch_limits`). The editor's help says that a short press fires `press` and a longer one
`long_press`, and that "a single press still fires" (`editor/src/lib/help-text.ts:11-14`). Two polls do
otherwise. A release that is debounced by the very poll in which a `long_press_alt` hold reaches its limit
fires nothing: `held < long_press_ms` is over, and `stable` is up (`switch_fsm.c:53-54` and `:75`). This is
TLC's trace. And a press seen by the first poll after a window takes the place of the tap before it, whose
`press` is lost: `press` looks at the window before line 80 has fired it, which `bosun_switch_tap` avoids
by a poll of its own (lines 98-99); TLC also refutes `~taps.lost` alone. With both corrected in a copy of the
model (an expired window is settled before the press, a late release fires `long`) `GesturesAnswered` holds.

**Observations** of what both properties leave out: a tap that waits while its binding is edited to another mode
stays pending, and fires, or makes a double tap of a later press, when the mode comes back; and a latched
switch that is held while the patch changes and the Kemper then reports its effect on turns that effect off at
its release, since `press_start_ms` is 0.

**Proved**, in `FirmwareProof` (`TriggersAlwaysFit`): `TriggersFit`, with the two losses as it names them and no
other, for every clock, window, limit,
debounce and lateness that `SwitchAssumption` allows, as a consequence of `SwitchInv`. It alone is
not inductive, because it speaks of what has been fired and not of what the record still holds. `TapInv`
adds that the end of a pending window is where the age of the tap puts it (until it is edited, when it may
go stale) and that a window is pending only under its own mode; `HoldInv` says, for a switch that is down,
what its mode has fired so far and that its record tells the same (`Holding`: the latch against the latch
before the press, `fired` against the true length of the hold), and that one held over a reset has nothing
to fire but a release (`HeldOver`). There is a lemma for each way through `Poll` (nothing settles, a press,
a release) and for each of the other actions; the arithmetic of the clock that wraps is in lemmas of its
own. The proof found a CASE in the model's `Edge` whose guards overlapped, which TLC resolves by taking the
first and TLA+ does not; it is now an IF, in the order of the code.

**Bounds.** In the `firmware` run a clock of 7 steps, a window and limits of two, a debounce of one: a
double tap by foot takes two, every limit is met exactly, missed by a late poll, and passed, and a window
left pending goes once around the clock. `switch_limits` has the same switch.

## 6. The USB sessions of the Captain: `CdcSession`

**State.** `usb` is the stack: configured, suspended, the host's DTR. `cdc` is `cdc_session.c` with
TinyUSB's two queues and the packet under way, which cannot be called back. `app` is what `application.c`
remembers of the connection, its input, and what `protocol.c` keeps of a session: the part of a line, and
the answer going out. `pc` is where the loop is, `busy` whether it is inside `bosun_board_task`. Bytes are
pieces labelled with the session they belong to; `request`, `heard` and `amid` are history.

**Actions.** The stack's (`LineState`, `BusReset`, `Configured`, `Unplugged`, `SuspendOrResume`, `Arrives`,
`Delivered`) happen any number of times in one call, before `CdcTask`. The loop is `ProtocolInput`,
`Handled`, `Tick`; between them it calls the stack again for every page it writes to the flash
(`board.c:397-425`), so a session can end and another begin in the middle of a request or of an autosave.

**What is abstracted.** What a request does and an answer says: an answer or an event is one or two pieces.
A line too long, a pending reboot, and the MIDI events are left out.

**Property.** `SessionsApart`: a request is made of bytes of one session and executed in it, and what the
host hears after the newline that begins its session is of that session.

**Observation.** The second half excepts a session that begins in the middle of the loop's work (`amid`).
At the end of a tick the loop sends what is left of an answer without looking at the generation
(`application.c:329`), so such a session is sent the rest of an answer to the one before; its next tick
drops what is still left (`protocol_input`), possibly in the middle of a line, which then absorbs the first
frame of the new session. `cdc_session.c:67-69` has the newline so that "an old partial line cannot absorb
the first new frame". Without the exception TLC refutes the property. A client that opens the port like
the hub sends a sentinel that begins with a newline and drops what it cannot parse (`link.py:579-632`); when
the answer to the sentinel is the frame that is lost, the handshake times out and the port is opened again.

**Proved**, in `FirmwareProof` (`SessionsAlwaysApart`): the property, for any number of sessions and of
pieces and any size of the queues, as a consequence of `SessionInv`. It needs three parts that the property
does not mention. `UsbInv`: while the device is configured the stack's callbacks follow DTR at once.
`WireInv`: the newline of the session is still to be queued, or is the first of what is queued, or has gone
out, and everything after it is of the session (`Parted`); the packet under way, which cannot be called
back, is of whatever the host takes it for. `AppInv`: what the application keeps, a line and an answer, is of
the session it knows, which is the host's one unless the generation says otherwise or one began while the
loop was working. Flushing a queue is shown to keep `Parted` packet by packet, by induction over its length.

**Bounds.** Two openings are one session and the next; queues of one piece are full of the newline or of half
an answer of two; four generations allow a fall, a rise and a bus reset.

## 7. The events of the Captain: `UiEvents`

**State.** `conf` is what `bosun_config_t` says of itself: the profile, its drafts, the position, and the two
counters by which a change is noticed. `ui` is what `bosun_protocol_t` saw of it last and still has to tell:
a bit for each kind of event, the locations saved and discarded, and the binding fired last. `linked` and
`sending` are the session and its single output. `edition`, `last` and `client` are history: which change
made what is played, how the last draft of each location ended, and what a client that reads and listens has
been told.

**Actions.** Between requests a foot selects, a draft is saved by itself, a binding fires (`SelectedByFoot`,
`SavedByItself`, `BindingFires`), a session ends or begins, an answer has been sent. A request looks before
and after its change (`Before`, `Requested`), with one action for each kind of change; a save or discard of
many that stops half way is one of fewer. `ProtocolTick` looks, and sends one event when no answer is under
way.

**What is abstracted.** Which locations hold a patch, the device document, who caused a switch
(`patch_source`), and the switch a binding belongs to. A client is told when the event is formed: lines go in
order, and a session that loses one is over.

**Property.** `EventsTell`: what is still to be told of a location is how its last draft really ended, however
often it was saved, edited and discarded since, and no binding is told of a patch no longer played
(`PendingIsTrue`); and a client that was told everything knows the position, the drafts and their endings,
and holds no contents of a patch that is played differently now (`ClientKnows`).

**Observations.** Events go when no answer is under way: a client that never stops asking delays them for
itself. An edit of a draft that is not played, and the removal of a saved patch that is not played, have no
event: the drafts and the position are what they were.

**Proved**, in `FirmwareProof` (`EventsAlwaysTell`): the property, for any finite set of locations and any
number of changes. It speaks only of a memory that has just looked (`Seen`); what happens in between is in
the invariant `UiInv`, which describes a memory that is behind. Since the last look a foot may have selected
and drafts may have been saved by themselves, but no request has passed without a look at its start and end:
so the profile is that of now, drafts have only gone, each of them saved, and the counter of what is played
is either that of now, with the position, or smaller (`Remembers`). Then every ending the client does not
know is in one of the sets, or is a draft that will be found gone (`EndingsPend`), and without a `patch` or
`dirty` to tell the client knows what is played and the drafts (`PlayPends`). One lemma says what a look
makes of the memory for each of its outcomes, one what each change is, and one that a change followed by a
look keeps the invariant, whichever way the drafts ended.

**Bounds.** Two locations are one that is played and one that is not; three changes are a draft saved, edited
again and discarded, or a profile deleted, another loaded and changed.

## 8. The other requests of the hub: `HubRequests`

**State.** `pending` and `index` are `_request_pending` and `_request_ids_by_sub`; `flight` is the
snapshot of the context that is out, with its two lists of waiters; `tracked` is `_upstream_reads`; `seq`
the two counters. `wire`, `posted`, `link` and `sessions` are as in `HubReads`. The context is the set of
changes the Captain has made, `passed` (history) those the hub has passed on or reported, `due` (history)
those that had been when a request was made.

**Actions.** `InMaintenance`, `RefusedAtOnce`, `RefusedLine`, `JoinSnapshot`, `StartSnapshot`,
`SendRequest` and `PassOn` are the ways through `_send`; `DropLate`, `TakeSnapshot`, `TakeReply`,
`SeePush` and `SeeDown` are the ways through `_dispatch` and `_dispatch_status`; `CloseSub`, the two
timeouts, `Maintenance` and `Stop` are the rest. A detached read (no id, for everybody) outlives its
client; everything else of a closed client goes.

**What is abstracted.** The fifteen mutations are one kind, `command`, and may or may not change the
context; the Captain may refuse. Errors are one outcome. Requests are made once each. As in `HubReads` the
Captain answers with the id of the request: `MaintenanceDrains` does not speak of a read that it could not
parse, which only the end of the session takes from what is owed; an update gives up on it after 12 seconds
(`update_service.py:314-318`).

**Promise.** `OwnAnswers` has no ids, snapshots or sessions: a request is answered at most once, with an
error, with the reply to that very request, or with a context that shows every change passed on before
the request was made. `AnswersAreOwn` is the refinement. A session that ends takes back what the Captain
had not done.

**Fairness.** The loop goes on while there is a callback to dispatch or a timer that is due, in any order.
The Captain serves what is queued or its session ends: its stall watchdog ends a session whose keepalive is
not answered, and a Captain that answers keepalives serves the lines queued before them.

| run | instance | shows |
|---|---|---|
| `hub_requests` | 2 clients; three contexts, or a detached read and a command, or a read and a command; 1 change, a wire of 2 lines, 2 sessions, limits 2 and 1 | types, `NothingLost`, `IndexExact`, the refinement `AnswersAreOwn`, and under fairness `EveryRequestAnswered` and `MaintenanceDrains` |

Three contexts are a snapshot, a request that joins it or finds it sealed, and one over a limit; the other
batches let requests of two kinds and two clients cross. One change can overtake a snapshot; two sessions
make a reply late. `MaintenanceDrains` is what an update needs: with the hub closed to its clients the
reads the Captain owes are answered or forgotten.

### Proofs (`HubRequestsProof`)

`TypeCorrect`, `NothingIsLost`, `IndexAlwaysExact` and the refinement `AnswersAlwaysOwn` hold for every number
of clients, requests, changes and sessions and every limit. `IInv` has one part for each thing the hub
keeps: the flight (`FlightInv`), the pending requests (`PendingInv`), who waits (`WaitingInv`), the index and
the limits (`IndexInv`, `LimitInv`), ids that were given and those followed (`IdsInv`, `TrackedInv`). Two
more say what the answers will be. `OwnInv`: a line or a reply with the id of a pending request is that
request's. `PassedInv` and `SnapshotInv`: nothing is passed on while a snapshot can still be joined, so what
was passed on before is made by the Captain or stands on the wire in front of the snapshot's line; its reply
therefore shows what is due to each waiter. The refinement maps the end of a session to `TakeBack` and
every other step to `Move` or a stutter.

## 9. The link: `UpstreamLink`

**State.** `pc` is where the thread is; `published`, `connected`, `tx`, `activity`, `stop`, `pending`, `rx`
are its fields; `sender` and `stopper` are a caller in the middle of `send` and of `stop`. The port is
`out` and `in`, both bounded, and the byte of `_ReadWakeup` (`woken`). A line is two fragments, so that a
read, a write, or the start of a session can cut it.

**Actions.** `_open_and_sync` is `OpenFails`, `OpenPort`, `Abandon`, `KeepPort`, `Publish`, `SyncGoesOn`,
`Handshake`, `SyncFails`, `NoneAnswered`; `_pump` is `NextPass`, `Write`, `Read`, `Wait`, `Raise`; the end
of a session is `Down`, `Close`, `Backoff`. `Send`, `SetActivity`, `WakeRead` and `StopSets`, `StopCloses`
are the steps of the callers between which the thread runs. A Captain hangs, its driver wedges, or it is
unplugged (`Fails`).

**What is abstracted.** Time is whether a wait may be over, and whether `STALL_S` has passed without a byte
(`TimePasses`). The wait of 50 ms after a written line is a read that finds what is there. Left out are the
refusal of a full queue, a line of 1 MiB and the counter of unanswered writes.

**Promise.** `SessionLines`: lines accepted in a session reach the Captain in that order, whole, each once,
up to some point, and none is carried into another session. `LinesInSession` is the refinement: a line counts
as received when both fragments of it came, one after the other. What the Captain sends is the subject of
`OnlyFirstCut`.

**Fairness.** The thread goes on unless it is in a call on a wedged driver, for each wait has a timeout; a
caller of `stop` goes on; a Captain that is alive takes and sends; time passes. `AcceptedSettled` excepts a
wedged driver, which only a `stop` ends.

| run | instance | shows |
|---|---|---|
| `upstream_link` | 2 lines, 1 event, a console and a data port found by discovery or an emulator over TCP as the target, buffers of 1 and 2 fragments, 2 ports opened, the first of which may fail | types, `NoLostWakeup`, `OnlyFirstCut`, the refinement `LinesInSession`, and under fairness `StopEnds` and `AcceptedSettled` |
| `upstream_link_cut` | the same | a violation of `EveryLineWhole` |

Buffers smaller than a line make every write partial; two openings carry what one session left into the
next. A link that has used up its openings stops, so deadlock is not checked. `heard` is history: each line
that was handed on with the ones before it, so that order is a fact about one element.

### Proofs (`UpstreamLinkProof`)

`TypeCorrect`, `NoWakeupIsLost`, `OnlyFirstIsCut` and the refinement `LinesKeepSession` hold for every number of
lines, events, ports, openings and failures and every size of the buffers, from the assumptions that
`UpstreamLink` states; `KindsAssumption` only says that the names of lines of different kinds differ.

The buffers hide the order the properties are about: a line may lie in five of them, cut anywhere. The
invariant therefore speaks of two streams. `Sending` is what the Captain has of a line, what is on the way to
it, and what is left to write; `Coming` is `_rx`, what the driver holds, and what the Captain has still to
send. A partial write or read, or `Emit`, moves a border between buffers and leaves the stream as it is; so
few steps change one: a line begun is added at the end, a line taken or read goes from the front, and a
port that is closed cuts it. `IInv` has:

* `ControlInv`: what is left of a session at each step of the thread: only a pumping thread is connected,
  only a connected link has lines queued, nothing of an earlier session outlives the port;
* `WakeInv`: a caller that queued a line has still to notify the thread, or has;
* `CountInv`: lines are numbered through all sessions, and those not begun are the last accepted;
* `SendingInv`: the stream is lines, whole but for the end of a closing session, in order, from the one the
  Captain is to get next; every one of them is there while the session lasts, so the next line taken is
  the next one accepted;
* `ComingInv`: replies in the order of the lines, events once, nothing stale once the handshake is over;
* `HeardInv`: what was handed on comes before what is coming; a stream can begin with the end of a line
  only as long as nothing was handed on.

Lemmas about streams (a line added, two fragments gone, a prefix, a rest) carry the argument; each step
refers to one of them. `WakeInv` is proved without the streams.

## 10. Around the core: `MCPiServices`

Five modules that share no state are checked in one run: `subject` says which of them a behaviour is about,
and the others stand still. Their fairness is that of each module, for the subject.

**`HubSessions`.** `run` is where `server.run` is, `handler`, `queue`, `pump` belong to a client, `shut`
and `left` are connections closing from either side. Lines are numbered for each client, so that a gap can
be told. `Offered` collapses the queue of a Stage client to `down`, `up` and the line. `GapIsSeen`: no
Stage client reads a line after a gap without having been told both, so it reads everything again.
`ShutdownEnds`: one signal or two, at any step of the start or the end, the process ends with every
connection gone. *Assumed:* the loop runs what is ready, an update ends (`TaskEnds` of `UpdateService`), and
a client that stays connected goes on reading, which systemd's stop timeout enforces.

**`HdmiRecovery`.** The three attempts of `RecoverySchedule`, `rearm_hdmi` step by step with each command
failing before or after its effect, kanshi ending, SIGTERM, hotplug notifications in the middle.
`PanelSettled`: a panel that stays is on, and was switched off and on since it came, or its attempts are
used up. Without the DRM monitor the service only polls, and a panel off for less than a check is not
noticed; then the property says only that the output is on. *Assumed:* systemd restarts the service, Cage
publishes the output, kanshi applies its policy.

**`MidiConnect`.** A run is four steps between which devices go, come back under other numbers, or get
their ports later than their number. `MidiWired`. *Assumed:* the timer starts runs, ports appear.

**`InstallIO`.** The operations of `firmware_install.py` that find a port or a boot device, check it and
use it, for the update and both remedies, with a second Captain plugged in at the same place, under the
same name or address. `PinnedOnly`: only the pinned unit carries out a command, and nothing is loaded
before every range of the backup is from one state of the flash. Proved as `PinnedAlways` too.

**`DeviceSnapshot`.** Requests with ids on a stream that also carries events and late answers, cut
anywhere; pages of a catalog that changes between two requests. `SnapshotWhole`: a snapshot that is taken
is a state the Captain was in, and no whole line is taken for a broken one. Nothing is assumed of who else
edits. Proved as `SnapshotsAlwaysWhole` too.

| run | instance | shows |
|---|---|---|
| `pi_services` | a Stage client and a raw one, queues of 3, 4 lines; 3 attempts, 2 changes of the panel, 2 faults; 3 devices, 4 replugs, a run cut short; backups of 2 ranges, 2 units plugged in, a write; pages of one patch, 2 changes, 2 snapshots or events | `TypeOK` of all, `GapIsSeen`, `ShutdownEnds`, `PanelSettled`, `MidiWired`, `PinnedOnly`, `SnapshotWhole` |

A queue of three is the smallest that holds what replaces an overflow; the fourth line overflows it. Two
changes of the panel are a hotplug in a recovery, two faults one in a command and one in its remedy. The
lowest free number makes four replugs enough to swap two devices. Two ranges can differ. What these
services do ends with the bounded events, so deadlock is not checked.

### Proofs (`PiServicesProof`)

`PinnedAlways` and `AccessTypeCorrect` hold for every number of ranges, of units plugged in, and of changes
to a flash, from `AccessAssumption`. `PinnedOnly` is not inductive. The invariant `IInv` adds: names in use
differ (`NumbersDiffer`); an open port keeps its name, so that a check of what has that name *after* the
port was opened is a check of the port (`PortKept`, the step that the mutant `CheckNothing` leaves out);
and what each position of the round has made of the backup (`BackupKept`): complete after the save, of one
state after the verification that precedes the load, and unchanged in a rollback. One lemma ends every
operation (`DoneGood`), one every failure (`FailedGood`), one every step in between (`WithinGood`).

`GapsAlwaysSeen` (`GapIsSeen`, and the types, with the bound of every queue) holds from
`SessionsAssumption`: any clients, any `QueueMax` from three on. A
line that leaves a gap is sent long after the overflow that made it, so the invariant `SessionsInv` speaks
of everything on its way to a client: what its pump holds, then its queue (`StreamOf`). `Coherent` says that
every line of this stream, and also the line that would be offered next, is the one after the line before it
or has a `Down` and then an `Up` between them (`Follows`); before the first line, the last line and the
statuses the client has seen take the place of the rest. Only connections that nobody is closing need it:
on the others nothing more is sent. Three lemmas say what can happen to a stream. At its end the next line
comes (`NextLineComes`) or something else does (`OtherComes`); from its front the first item goes and
becomes what was seen (`FirstOfStreamGoes`); and `LinkLostAndBack` is the overflow: whatever is dropped
behind the item the pump holds, a `Down` and an `Up` let any number come next. The mutant
`OfferedOldest` breaks this last step.

`SnapshotsAlwaysWhole` (`SnapshotWhole`) holds from `SnapshotAssumption`: any lists of patches, any page
size from one on, any number of changes, events, late answers and snapshots. Its invariant `SnapshotInv`
speaks of `Stream`, what the installer has read followed by what is on the wire. `FramingInv`: the stream is
whole lines except for the rest of one at its beginning, which the opening of the port has left, and which
is gone once a first answer was found; so `malformed` stays false. `IdsInv`: no id in the stream or among
the requests is of a session yet to begin, so that whatever has an id of this session was asked in it.
`HistoryInv`: there is a function `h` from the revisions to lists of patches, with the present list at the
present revision; every page of this session in the stream is a part of the list `h` gives for the revision
it names (`PageTold`), a list there was since the session began, and what was read so far is the beginning
of the list for the revision of the first page (`ReadOf`). The revision is compared with that of the first page for each page (`Page`, whose
mutant `PageCounted` compares the totals only), and `PageOfIs` says that a page continues the beginning it
follows. `StreamStep` is the one lemma about the stream that every action goes through: each piece of the
stream was there before, or is of the answer or the event that was just sent.

`SnapshotTypeCorrect` needs, of its types, one that is not a type: the Captain has at most one request to
answer for each snapshot. `Outstanding` says why: what a session has asked is once among the requests, or
once in the stream, or nowhere, and nowhere while the session waits for nothing. `BoundsInv` carries the
rest, with what the answers in the stream say of the list of profiles (`ListTold`).

`ServicesTypeCorrect` is `TypeOK` of the composition, from the invariants above and from two more.
`KioskInv` of `HdmiRecovery`: from the query to its end an attempt is due and not counted (`ScheduleInv`),
else counting it could pass `MAX_ATTEMPTS`. `WiringInv` of `MidiConnect`: a device that has ports has a
number (`NumbersInv`), so that only numbers of devices are wired; and `FreeIs`, that the kernel always finds
a free number, because a device that is away leaves one (`FS_Surjection`), of which there is a least one
(`LeastIs`, from the well-foundedness of the naturals). The constant `Others` is therefore assumed finite.

## 11. Findings

1. `hub_reads_stalled`, `TrackedUntilAnswered`: `_dispatch_status` clears `_upstream_reads` when the
   `down` is *run*; reads sent in the next session, up before the loop got to it, are forgotten, although
   `hub.py:57-59` says they are followed until answered.
2. `hub_reads_saved`, `CacheCurrent`: a save changes what the profile's own name reads and is no mutation
   to the hub, so the hub serves the file from before the save.
3. `update_check`, `CheckPossible`: a hub that dies before the installer has recorded the source version
   leaves a job that requires recovery, for which the check that `docs/firmware-updates.md:153-154` names
   is refused for good.
4. `switch_limits`, `GesturesAnswered`: a hold that is let go in the poll that reaches its limit fires
   neither `press` nor `long_press`, and a press seen by the first poll after a double-tap window loses the
   tap before it (`switch_fsm.c:42-54`), although `editor/src/lib/help-text.ts:11-14` promises a trigger for
   each.
5. `upstream_link_cut`, `EveryLineWhole`: the handshake drops what it read behind the sentinel's ACK
   (`link.py:632`), and if that is the first half of a line, the session hands the other half on as a
   line, although `link.py:28-29` speaks of complete lines. `OnlyFirstCut` shows that it is only ever the
   first; the hub drops what it cannot parse, and the next status or context makes up for it.

Observations without a run:

* the two statuses that replace the backlog of a Stage client are always `down` and `up`
  (`hub.py:114-115`). A client whose queue overflows with the errors of its own requests while the link is
  down is left to take it for up until the link changes again;
* a rollback may write the flash under a journal that says it is untouched, and a COMMIT whose save raises may
  leave a job active without a task (section 3);
* a USB session that begins in the middle of a tick is sent the rest of an answer to the one before
  (`application.c:329`), against `cdc_session.c:67-69`; `SessionsApart` names this exception (`amid`, section 6).

## 12. What is only model-checked, and what is not modelled

Liveness (`EveryWaiterAnswered`, `TaskEnds`, `EveryRequestAnswered`, `MaintenanceDrains`, `StopEnds`,
`AcceptedSettled`, `ShutdownEnds`, `PanelSettled`, `MidiWired`) is out of the prover's reach, and so is any
use of ENABLED. Every safety property and every refinement that a passing run checks of `HubReads`,
`UpdateService`, `HubRequests`, `UpstreamLink`, `ConfigStore`, `SwitchFSM`, `CdcSession`, `UiEvents` and the
five modules of `MCPiServices` is also proved, each in the proof module of its section.

Not modelled of the hub: the refusal of a full queue by the link and a line of 1 MiB, the files served over
HTTP, and the validation of a package, a pure check that appears as a step that succeeds or fails. Of the
Pi: a second panel, and a connection that outlives the device whose ALSA number another has taken. Not
modelled at all: the firmware beyond its patches, switches, USB sessions and events, the desktop and Android transports, and
the editor's client. The components and reasons are in `PROJECT.json`; those that carry logic are planned:

## 13. Plan

In order of what would hurt most when wrong:

1. `ActionQueue`: the runtime's queue and the two MIDI queues, all or nothing, as a further subject of the
   `firmware` run.
2. `UsbUpdate`: the desktop's transaction, against `SafeUpdate`.

