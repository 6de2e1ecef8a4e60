# Piccie: a TLA+ model of the photo booth engine

Piccie is a photo booth appliance: a Raspberry Pi with a camera and a touch
screen runs a FastAPI engine (`engine/`) and a Chromium kiosk (`web/`). A guest
takes three photos, the engine composes a strip, uploads it to a private
Cloudflare R2 bucket and shows a QR code with a signed link. An operator
creates events, clears their photos and deletes them. The booth is switched off
by pulling its plug.

This directory holds TLA+ modules for the parts where threads, requests, the
network and power cuts meet, configurations that check them with TLC, and
proofs checked by TLAPS. `PROJECT.json` maps every definition to source lines
and lists the runs, the hazards and the theorems.

## Inventory

| component | state | operations | what makes it correct |
|---|---|---|---|
| Upload queue (`upload_queue.py`) | bounded `queue.Queue`, in-flight registry, two threads | `enqueue`, `_worker`, `close` | a session is queued or processed at most once; the registry is never stale |
| Guest delivery (`upload_queue.py`, `routes.py`, `r2.py`, `composer.py`) | session rows, `/data` files, bucket objects | finalize, upload with retries, verification, rescan, prune | a composed strip gets delivered; what is shown as delivered is there; no torn strip is published |
| Deletion (`storage.py`, `upload_queue.py`, `r2.py`) | `r2_deletions` tombstones | clear photos, delete event, deletion threads | deletions happen in the end and are final |
| Event gallery (`routes.py`, `r2.py`) | share URL and token of an event, archive and gallery objects | publish, regenerate, disable | no page outlives its event; a regenerated link kills the old one |
| Camera (`camera.py`, `camera_settings.py`) | settings, preview frame, save timer, device lock | preview, capture, apply and reset settings | the last settings applied are those saved; no stale frame after a change |
| Config store (`config.py`) | `config.json`, `local.json` | load-modify-save by many routes | no request undoes another's change |
| Provisioning (`provisioning.py`, `r2_boot_config.py`, lockdown script) | marker files, PIN, boot partition file | first boot, import of R2 keys | a power cut anywhere leaves a state the next boot completes |
| Wi-Fi (`wifi.py`) | NetworkManager profiles | connect and verify | a failing attempt never costs the working profile |
| Templates (`templates.py`, `template_packages.py`) | template directories, archive flags | install, archive, restore, delete | no event refers to a deleted template |
| Composer (`composer.py`) | none | layout and rendering | photos and text stay inside their boxes |
| Atomic files (`atomicio.py`) | files | temp file, fsync, rename | a reader or a power cut sees the old file or the new one |
| Kiosk watchdog (`kiosk_watchdog.py`) | last beat, last restart | beat, check | a dead page is restarted, a live one is not, restarts are spaced |
| Party flow (`web/js/app.js`) | screen state machine | countdown, capture, finalize, result, corner exit | a late answer never moves a screen the operator left |
| Admin screens, studio, keyboard (`web/js/screens`, `studio.js`, `osk.js`) | forms | calls of the API | not modelled: user interface over engine state |
| Appliance scripts (`image/*.sh`) | partition table, release links | grow `/data`, update and roll back | resumable after a power cut; never formats guest data |
| Performance, power, version | none | wrappers over system commands | not modelled: nothing to get wrong between steps |

How they interact: an HTTP request runs in a thread of FastAPI's pool and
shares with the upload thread, the rescan thread and the deletion threads the
SQLite file, the directories under `/data/events`, the in-memory queue and the
bucket. Nothing but `finalize_lock`, the registry's lock and SQLite's own
transactions orders them. After a power cut only SQLite, `/data` and the bucket
remain.

The hard behaviours are: steps of two threads between which a row, a file or a
tombstone changes; calls to R2 that fail after having had an effect; a full
queue; retries that run out; and power cuts between any two of these. They are
listed with their lines under `hazards` in `PROJECT.json`.

## The modules

| module | models | extends / instantiates |
|---|---|---|
| `UploadLedger` | what the queue promises: a session is idle, waiting or processing | - |
| `UploadQueue` | `upload_queue.py`, the in-memory half | refines `UploadLedger` |
| `GuestDelivery` | delivery and deletion end to end | instantiates `UploadQueue` for the queue |
| `CameraSettings` | settings in memory, in the camera and on disk; the debounced save | - |
| `CameraStream` | preview, stream viewers, settings poll and still capture around the camera lock | - |
| `EventGallery` | the private gallery of an event: link, pages, archive, count of strips | - |
| `ConfigStore` | `config.json` under overlapping requests and the status poll | - |
| `Templates` | custom templates against the events that use them | - |
| `WifiProfiles` | the move to another venue's Wi-Fi | - |
| `FirstBoot` | from the written card to the locked booth | - |
| `KioskWatchdog` | heartbeats and restarts of the kiosk page | - |
| `GrowData` | growing `/data` over the first boots, and the gate before the engine | - |
| `AppReleases` | factory seed, update, health check, rollback, pruning | - |
| `MCUploadQueue`, `MCGuestDelivery`, `MCCameraSettings`, `MCCameraStream`, `MCEventGallery`, `MCFirstBoot` | instances for TLC | the module each is named after |
| `MCBooth` | one instance of the eight modules from `EventGallery` on | extends all eight |
| `UploadQueue_proofs`, `GuestDelivery_proofs`, `CameraSettings_proofs`, `CameraStream_proofs`, `EventGallery_proofs`, `FirstBoot_proofs`, `ConfigStore_proofs` | theorems and proofs | the module each is named after; the second also instantiates the first |
| `Booth_proofs` | theorems about templates, Wi-Fi, watchdog, growth and releases, and about `MCBooth` | extends `MCBooth` and the three proof modules before it |

### UploadQueue

`enqueue` registers a session under the lock and puts the job after releasing
it, so it is two actions: `Mark` (or `Duplicate`, the early return), then `Put`
or `PutFull` (the `queue.Full` branch, which unregisters). `Get`, `Exit` and
`Finish` are the loop of `_worker`, `Die` the exception its `except` handler may
raise itself: the `finally` clause still runs, then the thread ends; `Close` sets the stop event and puts the
sentinel if there is room; `Restart` is the end of the process. A job is its
session: the other fields of `UploadJob` are functions of it.

### GuestDelivery

Each variable is something another thread or a power cut can observe.

| variable | code |
|---|---|
| `events`, `row`, `tombs` | tables `events`, `sessions` (column `upload_status`), `r2_deletions` |
| `dir`, `meta` | a session's directory: absent, photos only, intact or torn strip; whether `meta.json` names `r2_target` |
| `cloud` | the strip object under `events/<e>/sessions/<s>/` |
| `queue`, `inflight`, `putting`, `worker`, `stopping` | the `UploadQueue` |
| `wpc`, `attempt` | where the upload thread is in `_process`, and which attempt it is |
| `fpc`, `fjob` | the finalize request (`finalize_lock` admits one) |
| `rpc`, `rtodo` | the rescan thread and its snapshot of the rows |
| `spc`, `stodo`, `starget` | each thread inside `retry_pending_deletions`, its snapshot, the target at hand |
| `opc`, `oevent`, `okind`, `otargets` | each clear-photos or delete-event request |
| `cleared` | history: events ever cleared |

One action per access to shared state. Two neighbouring accesses are one action
where the second commutes with every other thread: reading the strip, setting
`uploading` and writing `meta.json` (`WorkerInspect`); writing the row and
`meta.json` after verification (`WorkerCommit`); the listing of a prefix and
the deletion of what it listed. `clear_event_photos` and `delete_event` are two
actions up to the transaction, `OpRead` and `OpCommit`: Python's `sqlite3` opens
a transaction at the first write, so the `SELECT`s and the reading of each
`meta.json` come before it. For the same reason a session starts in two
actions, the look-up of its event and the insert: a deletion may come between.

Abstractions:

- An upload target is a pair; `Covers` says which strips lie under its prefix.
- "R2 is not configured", "unreachable" and "the call failed" are one kind of
  fault; a failing call may or may not have had its effect. SQLite and file
  writes fail in the same way, in the upload thread (`WorkerCallFails`), in a
  sweep, the rescan or a request (`SweepCompleteFails`, `RescanFails`, `OpFails`).
- The upload thread records a failed attempt with two writes of its own: that of
  `_process_with_retry` (`AttemptFails`; if it raises, `AttemptUnrecorded`, the
  attempts are over) and that of `_worker` (`WorkerRecords`; if it raises,
  `WorkerDies`, the only upload thread is gone until the next start).
- The age `prune_abandoned_sessions` looks at is a free choice, except that the
  session being finalized is not a day old.
- A clean stop is treated like a power cut: requests and threads end where they
  are. `Crash` includes the boot: the orphan sweep runs before any request. The
  boot's own call of `resume_pending` is the first pass of the rescan.
- Targets of kind `event-share` are never recorded by the present code and are
  left out. The order in which tombstones are tried is left open.
- `photo_count`, the event gallery, manifests, share tokens, URLs, error texts
  and the cloud health flag are not modelled here.

### CameraSettings

`heap` holds the settings objects and `cur` is the one `_settings` names:
identity matters, because `reset_settings` replaces the object and the timer
keeps the method of the old one. `control` and `look` are what the camera and
`composer._FILTER_STATE` were last told, `disk` is `camera-settings.json`,
`timer` the object the debounce timer will save, `writing` the contents a thread
is about to rename into place. `update_settings` is `UpdateMerge`, `UpdateApply`,
`UpdateStore`, `UpdateSchedule`; `reset_settings` is `ResetSwap`,
`ResetConfigure`, `ResetStore`, `ResetPush`, `ResetSave` and the write.
`_configure_filter` takes no lock, so reading the look (into `seen`) and storing
it are two actions; the control is read and pushed under the camera's lock in
one. `raced` and `failed` are history: they mark the two ways a save can be lost.
So is `crossed`: the last look was read while another was being stored. It covers
the two assignments of `configure_filter` (name, strength), which the model makes
in one step: to mix them, two stores must overlap. A clean stop (`CloseAndBoot`)
saves what is in memory, and a write the timer had begun may still end after it.

Assumed of the surroundings: a write takes less than the debounce second (so
`TimerFires` waits for the writes in `awaits`), and the operator waits for the
answer of one reset before the next. Without the second, a reset that waits for
the camera lock may push its own object after a later reset and leave the
camera with a value the settings no longer have.

### CameraStream

`lock` is `_camera_lock`; `ppc`, `qpc`, `cpc`, `upc` and `vpc` are where the
preview thread, the poll of the settings page, the capture, the settings update
and each stream's producer thread are. A frame is the look it was graded with,
so that a frame taken before a change and stored after it can be told from a
new one. `recent` is the 0.25 s age test. A stalled camera makes every call time
out until the process is started again or it recovers by itself; `ProcessExits`
is `os._exit`, and systemd (`Restart=always`) does the rest. The stream's
event loop and its bounded `chunk_queue` are `chunks` and `open`.

### EventGallery

A request is a caller that goes from step to step; a step is one access to the
row, a file or the bucket. `PublishBegin` reads the event and its token
(`_publish_event`), `PublishArchive` writes `download-all.zip`, `PublishZip`,
`PublishPage` and `PublishRevoke` are the calls of `R2Uploader.publish_event`,
`PublishRecord` is `set_event_share`. `Disable*`, `Clear*` and `Delete*` are the
other requests, `Finalize*` the part of finalize that counts. The kiosk gives up
on a share request after two minutes (`web/js/api.js:58`), so a second request
of the operator may run beside the first; `overlap` records that one did. The
other history variables mark what a property must leave out: `severed` the
links whose page went although the request that removed it did not finish,
`skewed` a clear, delete or cut between a strip and its count.

### ConfigStore

`ClerkAsks`, `ClerkLoads`, `ClerkSaves` are a request that changes one field:
`wifi_connect`, `set_active_event`, `set_performance`, `set_admin_pin` all load
the whole file, change a field and save the whole file. `Poll*` is `status`,
which clears an active event that has concluded, in a load of its own.
`acknowledged` is what the file would be if the requests had been served one
after the other in the order of their answers, `stale` that a save replaced a
version it was not based on.

### Templates

`folder` is what `/data/templates/<id>` holds. `EventLoads` and `EventWrites` are
`create_event` and `update_event`, `DeleteChecks` and `DeleteRemoves` are
`delete_template`; other requests and a power cut fall in between.
`install_template` writes into a hidden directory, `Hidden`, which is listed and
loaded like any other once `template.json` is in it; nobody waits for the rename.

### WifiProfiles

`stable`, `fresh` and `strays` are NetworkManager's stored profiles by their
name: the stable one, each attempt's own, and those whose attempt ended without
renaming or deleting them. A profile is an SSID and whether its password is
right. `LeavesNetwork` says what NetworkManager does when the profile in use is
deleted. What NetworkManager does by itself is `RadioDrops` and `RadioJoins`.
`joined` is history: the profile of the attempt that was answered with success last.

### FirstBoot

`stage` is what the booth is doing: the import as root before the engine
(`ImportReads` to `ImportUnlinks`), the engine's start with `ConfigStore.ensure`,
running, or the lockdown. `onboard` is how far the onboarding request is: one
step per file `provision_booth` writes. `localFile.owner` is there because the
import runs as root and the engine does not. Keys are values: while the booth is
off the operator may fill the card in, correct it or write other keys
(`FillCard`), also after an import. `wanted` remembers the keys filled in last
while `/data` had none.

### KioskWatchdog

Time passes in units of five seconds. `Check` is `_check` up to the decision,
`RestartKiosk` the `pkill` and the reset of the last beat; beats may come in
between. `Longest` caps the ages, beyond which nothing changes.

### GrowData and AppReleases

`growth` and `installer` are the scripts' positions. `GrowData` keeps the size of
the partition in the table and in the kernel apart from that of the file system;
the checks that the partition is the expected one are one fault (`ValidateFails`).
`/data` may fail to mount or be read-only; `Gate` is the whole line of
`data-fallback.service`: the tmpfs, the write test, the marker `degraded`, and the
refusal after a failed growth unless the booth is degraded. A disk that refuses the
write test but then takes the `.DEGRADED` marker is left out.
`AppReleases` keeps apart what is written and what is on the card
(`onCard`, `unflushed`): a power cut takes back the rest. `exposed` marks the
cuts the scripts have no answer to, those before a release has passed its
check and is on the card. `Prune` keeps any `Kept` releases of the right number: the
script orders by modification time, which the archive of an update sets. `SeedLink`
(`ln` and `mv` of the seed) is one step; the `current.next` that a cut between the
two leaves behind is listed as a hazard.

### MCBooth

The eight modules share no state and each is checked on its own: the variable
`part` is chosen once and names the part that moves. One run so explores the
sum, not the product, of their state spaces. Fairness is stated by each module
for itself (`ConfigFairness`, `BootFairness`, `GrowFairness`); `MCBooth` states
it again, for the chosen part.

## The runs

| run | instance | shows |
|---|---|---|
| `upload_queue` | 3 sessions, 2 enqueuers, 2 slots, fair | `OneHolder`, `InflightExact`; refinement of the ledger; `Drains`: what is registered is released, also after a `close` whose sentinel found no room, unless the upload thread died |
| `delivery` | 2 sessions of one event, 1 request, 1 slot, 2 attempts, 1 fault, 2 finalize taps | `EventDeletionIsFinal`, `UploadedHasTarget`, `TombstonedRowsGone`, `DeliveredUnlessCleared` |
| `strips` | 2 sessions, no request, 3 faults, 1 power cut, fair | `StripsAreDelivered` |
| `recovery` | 1 session, 1 request, 1 fault, 1 power cut, fair | `NeverPublishTorn`, `DeletionsHappen` |
| `uploads_when_cloud_returns` | 1 session, 3 faults, fair | a violation, see below |
| `complete_means_delivered` | as `delivery`, no fault | a violation, see below |
| `erased_means_gone` | as `delivery`, no fault | a violation, see below |
| `camera_settings` | 2 requests at a time, 3 updates, 2 resets, a stop or power cut | `SavedWhenQuiet`, `ControlsFollow` |
| `camera_stream` | every thread, 1 viewer, 1 change, 1 capture, 1 stall, fair | `ViewersCounted`; `CaptureGetsCamera`, `UnwatchedRests`, `StallRestarts`, `LookShows` |
| `booth` | the eight parts, see below, fair | `LinkOpens`, `RevokedLinksDie`, `DeletedEventOffline`, `CountMatches`; `ChangesKept`, `ConcludedExpires`; `EventTemplateThere`; `NeverStranded`, `OneProfile`; `KeysNeverLost`, `ProvisionedIsComplete`, `LocksDown`; `LivePageSpared`, `DeadPageRestarted`; `EngineOnWholeDisk`, `DiskGrows`; `CurrentRuns` |
| `cleared_leaves_no_copy` | 1 strip, 1 caller, nothing fails | a violation, see below |
| `imported_keys_readable` | 1 power cut | a violation, see below |

Why the bounds are enough. Three sessions over two slots give a full queue
with a waiting and a processed session. One slot and two sessions do the same in
`GuestDelivery`, and reach a session that is started after a clear of the same
event. One request may be of either kind and meets the upload, the rescan and
its own deletion thread at every step; `MaxRetries = 2` has a retry that follows
and a last one that does not. One fault falls on any call; three, in
`strips`, are a failing upload and both writes that record it, the least that ends
the upload thread; one power cut falls between any two steps. Two taps finalize both sessions, or one twice. `delivery`
tries the targets of a sweep in the order in which the request recorded them
(`OrderedSpec`), which is what the query of `pending_r2_deletions` returns; every other
run, and every proof, leaves that order open. The
bounds limit only the environment; no thread of the engine is bounded. Requests
that overlap on one event are left to a later instance. For the camera
settings, three updates give one before, one during and one after a reset. In
`camera_stream` every thread repeats without a bound; one change, one capture
and one stall fall at any point of the others, two failures in a row instead of
three restart the process, and one slot makes a chunk queue full.

In `booth`, two callers, clerks, desks or attempts are the least that overlap, and
the most the operator's one screen produces beside a request it gave up on. One
strip and two links let a link be made, renewed, revoked and deleted; with two
strips (4.8 million states) or two mishaps the properties hold as well. Three
changes and two events let an activation come between the poll's look and its
save. Three Wi-Fi attempts over two networks give a joined network, a failing
attempt and a third. Two faults and two cuts let a retry of the boot, the growth
or the update fail again. Two sets of keys are old and new ones. The watchdog has its real times (45, 10 and 60 s), a
live page that pauses up to 40 s, and three crashes, one more than lead to a
restart within the cooldown. Three updates with two kept prune one. `Kept` is 4 in
the code (`tail -n +5`). Nothing happens in some part until the next request, so
deadlock is not checked in this run.

Fairness. The finalize request, the upload thread, the rescan thread, each
deletion thread and each admin request are weakly fair: they are ordinary
threads, every network call has a timeout (`r2.py:43`) and every lock is held
for a bounded time. Weak fairness of the upload thread does not say that it lives:
its own handlers may raise, and a thread that ended takes no step. The three
properties that need it therefore end in `UploadThreadDied` (in `UploadQueue`:
`Died`) as the one way out, and `UploadsWhenCloudReturns` shows that the way is real. Guests, operators, faults and power cuts owe nothing, so
`StripsAreDelivered` relies on faults ceasing, which their bound expresses.

Both liveness properties assume `NoEndlessReupload`. `resume_pending` works from
a snapshot: a session whose upload commits between the snapshot and its
`enqueue` is enqueued again and leaves `complete`. Without the assumption TLC
finds the cycle in which this happens at every rescan: with a full queue the
other strips are never accepted, and the deletions of the event are deferred
each time because an upload of it is in flight. The timing makes an endless
repetition unlikely, so it is an assumption of the properties rather than a
finding; a check of the row inside the upload thread would remove it.

The preview, the poll and the producers are weakly fair, and the preview and
the poll get a lock that is free again and again (strong fairness): both pause
between frames, 100 ms and 160 ms. The capture is granted only weak fairness
for the lock, so that `CaptureGetsCamera` rests on `_capture_pending` and not on
the fairness of the lock. Clients owe nothing: they may stop reading or vanish.

`ConcludedExpires` needs the status poll, which the admin screen repeats every few
seconds while it is open (`web/js/app.js:505`), and served requests. `LocksDown`
needs systemd to go on with a boot, the engine to serve a request it began, and
the operator to switch the booth off after a party: a cut between the marker and
the request for the lockdown is noticed by the next boot only. `DiskGrows` needs
boots that go on and an operator who switches a booth that did not come up off
and on again. Faults and cuts are bounded and therefore cease; no fairness is
given to them.

## Findings

**A late deletion removes delivered strips** (`CompleteMeansDelivered`). Clear-photos
records `event-content:<event>`, which names all strips of the event, future ones
too. If the deletion is postponed (an upload is in flight, R2 is unreachable)
the event is used again meanwhile, and the deletion runs in a moment without
uploads, it takes the new strips with it; their rows stay `complete` and their
QR codes are dead. `DeliveredUnlessCleared` shows that this is the only way.

**A strip finalized during a clear is never deleted** (`ErasedMeansGone`).
`finalize_session` does not look its session up again after composing. If
clear-photos commits in between, there was no `meta.json` to take a target
from; finalize recreates the directory and uploads the strip after the
event-content deletion is done. Deleting the whole event would still remove it.

**Clearing leaves the archive** (`ClearedLeavesNoCopy`). The operator is told that
local copies and cloud uploads will be deleted. `clear_event_photos` removes the
sessions, and the tombstone the archive in the bucket, but `download-all.zip` with
every strip stays in the event's directory until the gallery is published anew or
the event is deleted.

**The upload thread can end for good** (`UploadsWhenCloudReturns`). The handlers of
`_worker` and `_process_with_retry` write to SQLite. If the write of `_worker` raises
(the database is locked for longer than its timeout, `/data` is full), the exception
leaves the loop and the only upload thread ends. The rescan goes on enqueuing what
nobody takes out of the queue; strips wait, and the deletions of their events are
deferred, until the engine is restarted, although the guest was told that the photo
"will upload automatically when cloud access returns" (`web/js/app.js:620`).

**A power cut can make the imported keys unreadable** (`EngineReadsKeys`). The
import replaces `local.json` as root and changes its owner afterwards. Cut in
between, the next import sees complete keys, skips the branch with the `chown`, and
removes the copy on the card. The engine, which runs as `pi`, cannot read the file,
fails to start and is restarted for ever. `KeysNeverLost` holds: the keys are on
`/data`, for root.

What the properties leave out, because the code does it, is worth knowing too:

- A reset within a second of a slider change is undone on the card (`raced`): the
  timer of the change is bound to the old settings object and writes it over the
  defaults. The booth is switched off by pulling its plug, so the next start has the
  old look, although camera_settings.py:29 calls the settings "persisted to /data".
  `SavedWhenQuiet` shows that nothing else, apart from a failing write, separates the
  file from memory.
- The older of two looks can win (`crossed`, of `CameraSettings`): of two overlapping
  updates the one that read the older look may store it last, after which strips are
  printed with a look that neither the settings nor the screen name, until it is
  changed again. `ControlsFollow` shows that this is the only way.
- Keys filled in again are removed unimported (`wanted`). docs/software-setup.md:180-182
  says that the values on the card are moved to the data partition and then removed;
  with complete keys on `/data` they are only removed, and the status file says "R2
  settings imported successfully" (r2_boot_config.py:132-134). A test of the repository
  (tests/test_r2_boot_config.py:83-102) wants the existing keys to stay; `KeysNeverLost`
  says that those do.

Of `booth` furthermore: two renewals of one
link that overlap both keep their page, and a publish that ends after the event's
deletion leaves a page nothing will remove (`~overlap`). Overlapping changes of
`config.json` lose one of them (`stale`). An event saved while its template is being
deleted keeps a template that is gone (`crossed`, of `Templates`). A cut after the switch to a new
release boots it unchecked, although docs/software-setup.md:264 promises that
Piccie "rolls back if its health check fails" (`exposed`).

Two smaller observations are listed as hazards. A frame taken under the old look
may be cached after `update_settings` emptied the cache, so that a change does
not always show "instantly" (camera.py:537); `LookShows` says that it ages out. And
only the preview thread counts failures, so a camera that stalls while nothing
but the settings page polls it is not restarted.

## The proofs

`UploadQueue_proofs` proves for every set of sessions and enqueuers and every
capacity, from `QueueAssumption`: `TypeCorrect`, `NeverHeldTwice`,
`RegistryExact` and `QueueIsLedger`. The inductive invariant is the conjunction
of `TypeOK`, `OneHolder`, `InflightExact` and that the sentinel is in the queue
only once `close` ran. `OneHolder` alone is not inductive: that a session about
to be registered is held nowhere follows only from `InflightExact`.

`GuestDelivery_proofs` proves from `DeliveryAssumption` and `TargetAssumption`:

- `DeliveryTypes`: types. `Shape` adds that the upload thread holds a session
  exactly while it is not idle and has an attempt left while it works.
- `DeliveryHoldsOnce`: every step is a step of `UploadQueue` or leaves it alone
  (lemma `StepIsQueueStep`), so the queue's theorems carry over.
- `DeletionIsFinal`: `EventDeletionIsFinal`. Its invariant `DeletionFacts` says
  where copies of an event's tombstone may be (requests, snapshots, the target at
  hand), that each means the event row is gone, and that a deletion thread past
  the conflict check has the event to itself. The last part is the heart: an
  upload of the event that was admitted earlier is still in flight, which the
  check sees because the registry is exact, a fact taken from the queue's
  proof; and none can be admitted afterwards because the row is gone.
- `TornStaysHome`: `NeverPublishTorn`, from `TornFacts`: while the upload thread
  is about to read a strip it has seen it intact, and only a power cut, which
  ends the upload, can tear it.
- `TombstonesGoWithRows`: `TombstonedRowsGone`, from `RowFacts`: a request that
  has read its targets names only sessions of its event that were started, so
  its transaction erases every row it records a tombstone for.

- `UploadsAreNamed` and `DeliveredIsThere`: `UploadedHasTarget` and
  `DeliveredUnlessCleared`, together, from `KeptInv`. That a delivered strip stays
  needs four facts about the others. Nobody touches a session before its row is
  there (`NewbornUntouched`). A row inserted after its event was deleted is refused
  by the upload thread (`LateRowsRefused`). Every tombstone, snapshot and recorded
  target means that somebody cleared or deleted what it erases (`ErasuresMeant`), and
  so does every request about to remove files (`RemovalsMeant`). `WorkerPromises` adds
  what the upload thread has made sure of at each of its steps: the target is named
  when it uploads, the strip is whole in the bucket when it commits, the row is gone
  when it purges.

`CameraSettings_proofs` proves `SettingsTypes`, `QuietMeansSaved` and
`SettingsAreApplied` for any number of requests, values and bounds. `SaveFacts`
is why the saves arrive in order: unless a reset came between, the timer is
bound to the current object, every write it does not wait for has the contents
of now, and only a running timer waits. `PushFacts` says that whenever the camera
differs from the settings, a request is on its way that will push the settings of the
moment. `LookFacts` says the same of the filter while no looks crossed: then only one request
waits to store a look, and what it read is the look of the settings, or another
request is still to read it.

`FirstBoot_proofs` proves `FirstBootTypes`, `KeysStay` (`KeysNeverLost`) and
`ProvisionedMeansComplete` (`ProvisionedIsComplete`) from `BootAssumption`.
`KeysOnCard` says that the card still has the keys that are wanted until `/data` has
them. `StepsBehind` says which files are there at which step of import and onboarding;
`SavedFirst` that a `config.json` with a network or a PIN was saved, so that no later
engine start makes a new one without them. Without it the second theorem is not
inductive: an engine that found no file would drop the PIN of a provisioned booth.

`ConfigStore_proofs` proves `AcknowledgedIsKept` (`ChangesKept`), for any number of
threads, events and settings. `ChangesKept` is inductive as it stands: a save based
on the present file changes the file as it changes the history, and the poll's save
does if the event it clears is the one it looked at. `ConfigTypes` needs that a
request saves a value of the field it changes.

`EventGallery_proofs` proves the four properties of the gallery for any number of
requests, tokens, strips, failing calls and cuts, from `GalleryFacts`:

- `Tokens`: a token that is not recorded yet is known to its request alone.
- `Deleted`: an event without a row has no link, and nothing is erased as a deleted
  event's that is not one.
- `Opening` (`LinksOpen`): the page of the link is up, or a request took it away and
  failed, or is about to store that. It holds in every overlap because a publish
  puts the new page up before it revokes the old, and nobody but its maker can
  revoke the new one.
- `OneRequest` and `Cleaned` (`LinksDie`, `DeletedGoesOffline`): under `~overlap` a
  request that works on a link works on the event's present one, so what it revokes
  is all that was shown. `Cleaned` must also speak of a deletion that is under way.
- `Counting` (`CountsMatch`): the one request past `finalize_lock` composes a strip
  that is not finished. The count follows by adding one element to a finite set.

`CameraStream_proofs` proves `StreamTypesOK`, `StreamsCounted` (`ViewersCounted`) and
`CameraIsOne`: the lock is held by the thread that takes a frame, so no two are at
the camera. The type of the count, at most the number of clients, is not inductive
without `ViewersCounted`: only that says that a client whose stream opens is not
counted yet.

`Booth_proofs` proves the safety of the other parts of `MCBooth`:

- `ReleaseRuns` (`CurrentRuns`): `Linked` says that a link exists from the seed on,
  cuts or not. Outside the exposed cuts `Seeding` and `Updating` say where a script
  is, which release it would go back to and that this one runs, and what the card
  would name after a cut. Pruning comes after the check has passed, when the present
  release runs, and keeps it.
- `EngineDisk` (`EngineOnWholeDisk`): `Growing` ties the three sizes together at each
  step of the script, and `Grown` says that past it a boot that did not fail has
  them equal; one that failed is refused or knows itself degraded.
- `LivePages`, `DeadPages` (`LivePageSpared`, `DeadPageRestarted`) for all times with a
  pause shorter than the limit. `Watching`: a live page's silence is at most its
  pause, so a look never finds it. `Dying`: a dead page has been silent, and the last
  restart past, for at least as long as it is dead, so the look that finds it comes
  in time.
- `TemplatesThere` (`EventTemplateThere`): `Referring` adds that the template a request
  is about to remove and the hidden directory of an installation are not in use.
- `VenueKept`, `VenueIsOne` (`NeverStranded`, `OneProfile`): `Settling` says that an
  attempt past its activation holds a profile with the right password, and that a
  stored profile with the right password lies where no attempt will delete it.
  `Tidy` is the state of NetworkManager during and between undisturbed attempts: what
  is stored is the profile that was joined last, and that of the attempt under way.
- `BoothTypes` and `BoothSafe`: the composition has `TypesOK` and all fourteen safety
  properties. Each step of `MCBooth` is a step of one part and leaves the other parts
  alone, so each part's invariant carries over.

The assumptions on constants are those the modules declare. Three of them matter
only here: a booth knows at least one network and has one event, the clients of the
stream are finitely many, and the mark for a free lock is not a thread's name. The
proofs need no bound of the runs: sessions, requests, clients, tokens, releases and
the numbers of faults and cuts are arbitrary.

Proved is so every safety invariant that a run checks (and the types of
`CameraSettings`, which TLC need not check again), and the refinement of the ledger. Only model-checked are the
liveness properties, for fairness and `ENABLED` are beyond the prover: `Drains`,
`StripsAreDelivered`, `DeletionsHappen`, `CaptureGetsCamera`, `UnwatchedRests`,
`StallRestarts`, `LookShows`, `ConcludedExpires`, `LocksDown`, `DiskGrows`. The five
violations are TLC's counterexamples.

## Not modelled

- Admin sessions, phone pairing and the PIN's hash: their state is a set of tokens
  in memory that ends with the process.
- The party flow and the admin screens of the kiosk. Their requests are the
  environment of the engine's modules.
- A template's contents, the layout and drawing of strips, fonts, colours, the
  gallery page's HTML, URLs and their expiry after a week. The layout is sequential
  floating-point arithmetic; its last rounding is beyond exact integer operators.
- Migration of the SQLite schema and recovery of a damaged database; the manifest
  objects in the bucket.
- Scanning for networks, the webcam and mock cameras, the macOS branches.
- Degraded mode beyond `GrowData`: import, lockdown and seed refuse to act in it.
- Failing SQLite writes in `EventGallery`: there only the calls to R2 fail. Nor two
  overlapping publish requests that write the same `download-all.zip.new`
  (routes.py:451): the archive is written in one step.
- Image build, deployment and test scripts.

## Plan

Done: every module of the table above, checked, and every safety property of the runs
proved.

Left, in this order:

1. Action properties of the steps that the invariants only imply: a row never goes
   back from `complete` but through the rescan, a tombstone only goes with its prefix
   emptied.
2. The hazards without a property: the rescan's snapshot of rows that upload
   meanwhile (at present an assumption of the liveness properties), the tombstone
   kept by a second clear, the prune after a clock jump.
3. `PartyFlow`: late answers against the corner exit and the reset timers.
4. `GuestDelivery` with two overlapping requests on one event.
