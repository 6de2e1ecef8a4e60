--------------------------- MODULE CameraSettings ---------------------------
(***************************************************************************)
(* The camera settings of engine/camera.py and engine/camera_settings.py:  *)
(* the settings object in memory, what of it the camera and the photo      *)
(* filter have been told, the debounced save, and the file a power cut     *)
(* leaves.  Requests run concurrently in the engine's thread pool and the  *)
(* save timer in a thread of its own.                                      *)
(*                                                                         *)
(* A settings object has two fields: "control" stands for every libcamera  *)
(* control, "look" for the filter.  Objects have an identity, because      *)
(* reset_settings replaces the object while a timer still holds the old.   *)
(* A write of the file takes less than the debounce second, so a timer     *)
(* does not fire while a write begun before it was started is under way.   *)
(***************************************************************************)
EXTENDS Integers

CONSTANTS
  Requests,     \* request threads that change the settings
  Values,       \* values a field can take
  Default,      \* the value of both fields in CameraSettings()
  MaxUpdates,   \* bound on update_settings calls
  MaxResets,    \* bound on reset_settings calls of one process
  MaxStops,     \* bound on clean stops and power cuts
  Timer,        \* the save timer's thread
  None

Fields == {"control", "look"}
Settings == [Fields -> Values]

ASSUME CameraSettingsAssumption ==
  /\ Default \in Values /\ None \notin Settings /\ None \notin Nat
  /\ MaxUpdates \in Nat /\ MaxResets \in Nat /\ MaxStops \in Nat
  /\ Timer \notin Requests /\ None \notin Requests

VARIABLES
  heap,     \* settings objects: the first and one per reset
  cur,      \* _settings
  control,  \* the control the camera was last given
  look,     \* composer._FILTER_STATE
  disk,     \* camera-settings.json
  timer,    \* the object the running timer will save, or None
  awaits,   \* writes that were under way when the timer was started
  writing,  \* per thread: the contents it is writing, or None
  pc, patch, target,  \* per request: its place, its patch, reset's object
  seen,     \* per request: the look _configure_filter has read
  crossed,  \* history: the last look was read while another was being stored
  raced,    \* history: a reset met a save that was pending or under way
  failed,   \* history: a write failed and nothing was saved since
  updates, stops

vars == <<heap, cur, control, look, disk, timer, awaits, writing,
          pc, patch, target, seen, crossed, raced, failed, updates, stops>>

Objects == 0..MaxResets
Patches == Fields \X Values
Writers == Requests \cup {Timer}
Defaults == [f \in Fields |-> Default]

(* Writes of the file under way. *)
UnderWay == {w \in Writers : writing[w] # None}

(* A request has read the look and not yet told the filter. *)
Storing(r) == pc[r] \in {"store", "restore"}

TypeOK ==
  /\ heap \in [Objects -> Settings] /\ cur \in Objects
  /\ control \in Values /\ look \in Values
  /\ disk \in Settings
  /\ timer \in Objects \cup {None}
  /\ awaits \in SUBSET Writers /\ writing \in [Writers -> Settings \cup {None}]
  /\ pc \in [Requests -> {"idle", "apply", "store", "schedule", "configure",
                          "restore", "push", "save", "write"}]
  /\ patch \in [Requests -> Patches] /\ target \in [Requests -> Objects]
  /\ seen \in [Requests -> Values]
  /\ crossed \in BOOLEAN /\ raced \in BOOLEAN /\ failed \in BOOLEAN
  /\ updates \in 0..MaxUpdates /\ stops \in 0..MaxStops

(* CameraService.__init__ loads the file and applies it in full. *)
Boot(saved) ==
  /\ heap' = [o \in Objects |-> saved] /\ cur' = 0
  /\ control' = saved["control"] /\ look' = saved["look"]
  /\ disk' = saved
  /\ timer' = None /\ awaits' = {}
  /\ writing' = [w \in Writers |-> None]
  /\ pc' = [r \in Requests |-> "idle"]
  /\ patch' = [r \in Requests |-> <<"look", Default>>]
  /\ target' = [r \in Requests |-> 0]
  /\ seen' = [r \in Requests |-> Default]
  /\ crossed' = FALSE /\ raced' = FALSE /\ failed' = FALSE

Init ==
  /\ disk = Defaults
  /\ heap = [o \in Objects |-> disk] /\ cur = 0
  /\ control = disk["control"] /\ look = disk["look"]
  /\ timer = None /\ awaits = {}
  /\ writing = [w \in Writers |-> None]
  /\ pc = [r \in Requests |-> "idle"]
  /\ patch = [r \in Requests |-> <<"look", Default>>]
  /\ target = [r \in Requests |-> 0]
  /\ seen = [r \in Requests |-> Default]
  /\ crossed = FALSE /\ raced = FALSE /\ failed = FALSE
  /\ updates = 0 /\ stops = 0
-----------------------------------------------------------------------------
(* _configure_filter: the look _settings has now is read, without a lock. *)
ReadsLook(r) ==
  /\ seen' = [seen EXCEPT ![r] = heap[cur]["look"]]
  /\ crossed' = \E q \in Requests \ {r} : Storing(q)

(* composer.configure_filter: the look that was read is stored. *)
StoresLook(r) ==
  /\ look' = seen[r]
  /\ seen' = [seen EXCEPT ![r] = Default]
-----------------------------------------------------------------------------
(* Mutated forms, used only to show that the properties can fail. *)

(* The patch is applied, not the settings it was merged into. *)
UpdateApplyPatch(r) ==
  /\ pc[r] = "apply"
  /\ \/ /\ patch[r][1] = "look"
        /\ ReadsLook(r)
        /\ pc' = [pc EXCEPT ![r] = "store"]
        /\ UNCHANGED control
     \/ /\ patch[r][1] = "control"
        /\ control' = patch[r][2]
        /\ pc' = [pc EXCEPT ![r] = "schedule"]
        /\ UNCHANGED <<seen, crossed>>
  /\ UNCHANGED <<heap, cur, look, disk, timer, awaits, writing, patch, target,
                 raced, failed, updates, stops>>

(* A running timer is left alone, although it may hold the old object. *)
UpdateScheduleOnce(r) ==
  /\ pc[r] = "schedule"
  /\ timer' = IF timer = None THEN cur ELSE timer
  /\ awaits' = IF timer = None THEN UnderWay ELSE awaits
  /\ raced' = FALSE /\ failed' = FALSE
  /\ pc' = [pc EXCEPT ![r] = "idle"]
  /\ UNCHANGED <<heap, cur, control, look, disk, writing, patch, target,
                 seen, crossed, updates, stops>>
-----------------------------------------------------------------------------
(* update_settings: the patch is merged into the object _settings names.  A *)
(* value merge refuses (wrong type, unknown look) leaves the field as it is, *)
(* like a patch with the present value.                                      *)
UpdateMerge(r) ==
  /\ pc[r] = "idle" /\ updates < MaxUpdates
  /\ \E f \in Fields, v \in Values :
       /\ heap' = [heap EXCEPT ![cur][f] = v]
       /\ patch' = [patch EXCEPT ![r] = <<f, v>>]
  /\ pc' = [pc EXCEPT ![r] = "apply"]
  /\ updates' = updates + 1
  /\ UNCHANGED <<cur, control, look, disk, timer, awaits, writing, target,
                 seen, crossed, raced, failed, stops>>

(* update_settings applies only what changed, as _settings has it by now: the *)
(* filter, whose look is read first, or under the camera's lock the control.  *)
UpdateApply(r) ==
  /\ pc[r] = "apply"
  /\ \/ /\ patch[r][1] = "look"
        /\ ReadsLook(r)
        /\ pc' = [pc EXCEPT ![r] = "store"]
        /\ UNCHANGED control
     \/ /\ patch[r][1] = "control"
        /\ control' = heap[cur]["control"]
        /\ pc' = [pc EXCEPT ![r] = "schedule"]
        /\ UNCHANGED <<seen, crossed>>
  /\ UNCHANGED <<heap, cur, look, disk, timer, awaits, writing, patch, target,
                 raced, failed, updates, stops>>

(* update_settings: the filter gets the look that was read, however old. *)
UpdateStore(r) ==
  /\ pc[r] = "store"
  /\ StoresLook(r)
  /\ pc' = [pc EXCEPT ![r] = "schedule"]
  /\ UNCHANGED <<heap, cur, control, disk, timer, awaits, writing, patch, target,
                 crossed, raced, failed, updates, stops>>

(* _schedule_save: a running timer is cancelled, and a new one is bound to *)
(* the object of now.                                                      *)
UpdateSchedule(r) ==
  /\ pc[r] = "schedule"
  /\ timer' = cur
  /\ awaits' = UnderWay
  /\ raced' = FALSE /\ failed' = FALSE
  /\ pc' = [pc EXCEPT ![r] = "idle"]
  /\ UNCHANGED <<heap, cur, control, look, disk, writing, patch, target,
                 seen, crossed, updates, stops>>

(* reset_settings: apply_settings makes a fresh object the current one.  The *)
(* operator waits for the answer of one reset before the next.               *)
ResetSwap(r) ==
  /\ pc[r] = "idle" /\ cur < MaxResets
  /\ \A q \in Requests : pc[q] \in {"idle", "apply", "store", "schedule"}
  /\ cur' = cur + 1
  /\ heap' = [heap EXCEPT ![cur + 1] = Defaults]
  /\ target' = [target EXCEPT ![r] = cur + 1]
  /\ raced' = (timer # None \/ UnderWay # {})
  /\ failed' = FALSE
  /\ pc' = [pc EXCEPT ![r] = "configure"]
  /\ UNCHANGED <<control, look, disk, timer, awaits, writing, patch, seen,
                 crossed, updates, stops>>

(* apply_settings: _configure_filter reads _settings again. *)
ResetConfigure(r) ==
  /\ pc[r] = "configure"
  /\ ReadsLook(r)
  /\ pc' = [pc EXCEPT ![r] = "restore"]
  /\ UNCHANGED <<heap, cur, control, look, disk, timer, awaits, writing, patch,
                 target, raced, failed, updates, stops>>

(* apply_settings: the filter gets the look that was read. *)
ResetStore(r) ==
  /\ pc[r] = "restore"
  /\ StoresLook(r)
  /\ pc' = [pc EXCEPT ![r] = "push"]
  /\ UNCHANGED <<heap, cur, control, disk, timer, awaits, writing, patch,
                 target, crossed, raced, failed, updates, stops>>

(* apply_settings: every control of its argument, under the camera's lock. *)
ResetPush(r) ==
  /\ pc[r] = "push"
  /\ control' = heap[target[r]]["control"]
  /\ pc' = [pc EXCEPT ![r] = "save"]
  /\ UNCHANGED <<heap, cur, look, disk, timer, awaits, writing, patch,
                 target, seen, crossed, raced, failed, updates, stops>>

(* reset_settings: save takes the contents of _settings.  The timer stays. *)
ResetSave(r) ==
  /\ pc[r] = "save"
  /\ writing' = [writing EXCEPT ![r] = heap[cur]]
  /\ pc' = [pc EXCEPT ![r] = "write"]
  /\ UNCHANGED <<heap, cur, control, look, disk, timer, awaits, patch, target,
                 seen, crossed, raced, failed, updates, stops>>

(* The debounce second is over: the timer's thread takes the contents of the *)
(* object the timer is bound to.                                             *)
TimerFires ==
  /\ timer # None /\ awaits = {} /\ writing[Timer] = None
  /\ writing' = [writing EXCEPT ![Timer] = heap[timer]]
  /\ timer' = None
  /\ UNCHANGED <<heap, cur, control, look, disk, awaits, pc, patch, target,
                 seen, crossed, raced, failed, updates, stops>>

(* save: a writer is done; the request that saved returns. *)
WriteEnds(w) ==
  /\ writing[w] # None
  /\ writing' = [writing EXCEPT ![w] = None]
  /\ awaits' = awaits \ {w}
  /\ pc' = [r \in Requests |-> IF r = w THEN "idle" ELSE pc[r]]
  /\ UNCHANGED <<heap, cur, control, look, timer, patch, target, seen,
                 crossed, raced, updates, stops>>

(* write_json_atomic: the rename. *)
Write(w) ==
  /\ WriteEnds(w)
  /\ disk' = writing[w]
  /\ UNCHANGED failed

(* save: an OSError is logged and the file stays as it was. *)
WriteFails(w) ==
  /\ WriteEnds(w)
  /\ failed' = (failed \/ timer = None)
  /\ UNCHANGED disk

(* close: no request is left; the timer is cancelled and the settings are  *)
(* saved, but a write the timer began may still end after that one.        *)
CloseAndBoot ==
  /\ stops < MaxStops
  /\ \A r \in Requests : pc[r] = "idle"
  /\ stops' = stops + 1
  /\ \/ Boot(heap[cur])
     \/ \E w \in UnderWay : Boot(writing[w])
  /\ UNCHANGED updates

(* A power cut, or a camera failure that exits the process. *)
PowerCut ==
  /\ stops < MaxStops
  /\ stops' = stops + 1
  /\ Boot(disk)
  /\ UNCHANGED updates

Next ==
  \/ \E r \in Requests :
       \/ UpdateMerge(r) \/ UpdateApply(r) \/ UpdateStore(r) \/ UpdateSchedule(r)
       \/ ResetSwap(r) \/ ResetConfigure(r) \/ ResetStore(r) \/ ResetPush(r)
       \/ ResetSave(r)
  \/ TimerFires
  \/ \E w \in Writers : Write(w) \/ WriteFails(w)
  \/ CloseAndBoot \/ PowerCut

Spec == Init /\ [][Next]_vars
-----------------------------------------------------------------------------
NoRequest == \A r \in Requests : pc[r] = "idle"
Quiet == NoRequest /\ timer = None /\ UnderWay = {}

(* Once the requests are answered and the debounce has passed, a power cut *)
(* costs nothing: the file holds what the operator sees, however updates,  *)
(* saves and restarts overlapped.  A write that failed is left out, and a  *)
(* reset that met a save not yet done: the timer of an earlier update is   *)
(* still bound to the old object and writes it over the defaults.          *)
SavedWhenQuiet == Quiet /\ ~failed /\ ~raced => disk = heap[cur]

(* When no request is under way, the camera and the filter have what the    *)
(* settings say, whichever of two overlapping requests applied last: an     *)
(* update applies the settings of the moment, not its own patch.  The       *)
(* filter is read and stored without a lock: a look that was read while     *)
(* another was being stored is left out, until the next look is set alone,  *)
(* for the older of the two may be stored last.                             *)
ControlsFollow ==
  NoRequest => /\ control = heap[cur]["control"]
               /\ look = heap[cur]["look"] \/ crossed
=============================================================================
