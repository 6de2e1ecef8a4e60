---------------------------- MODULE CameraStream ----------------------------
(***************************************************************************)
(* Frames of engine/camera.py: the preview thread, the viewers of the      *)
(* MJPEG stream, the settings page that polls for single frames, and the   *)
(* still captures, all competing for the one camera lock; and the restart  *)
(* of the process when the camera stalls.                                  *)
(*                                                                         *)
(* A frame is the look it was graded with.  The camera is the appliance's  *)
(* (mode "picamera").  A change of a libcamera control takes the lock for  *)
(* a moment and is left to CameraSettings; of update_settings only what    *)
(* the cached frame depends on is here.                                    *)
(***************************************************************************)
EXTENDS Integers, FiniteSets

CONSTANTS
  Viewers,      \* connections that may open the stream
  Looks,        \* filters
  SavedLook,    \* the one the settings file names at boot
  ChunkCap,     \* maxsize of a connection's chunk_queue
  MaxFailures,  \* MAX_PREVIEW_FAILURES
  MaxChanges, MaxCaptures, MaxStalls, MaxOpens,  \* bounds on the outside world
  None

Holders == {"preview", "poll", "capture"}   \* of the camera lock

ASSUME CameraStreamAssumption ==
  /\ IsFiniteSet(Viewers)
  /\ SavedLook \in Looks /\ None \notin Looks \cup Holders
  /\ ChunkCap \in Nat \ {0} /\ MaxFailures \in Nat \ {0}
  /\ MaxChanges \in Nat /\ MaxCaptures \in Nat
  /\ MaxStalls \in Nat /\ MaxOpens \in Nat

VARIABLES
  up,         \* the process runs
  stalled,    \* the camera delivers no frames until it is opened anew
  lock,       \* _camera_lock: its holder or None
  look,       \* composer._FILTER_STATE
  latest,     \* _latest_jpeg
  recent,     \* _latest_jpeg_ts is less than 0.25 s old
  ppc, pframe, failures,   \* preview thread, its frame, _preview_failures
  qpc, qframe, shown,      \* poll, its frame, what the settings page shows
  upc,        \* update_settings: between the filter and the frame's drop
  cpc,        \* the capture request
  pending,    \* _capture_pending
  count,      \* _viewers
  vpc,        \* per connection: the producer thread
  open,       \* per connection: the client is there
  fresh,      \* per connection: _frame_seq # last_seq
  chunks,     \* per connection: chunks in chunk_queue
  changes, captures, stalls, opens

thread == <<ppc, pframe, failures>>
poll == <<qpc, qframe, shown>>
capture == <<cpc, pending>>
stream == <<count, vpc, open, fresh, chunks>>
bounds == <<changes, captures, stalls, opens>>
vars == <<up, stalled, lock, look, latest, recent, thread, poll, upc,
          capture, stream, bounds>>

TypeOK ==
  /\ up \in BOOLEAN /\ stalled \in BOOLEAN
  /\ lock \in Holders \cup {None}
  /\ look \in Looks /\ latest \in Looks \cup {None} /\ recent \in BOOLEAN
  /\ ppc \in {"wait", "acquire", "shoot", "store"}
  /\ pframe \in Looks \cup {None} /\ failures \in 0..(MaxFailures - 1)
  /\ qpc \in {"idle", "acquire", "shoot", "store"}
  /\ qframe \in Looks \cup {None} /\ shown \in Looks \cup {None}
  /\ upc \in {"idle", "drop"}
  /\ cpc \in {"idle", "acquire", "shoot"} /\ pending \in BOOLEAN
  /\ count \in 0..Cardinality(Viewers)
  /\ vpc \in [Viewers -> {"off", "wait", "put"}]
  /\ open \in [Viewers -> BOOLEAN] /\ fresh \in [Viewers -> BOOLEAN]
  /\ chunks \in [Viewers -> 0..ChunkCap]
  /\ changes \in 0..MaxChanges /\ captures \in 0..MaxCaptures
  /\ stalls \in 0..MaxStalls /\ opens \in 0..MaxOpens

Init ==
  /\ up = TRUE /\ stalled = FALSE /\ lock = None
  /\ look = SavedLook /\ latest = None /\ recent = FALSE
  /\ ppc = "wait" /\ pframe = None /\ failures = 0
  /\ qpc = "idle" /\ qframe = None /\ shown = None
  /\ upc = "idle" /\ cpc = "idle" /\ pending = FALSE
  /\ count = 0
  /\ vpc = [v \in Viewers |-> "off"] /\ open = [v \in Viewers |-> FALSE]
  /\ fresh = [v \in Viewers |-> FALSE] /\ chunks = [v \in Viewers |-> 0]
  /\ changes = 0 /\ captures = 0 /\ stalls = 0 /\ opens = 0
-----------------------------------------------------------------------------
(* The process exits and the connections with it; RestartEngine follows. *)
ProcessExits ==
  /\ up' = FALSE
  /\ lock' = None /\ latest' = None /\ recent' = FALSE
  /\ ppc' = "wait" /\ pframe' = None /\ failures' = 0
  /\ qpc' = "idle" /\ qframe' = None
  /\ upc' = "idle" /\ cpc' = "idle" /\ pending' = FALSE
  /\ count' = 0
  /\ vpc' = [v \in Viewers |-> "off"] /\ open' = [v \in Viewers |-> FALSE]
  /\ fresh' = [v \in Viewers |-> FALSE] /\ chunks' = [v \in Viewers |-> 0]
  /\ UNCHANGED <<stalled, look, shown, bounds>>

(* systemd starts the engine again and the camera is opened anew. *)
RestartEngine ==
  /\ ~up
  /\ up' = TRUE /\ stalled' = FALSE
  /\ UNCHANGED <<lock, look, latest, recent, thread, poll, upc, capture,
                 stream, bounds>>

(* The camera stops delivering frames. *)
Stall ==
  /\ up /\ ~stalled /\ stalls < MaxStalls
  /\ stalled' = TRUE
  /\ stalls' = stalls + 1
  /\ UNCHANGED <<up, lock, look, latest, recent, thread, poll, upc, capture,
                 stream, changes, captures, opens>>

(* It may come round by itself. *)
Recover ==
  /\ up /\ stalled
  /\ stalled' = FALSE
  /\ UNCHANGED <<up, lock, look, latest, recent, thread, poll, upc, capture,
                 stream, bounds>>

(* A quarter of a second passes. *)
FrameAges ==
  /\ recent
  /\ recent' = FALSE
  /\ UNCHANGED <<up, stalled, lock, look, latest, thread, poll, upc, capture,
                 stream, bounds>>
-----------------------------------------------------------------------------
(* Mutated forms, used only to show that the properties can fail. *)

(* The preview thread does not look at _capture_pending. *)
MayShootAlways == up

(* A cached frame of any age will do. *)
ServableAnyAge == latest # None

(* A failed frame is logged, but the process goes on. *)
PreviewFailsOnly ==
  /\ up /\ ppc = "shoot" /\ stalled
  /\ lock' = None
  /\ ppc' = "wait" /\ failures' = (failures + 1) % MaxFailures
  /\ UNCHANGED <<up, stalled, look, latest, recent, pframe, poll, upc, capture,
                 stream, bounds>>

(* One failure too many is let pass. *)
PreviewFailsOffByOne ==
  /\ up /\ ppc = "shoot" /\ stalled
  /\ \/ failures >= MaxFailures /\ ProcessExits
     \/ /\ failures < MaxFailures
        /\ failures' = failures + 1
        /\ lock' = None /\ ppc' = "wait"
        /\ UNCHANGED <<up, stalled, look, latest, recent, pframe, poll, upc,
                       capture, stream, bounds>>

(* remove_viewer is called on a regular end only, not in a finally clause. *)
PutTimesOutCounted(v) ==
  /\ up /\ vpc[v] = "put" /\ chunks[v] = ChunkCap
  /\ vpc' = [vpc EXCEPT ![v] = "off"]
  /\ UNCHANGED <<up, stalled, lock, look, latest, recent, thread, poll, upc,
                 capture, count, open, fresh, chunks, bounds>>
-----------------------------------------------------------------------------
(* The preview thread leaves a pending capture the camera. *)
MayShoot == up /\ ~pending

(* _preview_loop: someone watches and no capture is pending. *)
PreviewWakes ==
  /\ MayShoot /\ ppc = "wait" /\ count > 0
  /\ ppc' = "acquire"
  /\ UNCHANGED <<up, stalled, lock, look, latest, recent, pframe, failures,
                 poll, upc, capture, stream, bounds>>

(* _preview_loop, with the lock: a capture that came meanwhile goes first. *)
PreviewLocks ==
  /\ up /\ ppc = "acquire" /\ lock = None
  /\ IF MayShoot
     THEN lock' = "preview" /\ ppc' = "shoot"
     ELSE ppc' = "wait" /\ UNCHANGED lock
  /\ UNCHANGED <<up, stalled, look, latest, recent, pframe, failures, poll,
                 upc, capture, stream, bounds>>

(* The frame is taken, graded and the lock released. *)
PreviewShoots ==
  /\ up /\ ppc = "shoot" /\ ~stalled
  /\ pframe' = look
  /\ lock' = None /\ ppc' = "store"
  /\ UNCHANGED <<up, stalled, look, latest, recent, failures, poll, upc,
                 capture, stream, bounds>>

(* The frame is stored and every stream told. *)
PreviewStores ==
  /\ up /\ ppc = "store"
  /\ latest' = pframe /\ recent' = TRUE
  /\ fresh' = [v \in Viewers |-> vpc[v] # "off"]
  /\ failures' = 0
  /\ pframe' = None /\ ppc' = "wait"
  /\ UNCHANGED <<up, stalled, lock, look, poll, upc, capture,
                 count, vpc, open, chunks, bounds>>

(* No frame within PREVIEW_FRAME_TIMEOUT_SECONDS: at the last failure in a *)
(* row the process exits.                                                  *)
PreviewFails ==
  /\ up /\ ppc = "shoot" /\ stalled
  /\ \/ /\ failures + 1 >= MaxFailures
        /\ ProcessExits
     \/ /\ failures + 1 < MaxFailures
        /\ failures' = failures + 1
        /\ lock' = None /\ ppc' = "wait"
        /\ UNCHANGED <<up, stalled, look, latest, recent, pframe, poll, upc,
                       capture, stream, bounds>>
-----------------------------------------------------------------------------
(* capture_preview_frame: the cached frame is served while it is recent. *)
Servable == latest # None /\ recent

PollServes ==
  /\ up /\ qpc = "idle" /\ cpc = "idle"
  /\ Servable
  /\ shown' = latest
  /\ UNCHANGED <<up, stalled, lock, look, latest, recent, thread, qpc, qframe,
                 upc, capture, stream, bounds>>

(* Otherwise the poll takes a frame of its own.  The settings page and a   *)
(* capture do not come together: the kiosk shows one screen at a time.     *)
PollStarts ==
  /\ up /\ qpc = "idle" /\ cpc = "idle"
  /\ ~Servable
  /\ qpc' = "acquire"
  /\ UNCHANGED <<up, stalled, lock, look, latest, recent, thread, qframe,
                 shown, upc, capture, stream, bounds>>

PollLocks ==
  /\ up /\ qpc = "acquire" /\ lock = None
  /\ lock' = "poll" /\ qpc' = "shoot"
  /\ UNCHANGED <<up, stalled, look, latest, recent, thread, qframe, shown, upc,
                 capture, stream, bounds>>

PollShoots ==
  /\ up /\ qpc = "shoot" /\ ~stalled
  /\ qframe' = look
  /\ lock' = None /\ qpc' = "store"
  /\ UNCHANGED <<up, stalled, look, latest, recent, thread, shown, upc,
                 capture, stream, bounds>>

PollStores ==
  /\ up /\ qpc = "store"
  /\ latest' = qframe /\ recent' = TRUE
  /\ shown' = qframe
  /\ qframe' = None /\ qpc' = "idle"
  /\ UNCHANGED <<up, stalled, lock, look, thread, upc, capture, stream, bounds>>

(* camera_frame answers 503; nothing counts the failure. *)
PollFails ==
  /\ up /\ qpc = "shoot" /\ stalled
  /\ lock' = None /\ qpc' = "idle"
  /\ UNCHANGED <<up, stalled, look, latest, recent, thread, qframe, shown, upc,
                 capture, stream, bounds>>
-----------------------------------------------------------------------------
(* update_settings: the filter first, then the cached frame is dropped. *)
ChangeLook ==
  /\ up /\ upc = "idle" /\ changes < MaxChanges
  /\ \E l \in Looks \ {look} : look' = l
  /\ upc' = "drop" /\ changes' = changes + 1
  /\ UNCHANGED <<up, stalled, lock, latest, recent, thread, poll, capture,
                 stream, captures, stalls, opens>>

DropFrame ==
  /\ up /\ upc = "drop"
  /\ latest' = None
  /\ upc' = "idle"
  /\ UNCHANGED <<up, stalled, lock, look, recent, thread, poll, capture, stream,
                 bounds>>
-----------------------------------------------------------------------------
(* capture_to_file asks for the camera. *)
CaptureStarts ==
  /\ up /\ cpc = "idle" /\ captures < MaxCaptures
  /\ pending' = TRUE
  /\ cpc' = "acquire" /\ captures' = captures + 1
  /\ UNCHANGED <<up, stalled, lock, look, latest, recent, thread, poll, upc,
                 stream, changes, stalls, opens>>

CaptureLocks ==
  /\ up /\ cpc = "acquire" /\ lock = None
  /\ lock' = "capture" /\ cpc' = "shoot"
  /\ UNCHANGED <<up, stalled, look, latest, recent, thread, poll, upc, pending,
                 stream, bounds>>

(* The photo is taken; the lock is released and the flag cleared. *)
CaptureShoots ==
  /\ up /\ cpc = "shoot" /\ ~stalled
  /\ lock' = None /\ cpc' = "idle" /\ pending' = FALSE
  /\ UNCHANGED <<up, stalled, look, latest, recent, thread, poll, upc, stream,
                 bounds>>

(* A failing still ends the process at once. *)
CaptureFails ==
  /\ up /\ cpc = "shoot" /\ stalled
  /\ ProcessExits
-----------------------------------------------------------------------------
(* camera_preview: the viewer is counted, then its producer starts. *)
StreamOpens(v) ==
  /\ up /\ vpc[v] = "off" /\ ~open[v] /\ opens < MaxOpens
  /\ count' = count + 1
  /\ open' = [open EXCEPT ![v] = TRUE]
  /\ vpc' = [vpc EXCEPT ![v] = "wait"]
  /\ fresh' = [fresh EXCEPT ![v] = TRUE]
  /\ chunks' = [chunks EXCEPT ![v] = 0]
  /\ opens' = opens + 1
  /\ UNCHANGED <<up, stalled, lock, look, latest, recent, thread, poll, upc,
                 capture, changes, captures, stalls>>

(* The client reads a chunk; or it goes away, or has read the end of a     *)
(* stream whose producer gave up, which sets stop.                         *)
ClientReads(v) ==
  /\ up /\ open[v] /\ chunks[v] > 0
  /\ chunks' = [chunks EXCEPT ![v] = @ - 1]
  /\ UNCHANGED <<up, stalled, lock, look, latest, recent, thread, poll, upc,
                 capture, count, vpc, open, fresh, bounds>>

ClientLeaves(v) ==
  /\ up /\ open[v]
  /\ open' = [open EXCEPT ![v] = FALSE]
  /\ UNCHANGED <<up, stalled, lock, look, latest, recent, thread, poll, upc,
                 capture, count, vpc, fresh, chunks, bounds>>

(* mjpeg_stream wakes for a new frame; one dropped meanwhile is skipped. *)
ProducerTakes(v) ==
  /\ up /\ vpc[v] = "wait" /\ open[v] /\ fresh[v]
  /\ fresh' = [fresh EXCEPT ![v] = FALSE]
  /\ vpc' = [vpc EXCEPT ![v] = IF latest = None THEN "wait" ELSE "put"]
  /\ UNCHANGED <<up, stalled, lock, look, latest, recent, thread, poll, upc,
                 capture, count, open, chunks, bounds>>

(* The producer's put ends in the event loop, whether or not anyone reads. *)
ProducerPuts(v) ==
  /\ up /\ vpc[v] = "put" /\ chunks[v] < ChunkCap
  /\ chunks' = [chunks EXCEPT ![v] = @ + 1]
  /\ vpc' = [vpc EXCEPT ![v] = "wait"]
  /\ UNCHANGED <<up, stalled, lock, look, latest, recent, thread, poll, upc,
                 capture, count, open, fresh, bounds>>

(* producer's finally clause: remove_viewer. *)
ProducerEnds(v) ==
  /\ vpc' = [vpc EXCEPT ![v] = "off"]
  /\ count' = IF count > 0 THEN count - 1 ELSE 0
  /\ UNCHANGED <<up, stalled, lock, look, latest, recent, thread, poll, upc,
                 capture, open, fresh, chunks, bounds>>

(* The queue stayed full for ten seconds. *)
PutTimesOut(v) ==
  /\ up /\ vpc[v] = "put" /\ chunks[v] = ChunkCap
  /\ ProducerEnds(v)

(* The producer sees stop. *)
ProducerStops(v) ==
  /\ up /\ vpc[v] = "wait" /\ ~open[v]
  /\ ProducerEnds(v)
-----------------------------------------------------------------------------
PreviewStep ==
  PreviewWakes \/ PreviewShoots \/ PreviewFails \/ PreviewStores
PollStep ==
  PollServes \/ PollStarts \/ PollShoots \/ PollFails \/ PollStores
ProducerStep(v) ==
  ProducerTakes(v) \/ ProducerPuts(v) \/ PutTimesOut(v) \/ ProducerStops(v)

Next ==
  \/ RestartEngine \/ Stall \/ Recover \/ FrameAges
  \/ PreviewStep \/ PreviewLocks
  \/ PollStep \/ PollLocks
  \/ ChangeLook \/ DropFrame
  \/ CaptureStarts \/ CaptureLocks \/ CaptureShoots \/ CaptureFails
  \/ \E v \in Viewers : \/ StreamOpens(v) \/ ClientReads(v) \/ ClientLeaves(v)
                        \/ ProducerStep(v)

(* The threads run, time passes, systemd restarts, the settings page polls. *)
(* A thread that finds the lock free again and again gets it: preview and   *)
(* poll pause between frames.  The capture is granted less, the lock when   *)
(* it stays free, because _capture_pending is there to keep it free.        *)
Fairness ==
  /\ WF_vars(RestartEngine) /\ WF_vars(FrameAges)
  /\ WF_vars(PreviewStep) /\ SF_vars(PreviewLocks)
  /\ WF_vars(PollStep) /\ SF_vars(PollLocks)
  /\ WF_vars(DropFrame)
  /\ WF_vars(CaptureLocks) /\ WF_vars(CaptureShoots \/ CaptureFails)
  /\ \A v \in Viewers : WF_vars(ProducerStep(v))

Spec == Init /\ [][Next]_vars
FairSpec == Spec /\ Fairness
-----------------------------------------------------------------------------
(* Every connection whose producer runs is counted, once, and no other: a  *)
(* producer that ends on a full queue, for a client that left or with the  *)
(* process takes its count along, or the camera would be "producing frames *)
(* for nobody" (routes.py:933), or stop under somebody's eyes.             *)
ViewersCounted == count = Cardinality({v \in Viewers : vpc[v] # "off"})

(* A guest's photo is not kept waiting by the preview, although nothing    *)
(* orders the threads that want the lock: the flag makes the preview stand *)
(* back.                                                                   *)
CaptureGetsCamera == cpc = "acquire" ~> cpc # "acquire"

(* When no client is connected the preview comes to rest (the fanless Pi   *)
(* "stays cool between parties", camera.py:484), even if a client vanished *)
(* while its producer was blocked on a full queue.                         *)
UnwatchedRests ==
  (\A v \in Viewers : ~open[v]) ~> (count = 0 \/ \E v \in Viewers : open[v])

(* A stalled camera someone watches does not stay stalled: the preview     *)
(* thread counts failures in a row and has the process restarted, whatever *)
(* captures and polls do in between.                                       *)
StallRestarts == (stalled /\ count > 0) ~> (~stalled \/ count = 0)

(* The settings page comes to show the look that was chosen.  A frame taken *)
(* under the old look may still be stored after DropFrame, by the preview   *)
(* thread or by another poll; it must age out.                              *)
LookShows == <>[](stalled \/ shown = look)
=============================================================================
