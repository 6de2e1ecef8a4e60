----------------------- MODULE CameraSettings_proofs ------------------------
(***************************************************************************)
(* For every set of requests and values and all bounds: the settings on    *)
(* disk are those in memory once everything is quiet, unless a reset met a *)
(* pending save, camera and filter follow the settings, the filter unless  *)
(* two requests set it at once.                                            *)
(***************************************************************************)
EXTENDS CameraSettings, TLAPS

(* A request has merged its patch and not yet started the timer. *)
Merging == \E r \in Requests : pc[r] \in {"apply", "store", "schedule"}
Resetting == \E r \in Requests :
  pc[r] \in {"configure", "restore", "push", "save"}

(* What makes the saves arrive in order: unless a reset came between, the  *)
(* timer is bound to the current object, a write it does not wait for has  *)
(* the contents of now, and only a timer that runs waits.                  *)
SaveFacts ==
  /\ \A r \in Requests : writing[r] # None => pc[r] = "write"
  /\ timer = None => awaits = {}
  /\ ~raced /\ timer # None => timer = cur
  /\ ~raced /\ ~Merging =>
       \A w \in UnderWay \ awaits : writing[w] = heap[cur]
  /\ /\ ~raced /\ ~failed /\ ~Merging /\ ~Resetting
     /\ timer = None /\ UnderWay = {}
     => disk = heap[cur]

(* A request is about to tell the camera, or to look what to tell the filter. *)
Pushing == \E r \in Requests :
  \/ pc[r] = "apply" /\ patch[r][1] = "control"
  \/ pc[r] \in {"configure", "restore", "push"}
Configuring == \E r \in Requests :
  \/ pc[r] = "apply" /\ patch[r][1] = "look"
  \/ pc[r] = "configure"

(* A request is about to store the look of the settings as they are now. *)
Restoring == \E r \in Requests : Storing(r) /\ seen[r] = heap[cur]["look"]

(* Wherever the camera or the filter differs from the settings a request is *)
(* on its way; unless two looks crossed, only one is about to be stored,    *)
(* so none can undo another.                                                *)
LookFacts ==
  ~crossed => /\ \A q, r \in Requests : Storing(q) /\ Storing(r) => q = r
              /\ look = heap[cur]["look"] \/ Configuring \/ Restoring
              /\ \A r \in Requests :
                   Storing(r) => Configuring \/ seen[r] = heap[cur]["look"]

PushFacts ==
  /\ \A r \in Requests :
       pc[r] \in {"configure", "restore", "push"} => target[r] = cur
  /\ control = heap[cur]["control"] \/ Pushing

(* Whatever file the engine finds, it starts with complete settings. *)
LEMMA InitTypes == Init => TypeOK
<1> SUFFICES ASSUME Init PROVE TypeOK
  OBVIOUS
<1> USE CameraSettingsAssumption
<1>1. Defaults \in Settings /\ 0 \in Objects /\ <<"look", Default>> \in Patches
  BY DEF Defaults, Settings, Fields, Objects, Patches
<1>2. control \in Values /\ look \in Values
  BY <1>1 DEF Init, Settings, Fields
<1>3. heap \in [Objects -> Settings] /\ disk \in Settings
  BY <1>1 DEF Init
<1>4. /\ updates \in 0..MaxUpdates /\ stops \in 0..MaxStops
      /\ patch \in [Requests -> Patches] /\ target \in [Requests -> Objects]
  BY <1>1 DEF Init
<1>5. cur \in Objects /\ awaits \in SUBSET Writers /\ timer = None
  BY <1>1 DEF Init
<1> QED BY <1>2, <1>3, <1>4, <1>5 DEF Init, TypeOK

(* A boot from any saved file keeps the types. *)
LEMMA BootTypes ==
  ASSUME NEW saved \in Settings, Boot(saved),
         updates' \in 0..MaxUpdates, stops' \in 0..MaxStops
  PROVE  TypeOK'
<1> USE CameraSettingsAssumption
<1>1. 0 \in Objects /\ <<"look", Default>> \in Patches
  BY DEF Fields, Objects, Patches
<1>2. control' \in Values /\ look' \in Values
  BY DEF Boot, Settings, Fields
<1> QED BY <1>1, <1>2 DEF Boot, TypeOK

(* Every step of requests, timer, writes and power keeps the types. *)
LEMMA StepTypes == TypeOK /\ [Next]_vars => TypeOK'
<1> SUFFICES ASSUME TypeOK, [Next]_vars PROVE TypeOK'
  OBVIOUS
<1> USE CameraSettingsAssumption
<1>1. ASSUME NEW r \in Requests, UpdateMerge(r) PROVE TypeOK'
  BY <1>1 DEF UpdateMerge, TypeOK, Objects, Settings, Fields, Patches, Writers
<1>2. ASSUME NEW r \in Requests, UpdateApply(r) PROVE TypeOK'
  <2>1. heap[cur]["look"] \in Values /\ heap[cur]["control"] \in Values
    BY DEF TypeOK, Settings, Fields
  <2> QED BY <1>2, <2>1 DEF UpdateApply, ReadsLook, TypeOK
<1>3. ASSUME NEW r \in Requests, UpdateSchedule(r) PROVE TypeOK'
  BY <1>3 DEF UpdateSchedule, TypeOK, UnderWay
<1>4. ASSUME NEW r \in Requests, ResetSwap(r) PROVE TypeOK'
  <2>1. cur + 1 \in Objects /\ Defaults \in Settings
    BY <1>4 DEF ResetSwap, TypeOK, Objects, Settings, Fields, Defaults
  <2> QED BY <1>4, <2>1 DEF ResetSwap, TypeOK
<1>5. ASSUME NEW r \in Requests, ResetConfigure(r) PROVE TypeOK'
  BY <1>5 DEF ResetConfigure, ReadsLook, TypeOK, Settings, Fields
<1>6. ASSUME NEW r \in Requests, ResetPush(r) PROVE TypeOK'
  BY <1>6 DEF ResetPush, TypeOK, Settings, Fields
<1>7. ASSUME NEW r \in Requests, ResetSave(r) PROVE TypeOK'
  BY <1>7 DEF ResetSave, TypeOK, Writers
<1>8. CASE TimerFires
  BY <1>8 DEF TimerFires, TypeOK, Writers
<1>9. ASSUME NEW w \in Writers, Write(w) \/ WriteFails(w) PROVE TypeOK'
  BY <1>9 DEF Write, WriteFails, WriteEnds, TypeOK
<1>10. CASE CloseAndBoot
  <2>1. \A w \in UnderWay : writing[w] \in Settings
    BY DEF TypeOK, UnderWay
  <2>2. heap[cur] \in Settings
    BY DEF TypeOK
  <2>3. updates' \in 0..MaxUpdates /\ stops' \in 0..MaxStops
    BY <1>10 DEF CloseAndBoot, TypeOK
  <2> QED BY <1>10, <2>1, <2>2, <2>3, BootTypes DEF CloseAndBoot
<1>11. CASE PowerCut
  <2>1. updates' \in 0..MaxUpdates /\ stops' \in 0..MaxStops
    BY <1>11 DEF PowerCut, TypeOK
  <2> QED BY <1>11, <2>1, BootTypes DEF PowerCut, TypeOK
<1>12. CASE UNCHANGED vars
  BY <1>12 DEF vars, TypeOK
<1>13. ASSUME NEW r \in Requests, UpdateStore(r) PROVE TypeOK'
  BY <1>13 DEF UpdateStore, StoresLook, TypeOK
<1>14. ASSUME NEW r \in Requests, ResetStore(r) PROVE TypeOK'
  BY <1>14 DEF ResetStore, StoresLook, TypeOK
<1> QED
  BY <1>1, <1>2, <1>3, <1>4, <1>5, <1>6, <1>7, <1>8, <1>9, <1>10, <1>11, <1>12,
     <1>13, <1>14
  DEF Next

(* Every variable keeps to its type; in particular the settings in memory, *)
(* in a write under way and on disk are always complete.                   *)
THEOREM SettingsTypes == Spec => []TypeOK
<1>1. Init => TypeOK
  BY InitTypes
<1>2. TypeOK /\ [Next]_vars => TypeOK'
  BY StepTypes
<1> QED BY <1>1, <1>2, PTL DEF Spec
-----------------------------------------------------------------------------
(* After a boot nothing is pending and the file is what was loaded. *)
LEMMA BootSaves == ASSUME NEW saved \in Settings, Boot(saved), TypeOK
                   PROVE  SaveFacts' /\ PushFacts' /\ LookFacts'
<1> USE CameraSettingsAssumption
<1>1. 0 \in Objects
  BY DEF Objects
<1>2. cur' = 0 /\ heap'[0] = saved /\ disk' = saved
  BY <1>1 DEF Boot
<1>3. timer' = None /\ awaits' = {} /\ UnderWay' = {}
  BY DEF Boot, UnderWay
<1>4. \A r \in Requests : pc'[r] = "idle"
  BY DEF Boot
<1>5. control' = saved["control"] /\ look' = saved["look"]
  BY DEF Boot
<1>6. \A r \in Requests : writing'[r] = None
  BY DEF Boot, Writers
<1>7. SaveFacts'
  BY <1>2, <1>3, <1>6 DEF SaveFacts
<1>8. PushFacts'
  BY <1>2, <1>4, <1>5 DEF PushFacts
<1>9. LookFacts'
  BY <1>2, <1>4, <1>5 DEF LookFacts, Storing
<1> QED BY <1>7, <1>8, <1>9

(* Every step keeps the saves in order: this is the heart of QuietMeansSaved. *)
LEMMA StepSaves == TypeOK /\ SaveFacts /\ [Next]_vars => SaveFacts'
<1> SUFFICES ASSUME TypeOK, SaveFacts, [Next]_vars PROVE SaveFacts'
  OBVIOUS
<1> USE CameraSettingsAssumption
<1>1. ASSUME NEW r \in Requests, UpdateMerge(r) PROVE SaveFacts'
  <2>1. pc'[r] = "apply" /\ pc[r] = "idle"
    BY <1>1 DEF UpdateMerge, TypeOK
  <2>2. \A q \in Requests : q # r => pc'[q] = pc[q]
    BY <1>1 DEF UpdateMerge, TypeOK
  <2> QED BY <1>1, <2>1, <2>2 DEF UpdateMerge, SaveFacts, Merging
<1>2. ASSUME NEW r \in Requests, UpdateApply(r) PROVE SaveFacts'
  <2>1. pc'[r] \in {"store", "schedule"} /\ pc[r] = "apply"
    BY <1>2 DEF UpdateApply, TypeOK
  <2>2. \A q \in Requests : q # r => pc'[q] = pc[q]
    BY <1>2 DEF UpdateApply, TypeOK
  <2> QED BY <1>2, <2>1, <2>2 DEF UpdateApply, SaveFacts, Merging
<1>3. ASSUME NEW r \in Requests, UpdateSchedule(r) PROVE SaveFacts'
  <2>1. timer' = cur' /\ timer' # None
    BY <1>3 DEF UpdateSchedule, TypeOK, Objects
  <2>2. UnderWay' = UnderWay /\ awaits' = UnderWay
    BY <1>3 DEF UpdateSchedule, UnderWay
  <2>3. \A q \in Requests : writing'[q] # None => pc'[q] = "write"
    BY <1>3 DEF UpdateSchedule, TypeOK, SaveFacts
  <2> QED BY <2>1, <2>2, <2>3 DEF SaveFacts
<1>4. ASSUME NEW r \in Requests, ResetSwap(r) PROVE SaveFacts'
  <2>1. Resetting'
    BY <1>4 DEF ResetSwap, Resetting, TypeOK
  <2>2. ~raced' => timer' = None /\ UnderWay' = {}
    BY <1>4 DEF ResetSwap, UnderWay
  <2>3. \A q \in Requests : writing'[q] # None => pc'[q] = "write"
    BY <1>4 DEF ResetSwap, TypeOK, SaveFacts
  <2> QED BY <1>4, <2>1, <2>2, <2>3 DEF ResetSwap, SaveFacts
<1>5. ASSUME NEW r \in Requests, ResetConfigure(r) PROVE SaveFacts'
  <2>1. Resetting'
    BY <1>5 DEF ResetConfigure, Resetting, TypeOK
  <2>2. Merging' = Merging
    BY <1>5 DEF ResetConfigure, Merging, TypeOK
  <2>3. \A q \in Requests : writing'[q] # None => pc'[q] = "write"
    BY <1>5 DEF ResetConfigure, TypeOK, SaveFacts
  <2> QED BY <1>5, <2>1, <2>2, <2>3 DEF ResetConfigure, SaveFacts, UnderWay
<1>6. ASSUME NEW r \in Requests, ResetPush(r) PROVE SaveFacts'
  <2>1. Resetting'
    BY <1>6 DEF ResetPush, Resetting, TypeOK
  <2>2. Merging' = Merging
    BY <1>6 DEF ResetPush, Merging, TypeOK
  <2>3. \A q \in Requests : writing'[q] # None => pc'[q] = "write"
    BY <1>6 DEF ResetPush, TypeOK, SaveFacts
  <2> QED BY <1>6, <2>1, <2>2, <2>3 DEF ResetPush, SaveFacts, UnderWay
<1>7. ASSUME NEW r \in Requests, ResetSave(r) PROVE SaveFacts'
  <2>1. UnderWay' = UnderWay \cup {r} /\ writing'[r] = heap'[cur']
    <3>1. heap[cur] # None /\ r \in Writers
      BY DEF TypeOK, Settings, Writers
    <3> QED BY <1>7, <3>1 DEF ResetSave, UnderWay, TypeOK
  <2>2. Merging' = Merging
    BY <1>7 DEF ResetSave, Merging, TypeOK
  <2>3. \A w \in UnderWay : w # r => writing'[w] = writing[w]
    BY <1>7 DEF ResetSave, TypeOK, UnderWay
  <2>4. \A q \in Requests : writing'[q] # None => pc'[q] = "write"
    BY <1>7 DEF ResetSave, TypeOK, SaveFacts, Writers
  <2> QED BY <1>7, <2>1, <2>2, <2>3, <2>4 DEF ResetSave, SaveFacts
<1>8. CASE TimerFires
  <2>1. UnderWay' = UnderWay \cup {Timer} /\ writing'[Timer] = heap[timer]
    <3>1. timer \in Objects /\ heap[timer] # None /\ Timer \in Writers
      BY <1>8 DEF TimerFires, TypeOK, Settings, Writers
    <3> QED BY <1>8, <3>1 DEF TimerFires, UnderWay, TypeOK
  <2>2. Merging' = Merging
    BY <1>8 DEF TimerFires, Merging
  <2>3. \A w \in UnderWay : w # Timer => writing'[w] = writing[w]
    BY <1>8 DEF TimerFires, TypeOK, UnderWay
  <2>4. \A q \in Requests : writing'[q] # None => pc'[q] = "write"
    BY <1>8 DEF TimerFires, TypeOK, SaveFacts, Writers
  <2> QED BY <1>8, <2>1, <2>2, <2>3, <2>4 DEF TimerFires, SaveFacts, Resetting
<1>9. ASSUME NEW w \in Writers, WriteEnds(w), Write(w) \/ WriteFails(w)
      PROVE  SaveFacts'
  <2>1. UnderWay' = UnderWay \ {w} /\ w \in UnderWay
    BY <1>9 DEF WriteEnds, UnderWay, TypeOK
  <2>2. \A x \in UnderWay' : writing'[x] = writing[x]
    BY <1>9 DEF WriteEnds, UnderWay, TypeOK
  <2>3. \A q \in Requests : q # w => pc'[q] = pc[q]
    BY <1>9 DEF WriteEnds, TypeOK
  <2>4. w \in Requests => pc[w] = "write" /\ pc'[w] = "idle"
    BY <1>9 DEF WriteEnds, SaveFacts, TypeOK
  <2>5. Merging' = Merging /\ Resetting' = Resetting
    BY <2>3, <2>4 DEF Merging, Resetting
  <2>6. UNCHANGED <<heap, cur, timer, raced>> /\ awaits' = awaits \ {w}
    BY <1>9 DEF WriteEnds
  <2>7. \A q \in Requests : writing'[q] # None => pc'[q] = "write"
    BY <1>9, <2>3 DEF WriteEnds, TypeOK, SaveFacts, Writers
  <2>8. ~raced' /\ ~Merging' =>
          \A x \in UnderWay' \ awaits' : writing'[x] = heap'[cur']
    BY <2>1, <2>2, <2>5, <2>6 DEF SaveFacts
  <2>9. /\ ~raced' /\ ~failed' /\ ~Merging' /\ ~Resetting'
        /\ timer' = None /\ UnderWay' = {}
        => disk' = heap'[cur']
    <3>1. CASE Write(w)
      BY <3>1, <2>1, <2>5, <2>6 DEF Write, SaveFacts
    <3>2. CASE WriteFails(w)
      BY <3>2, <2>6 DEF WriteFails
    <3> QED BY <1>9, <3>1, <3>2
  <2> QED BY <2>6, <2>7, <2>8, <2>9 DEF SaveFacts
<1>10. CASE CloseAndBoot
  <2>1. \A w \in UnderWay : writing[w] \in Settings
    BY DEF TypeOK, UnderWay
  <2>2. heap[cur] \in Settings
    BY DEF TypeOK
  <2> QED BY <1>10, <2>1, <2>2, BootSaves DEF CloseAndBoot
<1>11. CASE PowerCut
  BY <1>11, BootSaves DEF PowerCut, TypeOK
<1>12. CASE UNCHANGED vars
  BY <1>12 DEF vars, SaveFacts, Merging, Resetting, UnderWay
<1>13. ASSUME NEW r \in Requests, UpdateStore(r) PROVE SaveFacts'
  <2>1. pc'[r] = "schedule" /\ pc[r] = "store"
    BY <1>13 DEF UpdateStore, TypeOK
  <2>2. \A q \in Requests : q # r => pc'[q] = pc[q]
    BY <1>13 DEF UpdateStore, TypeOK
  <2> QED BY <1>13, <2>1, <2>2 DEF UpdateStore, SaveFacts, Merging
<1>14. ASSUME NEW r \in Requests, ResetStore(r) PROVE SaveFacts'
  <2>1. Resetting'
    BY <1>14 DEF ResetStore, Resetting, TypeOK
  <2>2. Merging' = Merging
    BY <1>14 DEF ResetStore, Merging, TypeOK
  <2>3. \A q \in Requests : writing'[q] # None => pc'[q] = "write"
    BY <1>14 DEF ResetStore, TypeOK, SaveFacts
  <2> QED BY <1>14, <2>1, <2>2, <2>3 DEF ResetStore, SaveFacts, UnderWay
<1> QED
  BY <1>1, <1>2, <1>3, <1>4, <1>5, <1>6, <1>7, <1>8, <1>9, <1>10, <1>11, <1>12,
     <1>13, <1>14
  DEF Next, Write, WriteFails

(* Once quiet, what a power cut leaves is what the operator sees, unless a *)
(* write failed or a reset met a pending save.                             *)
THEOREM QuietMeansSaved == Spec => []SavedWhenQuiet
<1>1. Init => SaveFacts
  BY CameraSettingsAssumption
  DEF Init, SaveFacts, UnderWay, Objects, Writers
<1>2. TypeOK /\ SaveFacts /\ [Next]_vars => SaveFacts'
  BY StepSaves
<1>3. SaveFacts => SavedWhenQuiet
  BY DEF SaveFacts, SavedWhenQuiet, Quiet, NoRequest, Merging, Resetting
<1> QED BY <1>1, <1>2, <1>3, SettingsTypes, PTL DEF Spec
-----------------------------------------------------------------------------
(* Every step leaves a request on its way wherever the camera differs. *)
LEMMA StepPushes ==
  TypeOK /\ SaveFacts /\ PushFacts /\ [Next]_vars => PushFacts'
<1> SUFFICES ASSUME TypeOK, SaveFacts, PushFacts, [Next]_vars PROVE PushFacts'
  OBVIOUS
<1> USE CameraSettingsAssumption
<1>1. ASSUME NEW r \in Requests, UpdateMerge(r) PROVE PushFacts'
  <2>1. PICK f \in Fields, v \in Values :
          /\ heap' = [heap EXCEPT ![cur][f] = v]
          /\ patch' = [patch EXCEPT ![r] = <<f, v>>]
    BY <1>1 DEF UpdateMerge
  <2>2. pc[r] = "idle" /\ pc'[r] = "apply" /\ patch'[r][1] = f
    BY <1>1, <2>1 DEF UpdateMerge, TypeOK
  <2>3. \A q \in Requests : q # r => pc'[q] = pc[q] /\ patch'[q] = patch[q]
    BY <1>1, <2>1 DEF UpdateMerge, TypeOK
  <2>4. \A g \in Fields : g # f => heap'[cur'][g] = heap[cur][g]
    BY <1>1, <2>1 DEF UpdateMerge, TypeOK, Settings
  <2>5. f = "control" => Pushing'
    BY <2>2 DEF Pushing
  <2>6. Pushing => Pushing'
    BY <2>2, <2>3 DEF Pushing
  <2>7. UNCHANGED <<cur, control, target>>
    BY <1>1 DEF UpdateMerge
  <2> QED BY <2>2, <2>3, <2>4, <2>5, <2>6, <2>7 DEF PushFacts, Fields
<1>2. ASSUME NEW r \in Requests, UpdateApply(r) PROVE PushFacts'
  <2>1. pc[r] = "apply" /\ pc'[r] \in {"store", "schedule"}
    BY <1>2 DEF UpdateApply, TypeOK
  <2>2. \A q \in Requests : q # r => pc'[q] = pc[q]
    BY <1>2 DEF UpdateApply, TypeOK
  <2>3. UNCHANGED <<heap, cur, patch, target>>
    BY <1>2 DEF UpdateApply
  <2>4. CASE patch[r][1] = "look"
    <3>1. control' = control
      BY <1>2, <2>4 DEF UpdateApply
    <3>2. Pushing => Pushing'
      BY <2>1, <2>2, <2>3, <2>4 DEF Pushing
    <3> QED BY <2>1, <2>2, <2>3, <3>1, <3>2 DEF PushFacts
  <2>5. CASE patch[r][1] # "look"
    <3>1. control' = heap'[cur']["control"]
      BY <1>2, <2>3, <2>5 DEF UpdateApply
    <3> QED BY <2>1, <2>2, <2>3, <3>1 DEF PushFacts
  <2> QED BY <2>4, <2>5
<1>3. ASSUME NEW r \in Requests, UpdateStore(r) \/ UpdateSchedule(r)
      PROVE  PushFacts'
  <2>1. \A q \in Requests : pc'[q] = pc[q] \/
          (pc[q] \in {"store", "schedule"} /\ pc'[q] \in {"schedule", "idle"})
    BY <1>3 DEF UpdateStore, UpdateSchedule, TypeOK
  <2>2. UNCHANGED <<heap, cur, control, patch, target>>
    BY <1>3 DEF UpdateStore, UpdateSchedule
  <2>3. Pushing => Pushing'
    BY <2>1, <2>2 DEF Pushing
  <2> QED BY <2>1, <2>2, <2>3 DEF PushFacts
<1>4. ASSUME NEW r \in Requests, ResetSwap(r) PROVE PushFacts'
  <2>1. pc'[r] = "configure" /\ target'[r] = cur'
    BY <1>4 DEF ResetSwap, TypeOK
  <2>2. \A q \in Requests :
          q # r => pc'[q] \notin {"configure", "restore", "push"}
    BY <1>4 DEF ResetSwap, TypeOK
  <2> QED BY <2>1, <2>2 DEF PushFacts, Pushing
<1>5. ASSUME NEW r \in Requests, ResetConfigure(r) \/ ResetStore(r)
      PROVE  PushFacts'
  <2>1. /\ pc[r] \in {"configure", "restore"} /\ pc'[r] \in {"restore", "push"}
        /\ UNCHANGED <<heap, cur, control, target>>
    BY <1>5 DEF ResetConfigure, ResetStore, TypeOK
  <2>2. \A q \in Requests : q # r => pc'[q] = pc[q]
    BY <1>5 DEF ResetConfigure, ResetStore, TypeOK
  <2>3. Pushing'
    BY <2>1 DEF Pushing
  <2> QED BY <2>1, <2>2, <2>3 DEF PushFacts
<1>6. ASSUME NEW r \in Requests, ResetPush(r) PROVE PushFacts'
  <2>1. pc[r] = "push" /\ pc'[r] = "save"
    BY <1>6 DEF ResetPush, TypeOK
  <2>2. \A q \in Requests : q # r => pc'[q] = pc[q]
    BY <1>6 DEF ResetPush, TypeOK
  <2>3. control' = heap'[cur']["control"]
    BY <1>6, <2>1 DEF ResetPush, PushFacts
  <2> QED BY <1>6, <2>1, <2>2, <2>3 DEF ResetPush, PushFacts
<1>7. ASSUME NEW r \in Requests, ResetSave(r) PROVE PushFacts'
  <2>1. pc[r] = "save" /\ pc'[r] = "write"
    BY <1>7 DEF ResetSave, TypeOK
  <2>2. \A q \in Requests : q # r => pc'[q] = pc[q]
    BY <1>7 DEF ResetSave, TypeOK
  <2>3. Pushing => Pushing'
    BY <1>7, <2>1, <2>2 DEF ResetSave, Pushing
  <2> QED BY <1>7, <2>1, <2>2, <2>3 DEF ResetSave, PushFacts
<1>8. CASE TimerFires
  BY <1>8 DEF TimerFires, PushFacts, Pushing
<1>9. ASSUME NEW w \in Writers, WriteEnds(w) PROVE PushFacts'
  <2>1. \A q \in Requests : pc'[q] = pc[q]
                            \/ (pc[q] = "write" /\ pc'[q] = "idle")
    BY <1>9 DEF WriteEnds, SaveFacts
  <2>2. Pushing => Pushing'
    BY <1>9, <2>1 DEF WriteEnds, Pushing
  <2> QED BY <1>9, <2>1, <2>2 DEF WriteEnds, PushFacts
<1>10. CASE CloseAndBoot
  <2>1. \A w \in UnderWay : writing[w] \in Settings
    BY DEF TypeOK, UnderWay
  <2>2. heap[cur] \in Settings
    BY DEF TypeOK
  <2> QED BY <1>10, <2>1, <2>2, BootSaves DEF CloseAndBoot
<1>11. CASE PowerCut
  BY <1>11, BootSaves DEF PowerCut, TypeOK
<1>12. CASE UNCHANGED vars
  BY <1>12 DEF vars, PushFacts, Pushing
<1> QED
  BY <1>1, <1>2, <1>3, <1>4, <1>5, <1>6, <1>7, <1>8, <1>9, <1>10, <1>11, <1>12
  DEF Next, Write, WriteFails
-----------------------------------------------------------------------------
(* A step that leaves the settings and the filter alone, and the requests  *)
(* that read or store a look, keeps the facts about the look.              *)
LEMMA LookStays ==
  ASSUME LookFacts,
         UNCHANGED <<crossed, look, heap, cur, seen, patch>>,
         \A r \in Requests : Storing(r)' <=> Storing(r),
         \A r \in Requests :
           /\ pc[r] = "configure" => pc'[r] = "configure"
           /\ pc[r] = "apply" /\ patch[r][1] = "look" => pc'[r] = "apply"
  PROVE  LookFacts'
<1>1. Configuring => Configuring'
  BY DEF Configuring
<1>2. Restoring => Restoring'
  BY DEF Restoring
<1> QED BY <1>1, <1>2 DEF LookFacts

(* The request that reads the look is the only one about to store it, unless *)
(* looks cross.                                                              *)
LEMMA LookRead ==
  ASSUME TypeOK, NEW r \in Requests, ReadsLook(r),
         Storing(r)', UNCHANGED <<look, heap, cur>>,
         \A q \in Requests : q # r => pc'[q] = pc[q]
  PROVE  LookFacts'
<1>1. seen'[r] = heap'[cur']["look"]
  BY DEF ReadsLook, TypeOK
<1>2. Restoring'
  BY <1>1 DEF Restoring
<1>3. ~crossed' => \A q \in Requests : Storing(q)' => q = r
  BY DEF ReadsLook, Storing
<1> QED BY <1>1, <1>2, <1>3 DEF LookFacts

(* Unless looks crossed, the request that stores a look was the only one, and *)
(* the look it stores is the one of the settings, or another will be read.    *)
LEMMA LookStored ==
  ASSUME TypeOK, LookFacts, NEW r \in Requests, Storing(r), StoresLook(r),
         UNCHANGED <<heap, cur, patch, crossed>>,
         pc'[r] \in {"schedule", "push"},
         \A q \in Requests : q # r => pc'[q] = pc[q]
  PROVE  LookFacts'
<1> SUFFICES ASSUME ~crossed PROVE LookFacts'
  BY DEF LookFacts
<1>1. \A q \in Requests : ~Storing(q)'
  BY DEF LookFacts, Storing
<1>2. Configuring => Configuring'
  BY DEF Configuring, Storing
<1>3. look' = heap'[cur']["look"] \/ Configuring'
  BY <1>2 DEF LookFacts, StoresLook
<1> QED BY <1>1, <1>3 DEF LookFacts

(* Every step keeps the facts about the look. *)
LEMMA StepLooks ==
  TypeOK /\ SaveFacts /\ LookFacts /\ [Next]_vars => LookFacts'
<1> SUFFICES ASSUME TypeOK, SaveFacts, LookFacts, [Next]_vars PROVE LookFacts'
  OBVIOUS
<1> USE CameraSettingsAssumption
<1>1. ASSUME NEW r \in Requests, UpdateMerge(r) PROVE LookFacts'
  <2>1. PICK f \in Fields, v \in Values :
          /\ heap' = [heap EXCEPT ![cur][f] = v]
          /\ patch' = [patch EXCEPT ![r] = <<f, v>>]
    BY <1>1 DEF UpdateMerge
  <2>2. pc[r] = "idle" /\ pc'[r] = "apply" /\ patch'[r][1] = f
    BY <1>1, <2>1 DEF UpdateMerge, TypeOK
  <2>3. \A q \in Requests : q # r => pc'[q] = pc[q] /\ patch'[q] = patch[q]
    BY <1>1, <2>1 DEF UpdateMerge, TypeOK
  <2>4. f # "look" => heap'[cur']["look"] = heap[cur]["look"]
    BY <1>1, <2>1 DEF UpdateMerge, TypeOK, Settings, Fields
  <2>5. f = "look" => Configuring'
    BY <2>2 DEF Configuring
  <2>6. Configuring => Configuring'
    BY <2>2, <2>3 DEF Configuring
  <2>7. UNCHANGED <<cur, look, seen, crossed>>
    BY <1>1 DEF UpdateMerge
  <2>8. \A q \in Requests : Storing(q)' <=> Storing(q)
    BY <2>2, <2>3 DEF Storing
  <2>9. f # "look" /\ Restoring => Restoring'
    BY <2>4, <2>7, <2>8 DEF Restoring
  <2> QED BY <2>4, <2>5, <2>6, <2>7, <2>8, <2>9 DEF LookFacts
<1>2. ASSUME NEW r \in Requests, UpdateApply(r) PROVE LookFacts'
  <2>1. \A q \in Requests : q # r => pc'[q] = pc[q]
    BY <1>2 DEF UpdateApply, TypeOK
  <2>2. CASE patch[r][1] = "look"
    <3>1. pc'[r] = "store" /\ ReadsLook(r) /\ UNCHANGED <<look, heap, cur>>
      BY <1>2, <2>2 DEF UpdateApply, TypeOK
    <3> QED BY <2>1, <3>1, LookRead DEF Storing
  <2>3. CASE patch[r][1] # "look"
    <3>1. pc[r] = "apply" /\ pc'[r] = "schedule"
      BY <1>2, <2>3 DEF UpdateApply, TypeOK
    <3> QED BY <1>2, <2>1, <2>3, <3>1, LookStays DEF UpdateApply, Storing
  <2> QED BY <2>2, <2>3
<1>3. ASSUME NEW r \in Requests, UpdateStore(r) PROVE LookFacts'
  <2>1. /\ Storing(r) /\ pc'[r] = "schedule"
        /\ \A q \in Requests : q # r => pc'[q] = pc[q]
    BY <1>3 DEF UpdateStore, TypeOK, Storing
  <2> QED BY <1>3, <2>1, LookStored DEF UpdateStore
<1>4. ASSUME NEW r \in Requests, UpdateSchedule(r) PROVE LookFacts'
  <2>1. /\ pc[r] = "schedule" /\ pc'[r] = "idle"
        /\ \A q \in Requests : q # r => pc'[q] = pc[q]
    BY <1>4 DEF UpdateSchedule, TypeOK
  <2> QED BY <1>4, <2>1, LookStays DEF UpdateSchedule, Storing
<1>5. ASSUME NEW r \in Requests, ResetSwap(r) PROVE LookFacts'
  <2>1. /\ pc[r] = "idle" /\ pc'[r] = "configure"
        /\ \A q \in Requests : q # r => pc'[q] = pc[q]
    BY <1>5 DEF ResetSwap, TypeOK
  <2>2. Configuring'
    BY <2>1 DEF Configuring
  <2>3. \A q \in Requests : Storing(q)' <=> Storing(q)
    BY <2>1 DEF Storing
  <2> QED BY <1>5, <2>2, <2>3 DEF ResetSwap, LookFacts
<1>6. ASSUME NEW r \in Requests, ResetConfigure(r) PROVE LookFacts'
  <2>1. pc'[r] = "restore" /\ \A q \in Requests : q # r => pc'[q] = pc[q]
    BY <1>6 DEF ResetConfigure, TypeOK
  <2> QED BY <1>6, <2>1, LookRead DEF ResetConfigure, Storing
<1>7. ASSUME NEW r \in Requests, ResetStore(r) PROVE LookFacts'
  <2>1. /\ Storing(r) /\ pc'[r] = "push"
        /\ \A q \in Requests : q # r => pc'[q] = pc[q]
    BY <1>7 DEF ResetStore, TypeOK, Storing
  <2> QED BY <1>7, <2>1, LookStored DEF ResetStore
<1>8. ASSUME NEW r \in Requests, ResetPush(r) \/ ResetSave(r) PROVE LookFacts'
  <2>1. /\ pc[r] \in {"push", "save"} /\ pc'[r] \in {"save", "write"}
        /\ \A q \in Requests : q # r => pc'[q] = pc[q]
    BY <1>8 DEF ResetPush, ResetSave, TypeOK
  <2> QED BY <1>8, <2>1, LookStays DEF ResetPush, ResetSave, Storing
<1>9. CASE TimerFires
  BY <1>9, LookStays DEF TimerFires, Storing
<1>10. ASSUME NEW w \in Writers, WriteEnds(w) PROVE LookFacts'
  <2>1. \A q \in Requests : pc'[q] = pc[q]
                            \/ (pc[q] = "write" /\ pc'[q] = "idle")
    BY <1>10 DEF WriteEnds, SaveFacts
  <2> QED BY <1>10, <2>1, LookStays DEF WriteEnds, Storing
<1>11. CASE CloseAndBoot
  <2>1. \A w \in UnderWay : writing[w] \in Settings
    BY DEF TypeOK, UnderWay
  <2>2. heap[cur] \in Settings
    BY DEF TypeOK
  <2> QED BY <1>11, <2>1, <2>2, BootSaves DEF CloseAndBoot
<1>12. CASE PowerCut
  BY <1>12, BootSaves DEF PowerCut, TypeOK
<1>13. CASE UNCHANGED vars
  BY <1>13, LookStays DEF vars, Storing
<1> QED
  BY <1>1, <1>2, <1>3, <1>4, <1>5, <1>6, <1>7, <1>8, <1>9, <1>10, <1>11, <1>12,
     <1>13
  DEF Next, Write, WriteFails

(* When no request is under way, the camera has what the settings say, and *)
(* the filter too unless two looks crossed, for any number of overlapping  *)
(* requests.                                                               *)
THEOREM SettingsAreApplied == Spec => []ControlsFollow
<1>1. Init => SaveFacts /\ PushFacts /\ LookFacts
  BY CameraSettingsAssumption
  DEF Init, SaveFacts, PushFacts, LookFacts, Storing, UnderWay, Objects, Writers
<1>2. TypeOK /\ SaveFacts /\ PushFacts /\ LookFacts /\ [Next]_vars
      => SaveFacts' /\ PushFacts' /\ LookFacts'
  BY StepSaves, StepPushes, StepLooks
<1>3. PushFacts /\ LookFacts => ControlsFollow
  <2>1. NoRequest => ~Pushing /\ ~Configuring /\ ~Restoring
    BY DEF NoRequest, Pushing, Configuring, Restoring, Storing
  <2> QED BY <2>1 DEF PushFacts, LookFacts, ControlsFollow
<1> QED BY <1>1, <1>2, <1>3, SettingsTypes, PTL DEF Spec
=============================================================================
