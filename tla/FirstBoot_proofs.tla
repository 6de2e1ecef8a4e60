--------------------------- MODULE FirstBoot_proofs -------------------------
(***************************************************************************)
(* Theorems about the first boot, for any number of faults and power cuts  *)
(* and any sets of keys: the keys the booth was given first are not lost,  *)
(* and a provisioned booth is complete.                                    *)
(***************************************************************************)
EXTENDS FirstBoot, TLAPS

(* Where the import and the onboarding request are, the files they wrote  *)
(* before are there: keys once they are written, the network in both files *)
(* and the PIN in their order; the request runs only while the engine does.*)
StepsBehind ==
  /\ stage \in {"own", "unlink"} => localFile.keys # NoKeys
  /\ onboard # "idle" => stage = "running" /\ localFile.keys # NoKeys
  /\ onboard \in {"config", "pin", "marker", "request"} => localFile.ssid
  /\ onboard \in {"pin", "marker", "request"} => bootConfig.ssid
  /\ onboard \in {"marker", "request"} => bootConfig.pin

(* config.json is made anew, without a PIN, only by an engine that finds   *)
(* none; so one with a network or a PIN must have been saved.              *)
SavedFirst ==
  /\ stage = "running" => bootConfig.saved
  /\ bootConfig.ssid \/ bootConfig.pin => bootConfig.saved

(* Until /data has keys the card has those wanted, or none yet; the import *)
(* writes only then.                                                       *)
KeysOnCard ==
  /\ localFile.keys = NoKeys => bootFile \in {"blank", wanted}
  /\ stage = "write" => localFile.keys = NoKeys /\ bootFile \in KeySets

BootFacts ==
  /\ FirstBootTypeOK /\ StepsBehind /\ SavedFirst /\ KeysOnCard
  /\ KeysNeverLost /\ ProvisionedIsComplete

(* The records of both files as the engine first finds or makes them. *)
LEMMA ConfigRecord ==
  ASSUME NEW saved \in BOOLEAN, NEW ssid \in BOOLEAN, NEW pin \in BOOLEAN
  PROVE  [saved |-> saved, ssid |-> ssid, pin |-> pin]
           \in [saved : BOOLEAN, ssid : BOOLEAN, pin : BOOLEAN]
OBVIOUS

(* The absent local.json is a record like any other. *)
LEMMA LocalRecord ==
  NoLocal \in [keys : KeySets \cup {NoKeys}, ssid : BOOLEAN,
               owner : {"none", "root", "pi"}]
BY DEF NoLocal

(* The written card satisfies BootFacts. *)
LEMMA BootFactsInit == FirstBootInit => BootFacts
<1> SUFFICES ASSUME FirstBootInit PROVE BootFacts
  OBVIOUS
<1>1. FirstBootTypeOK
  <2>1. bootConfig \in [saved : BOOLEAN, ssid : BOOLEAN, pin : BOOLEAN]
    BY ConfigRecord, Zenon DEF FirstBootInit
  <2>2. localFile \in [keys : KeySets \cup {NoKeys}, ssid : BOOLEAN,
                      owner : {"none", "root", "pi"}]
    BY LocalRecord DEF FirstBootInit
  <2>3. bootFaults \in 0..MaxBootFaults /\ bootCuts \in 0..MaxBootCuts
    BY BootAssumption DEF FirstBootInit
  <2>4. /\ bootFile \in KeySets \cup {"blank", "gone"} /\ frozen \in BOOLEAN
        /\ wanted \in KeySets \cup {NoKeys}
        /\ markers \in SUBSET {"provisioned", "requested", "done"}
        /\ stage \in Stages /\ onboard \in OnboardSteps
    BY DEF FirstBootInit, Stages, OnboardSteps
  <2> QED BY <2>1, <2>2, <2>3, <2>4 DEF FirstBootTypeOK
<1> USE DEF FirstBootInit, NoLocal
<1>2. StepsBehind /\ SavedFirst /\ KeysOnCard /\ KeysNeverLost /\ ProvisionedIsComplete
  BY DEF StepsBehind, SavedFirst, KeysOnCard, KeysNeverLost, ProvisionedIsComplete
<1> QED BY <1>1, <1>2 DEF BootFacts

(* A counter that is below its bound stays within it. *)
LEMMA BoundsKept ==
  ASSUME FirstBootTypeOK, BootFine \/ BootFault
  PROVE  bootFaults' \in 0..MaxBootFaults /\ bootCuts' \in 0..MaxBootCuts
BY BootAssumption DEF FirstBootTypeOK, BootFine, BootFault

(* Every step of import, start, onboarding, lockdown and power keeps them. *)
LEMMA BootFactsKept == BootFacts /\ [FirstBootNext]_bootVars => BootFacts'
<1> SUFFICES ASSUME BootFacts, [FirstBootNext]_bootVars PROVE BootFacts'
  OBVIOUS
<1> DEFINE Facts == /\ StepsBehind /\ SavedFirst /\ KeysOnCard
                    /\ KeysNeverLost /\ ProvisionedIsComplete
<1> USE BootAssumption DEF FirstBootTypeOK, Stages, OnboardSteps
<1> HIDE DEF Facts
<1>t. FirstBootTypeOK /\ Facts BY DEF BootFacts, Facts
<1>f. SUFFICES FirstBootTypeOK' /\ Facts'
  BY DEF BootFacts, Facts
<1>1. CASE UNCHANGED bootVars
  BY <1>1, <1>t DEF bootVars, Facts, StepsBehind, SavedFirst, KeysOnCard, KeysNeverLost,
                    ProvisionedIsComplete
<1>0. ASSUME NEW k \in KeySets, FillCard(k) PROVE FirstBootTypeOK' /\ Facts'
  <2>1. FirstBootTypeOK'
    BY <1>0, <1>t, BoundsKept DEF FillCard, Files, BootFine
  <2>2. Facts'
    BY <1>0, <1>t DEF FillCard, Files, Facts, StepsBehind, SavedFirst, KeysOnCard,
                      KeysNeverLost, ProvisionedIsComplete
  <2> QED BY <2>1, <2>2
<1>2. CASE PowerOn \/ SwitchOff
  <2>1. FirstBootTypeOK'
    BY <1>2, <1>t, BoundsKept DEF PowerOn, SwitchOff, Files, BootFine
  <2>2. Facts'
    BY <1>2, <1>t DEF PowerOn, SwitchOff, Files, Facts, StepsBehind, SavedFirst, KeysOnCard,
                      KeysNeverLost, ProvisionedIsComplete
  <2> QED BY <2>1, <2>2
<1>3. CASE ImportReads \/ ImportWrites \/ ImportOwns \/ ImportUnlinks \/ ImportFails
  <2>0. /\ bootFile' \in KeySets \cup {"blank", "gone"} /\ stage' \in Stages
        /\ UNCHANGED <<wanted, bootConfig, markers, frozen, onboard>>
        /\ BootFine \/ BootFault
    BY <1>3, <1>t
    DEF ImportReads, ImportWrites, ImportOwns, ImportUnlinks, ImportFails, Files
  <2>l. localFile' \in [keys : KeySets \cup {NoKeys}, ssid : BOOLEAN,
                       owner : {"none", "root", "pi"}]
    <3>1. CASE ImportWrites
      <4>1. bootFile \in KeySets \cup {NoKeys}
        BY <3>1, <1>t DEF ImportWrites, Facts, KeysOnCard
      <4> QED BY <3>1, <4>1, <1>t DEF ImportWrites
    <3>2. CASE ImportOwns
      BY <3>2, <1>t DEF ImportOwns
    <3>3. CASE ImportReads \/ ImportUnlinks \/ ImportFails
      BY <3>3, <1>t DEF ImportReads, ImportUnlinks, ImportFails, Files
    <3> QED BY <1>3, <3>1, <3>2, <3>3
  <2>1. FirstBootTypeOK'
    BY <2>0, <2>l, <1>t, BoundsKept
  <2>2. Facts'
    BY <1>3, <1>t
    DEF ImportReads, ImportWrites, ImportOwns, ImportUnlinks, ImportFails, Files, Facts,
        StepsBehind, SavedFirst, KeysOnCard, KeysNeverLost, ProvisionedIsComplete
  <2> QED BY <2>1, <2>2
<1>4. CASE EngineStarts \/ EngineRetries \/ EngineExits
  <2>0. bootConfig' \in [saved : BOOLEAN, ssid : BOOLEAN, pin : BOOLEAN]
    <3> DEFINE Made == [saved |-> TRUE, ssid |-> localFile.ssid, pin |-> FALSE]
    <3>1. localFile.ssid \in BOOLEAN
      BY <1>t
    <3>2. Made \in [saved : BOOLEAN, ssid : BOOLEAN, pin : BOOLEAN]
      BY <3>1, ConfigRecord, Zenon
    <3>3. bootConfig' \in {bootConfig, Made}
      BY <1>4, Zenon DEF EngineStarts, EngineRetries, EngineExits, Files
    <3> HIDE DEF Made
    <3> QED BY <3>2, <3>3, <1>t
  <2>a. /\ bootFile' = bootFile /\ wanted' = wanted /\ localFile' = localFile /\ markers' = markers
        /\ frozen' = frozen /\ stage' \in {"crashed", "running", "import"}
        /\ onboard' \in {onboard, "idle"} /\ (BootFine \/ BootFault)
    BY <1>4, Zenon DEF EngineStarts, EngineRetries, EngineExits, Files
  <2>1. FirstBootTypeOK'
    BY <2>0, <2>a, <1>t, BoundsKept
  <2>2. Facts'
    BY <1>4, <1>t
    DEF EngineStarts, EngineRetries, EngineExits, Files, Facts, StepsBehind, SavedFirst, KeysOnCard,
        KeysNeverLost, ProvisionedIsComplete
  <2> QED BY <2>1, <2>2
<1>5. CASE OnboardBegins \/ OnboardStep \/ OnboardFails
  <2>1. FirstBootTypeOK'
    BY <1>5, <1>t, BoundsKept
    DEF OnboardBegins, OnboardStep, OnboardFails, OnboardWritesLocal, OnboardSavesSsid,
        OnboardSavesPin, OnboardMarks, OnboardRequestsLock, Files
  <2>2. Facts'
    BY <1>5, <1>t
    DEF OnboardBegins, OnboardStep, OnboardFails, OnboardWritesLocal, OnboardSavesSsid,
        OnboardSavesPin, OnboardMarks, OnboardRequestsLock, Files, Facts, StepsBehind,
        SavedFirst, KeysOnCard, KeysNeverLost, ProvisionedIsComplete
  <2> QED BY <2>1, <2>2
<1>6. CASE LockdownStarts \/ LockdownFreezes \/ LockdownFails \/ LockdownDone
  <2>1. FirstBootTypeOK'
    BY <1>6, <1>t, BoundsKept
    DEF LockdownStarts, LockdownFreezes, LockdownFails, LockdownDone, Files
  <2>2. Facts'
    BY <1>6, <1>t
    DEF LockdownStarts, LockdownFreezes, LockdownFails, LockdownDone, Files, Facts,
        StepsBehind, SavedFirst, KeysOnCard, KeysNeverLost, ProvisionedIsComplete
  <2> QED BY <2>1, <2>2
<1>7. CASE BootCut
  <2>1. FirstBootTypeOK'
    BY <1>7, <1>t, BootAssumption DEF BootCut, Files
  <2>2. Facts'
    BY <1>7, <1>t DEF BootCut, Files, Facts, StepsBehind, SavedFirst, KeysOnCard, KeysNeverLost,
                      ProvisionedIsComplete
  <2> QED BY <2>1, <2>2
<1> QED BY <1>0, <1>1, <1>2, <1>3, <1>4, <1>5, <1>6, <1>7 DEF FirstBootNext, BootStep

(* BootFacts is an invariant. *)
LEMMA BootFactsHold == FirstBootSpec => []BootFacts
BY BootFactsInit, BootFactsKept, PTL DEF FirstBootSpec

(* Whatever fails or is cut, every variable keeps to its type and the      *)
(* counters to their bounds.                                               *)
THEOREM FirstBootTypes == FirstBootSpec => []FirstBootTypeOK
<1>1. BootFacts => FirstBootTypeOK BY DEF BootFacts
<1> QED BY <1>1, BootFactsHold, PTL

(* local.json holds no keys, or those filled in last before it had any, and *)
(* import_boot_config removes the copy on the card only once it holds some. *)
THEOREM KeysStay == FirstBootSpec => []KeysNeverLost
<1>1. BootFacts => KeysNeverLost BY DEF BootFacts
<1> QED BY <1>1, BootFactsHold, PTL

(* provision_booth writes its marker last: a booth that has it has keys,   *)
(* network and PIN, also after faults, cuts and engine restarts.           *)
THEOREM ProvisionedMeansComplete == FirstBootSpec => []ProvisionedIsComplete
<1>1. BootFacts => ProvisionedIsComplete BY DEF BootFacts
<1> QED BY <1>1, BootFactsHold, PTL
=============================================================================
